SPECIFICATION LookupSpec
CONSTANTS
  Keys = {k1, k2}
  Absent = Absent
  Torn = Torn
  Chunks = 3
  MaxCopies = 2
  Nothing = Nothing
INVARIANT
  ReturnsItsMessage
