SPECIFICATION ServiceSpec
CONSTANTS
  Calls = {c1, c2}
  Places = 1
  Backlog = 1
  None = None
INVARIANTS
  PlacesAccounted
  ValueMeansDone
PROPERTIES
  RelaysEnd
  QueuedAreServed
