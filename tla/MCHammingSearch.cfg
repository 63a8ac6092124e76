SPECIFICATION Spec
CONSTANTS
  RingDegree = 8
  PlainModulus = 17
  CoeffBits = 30
  DigitBits = 10
  Eta = 1
  Primes <- MCPrimes
  Owners <- MCOwners
  Keys <- MCKeys
  GaloisExponents <- MCGaloisExponents
  Relinearizers <- MCRelinearizers
  Fresh <- MCFresh
  Plaintexts <- MCPlaintexts
  Steps <- MCSteps
  TargetBits <- MCTargetBits
  MaxOps = 3
  ResponseBits = 20
  Jobs <- MCJobs
  Samples <- MCSamples
  None = None
  SlotCount = 16
  MaxVectors = 17
  Queries <- MCQueries
  Databases <- MCDatabases
INVARIANTS
  LayoutIsExact
  OperationsAreExact
  SearchesAreExact
CHECK_DEADLOCK FALSE
