SPECIFICATION Spec
CONSTANTS
  None = None
  Nonces = {n1, n2}
  Pins <- MCPins
  MaxAge = 3
  MaxSession = 2
  MaxSkew = 1
  Handshake = 2
  SessionSeconds = 3
  Root <- MCRoot
  Chains <- MCChains
  HostKeys <- MCHostKeys
  OwnChain <- MCOwnChain
  OwnPcrs <- MCPins
  ForeignPcrs <- MCForeignPcrs
  MaxTime = 6
  MaxReceipts = 1
  Drifts <- MCDrifts
  Threads = {t1, t2, t3}
  Nobody = Nobody
  MaxDocument = 2
  SeedLength = 1
SYMMETRY MCSymmetry
INVARIANTS
  SessionsRestOnEvidence
  DecryptedInTime
  PromptEvidenceIsFresh
  NoCallOnClosedDevice
CHECK_DEADLOCK FALSE
