SPECIFICATION Spec
CONSTANTS
  t1 = t1
  t2 = t2
  k1 = k1
  k2 = k2
  g1 = g1
  g2 = g2
  g3 = g3
  None = None
  Nothing = Nothing
  Unset = Unset
  Threads = {t1, t2}
  BFVKeys <- MCBFVKeys
  Configs <- MCConfigs
  RnsParams = {"rns"}
  Backends = {"optimized", "native", "residue"}
  Counts = {1, 2, 3}
  IndexCounts = {1, 3}
  MaxMasks = 2
  Keys = {k1, k2}
  Absent = Absent
  Torn = Torn
  Chunks = 3
  MaxCopies = 2
  Clients = {"c"}
  GPUKeys = {g1, g2, g3}
  Oversized = {g3}
  KeyLens = {4, 8, 16}
  MaxKeyLen = 8
  EmbedLens = {4, 12}
  MessageBits = 4
  CacheMax = 2
  Kinds = {"lookup", "plain"}
SYMMETRY MCSymmetry
INVARIANTS
  SearchesUsePresentKeys
  LookupKeysStayWhole
  GPUTablesBelong
