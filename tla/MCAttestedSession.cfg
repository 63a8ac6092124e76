CONSTANTS
  s1 = s1
  q1 = q1
  q2 = q2
  d1 = d1
  d2 = d2
  t1 = t1
  t2 = t2
  c1 = c1
  c2 = c2
  k1 = k1
  k2 = k2
  w1 = w1
  n1 = n1
  n2 = n2
  y1 = y1
  y2 = y2
  Setups = {s1}
  Queries = {q1, q2}
  Tickets = {t1, t2}
  Distances = {d1, d2}
  Answer <- MCAnswer
  Undecodable = Undecodable
  None = None
  MaxQueries = 2
  MaxPending = 2
  Clients = {c1, c2}
  Callers = {k1}
  Workers = {w1}
  MaxConcurrent = 1
  ServerSetup = s1
  Nonces = {n1, n2}
  Keys = {y1, y2}
  Mine = Mine
  Stranger = Stranger
  MaxAttestations = 2
SPECIFICATION MCSpec
SYMMETRY MCSymmetry
CHECK_DEADLOCK FALSE
INVARIANTS
  OnlyEnclaveDecrypted
  WorkOfSession
  ReceiptsOfSession
  SessionsApart
