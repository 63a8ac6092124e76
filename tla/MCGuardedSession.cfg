CONSTANTS
  s1 = s1
  q1 = q1
  q2 = q2
  d1 = d1
  d2 = d2
  t1 = t1
  t2 = t2
  c1 = c1
  c2 = c2
  k1 = k1
  k2 = k2
  w1 = w1
  Setups = {s1}
  Queries = {q1, q2}
  Tickets = {t1}
  Distances = {d1, d2}
  Answer <- MCAnswer
  Undecodable = Undecodable
  None = None
  MaxQueries = 1
  MaxPending = 1
  Clients = {c1, c2}
  Callers = {k1, k2}
  Workers = {w1}
  MaxConcurrent = 1
  ServerSetup = s1
SPECIFICATION GuardedSpec
SYMMETRY MCSymmetry
CHECK_DEADLOCK FALSE
INVARIANTS
  OnlyRecomputedDecrypted
  NoLateRejection
