SPECIFICATION Together
CONSTANTS
  s1 = s1
  s2 = s2
  q1 = q1
  q2 = q2
  d1 = d1
  d2 = d2
  t1 = t1
  t2 = t2
  t3 = t3
  c1 = c1
  c2 = c2
  k1 = k1
  k2 = k2
  w1 = w1
  w2 = w2
  w3 = w3
  Distances = {d1, d2}
  Answer <- MCAnswer
  Undecodable = Undecodable
  None = None
  MaxQueries = 2
  MaxPending = 2
  ServerSetup = s1
  Setups = {s1, s2}
  Queries = {q1, q2}
  Tickets = {t1, t2}
  Clients = {c1, c2}
  Callers = {k1}
  Workers = {w1}
  MaxConcurrent = 1
SYMMETRY MCSymmetry
INVARIANT
  HonestAnswersReturn
CHECK_DEADLOCK FALSE
