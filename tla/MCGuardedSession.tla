--------------------------- MODULE MCGuardedSession ---------------------------
EXTENDS GuardedSession, TLC

CONSTANTS s1, q1, q2, d1, d2, t1, t2, c1, c2, k1, k2, w1

MCAnswer == [s \in Setups |-> [q \in Queries |-> IF q = q1 THEN d1 ELSE d2]]

MCSymmetry == Permutations(Tickets) \cup Permutations(Clients)
                \cup Permutations(Callers)
=============================================================================
