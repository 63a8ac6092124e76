------------------------- MODULE MCAttestedSession -------------------------
(***************************************************************************)
(* Attested sessions in one of two sizes: two client objects, of which one *)
(* may be a clone, with one query and an enclave that reboots; or two      *)
(* queries with different distances, by tickets of one object and by a     *)
(* stranger, in one boot.                                                  *)
(***************************************************************************)
EXTENDS AttestedSession, TLC

CONSTANTS s1, q1, q2, d1, d2, t1, t2, c1, c2, k1, k2, w1, n1, n2, y1, y2

MCAnswer == [s \in Setups |-> [q \in Queries |-> IF q = q1 THEN d1 ELSE d2]]

VARIABLE running

InUse == {p \in {packet[t] : t \in Tickets} \cup {search[w].query : w \in Workers} : p # None}

OneQuery ==
  /\ \A p \in InUse : p.query = q1
  /\ Cardinality(seen \cup {p.ticket : p \in InUse}) <= 1

OneClient == Cardinality({c \in Clients : phase[c] # "unborn"}) <= 1

ClonesNext == running = "clones" /\ AttestedNext /\ OneQuery'

QueriesNext == running = "queries" /\ AttestedNext /\ OneClient' /\ key' = key

MCNext == UNCHANGED running /\ (ClonesNext \/ QueriesNext)

MCInit == running \in {"clones", "queries"} /\ AttestedInit

MCSpec == MCInit /\ [][MCNext]_<<attestedVars, running>>

MCSymmetry == Permutations(Tickets) \cup Permutations(Clients)
                \cup Permutations(Callers) \cup Permutations(Nonces)
                \cup Permutations(Keys)
=============================================================================
