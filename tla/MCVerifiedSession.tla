-------------------------- MODULE MCVerifiedSession --------------------------
(***************************************************************************)
(* Sessions of verified clients and their evaluator, and each side alone   *)
(* against whatever packets may reach it, with the other at rest.          *)
(***************************************************************************)
EXTENDS VerifiedSession, TLC

CONSTANTS s1, s2, q1, q2, d1, d2, t1, t2, t3, c1, c2, k1, k2, w1, w2, w3

(* Two queries whose distances differ, on one index.                       *)
MCAnswer == [s \in Setups |-> [q \in Queries |-> IF q = q1 THEN d1 ELSE d2]]

MCSymmetry ==
  Permutations(Tickets) \cup Permutations(Clients) \cup Permutations(Callers)

VARIABLE running   \* the machine of this behaviour

MCVars == <<sessionVars, running>>

InitWith(machines) == running \in machines /\ SessionInit

ClientAloneInit == InitWith({"client"})

ClientAlone == ClientAloneInit /\ [][ClientNext /\ UNCHANGED <<serverVars, running>>]_MCVars

TogetherInit == InitWith({"session"})

Together == TogetherInit /\ [][SessionNext /\ UNCHANGED running]_MCVars

(* The evaluator alone, with its restarts, or with a client, when neither  *)
(* of them crashes.                                                        *)
ServerNextAlone == running = "server" /\ ServerNext /\ UNCHANGED clientVars

SteadySession == running = "session" /\ SteadyNext

ServerOrSessionInit == InitWith({"server", "session"})

ServerOrSession ==
  /\ ServerOrSessionInit
  /\ [][(ServerNextAlone \/ SteadySession) /\ UNCHANGED running]_MCVars
  /\ SessionFairness
=============================================================================
