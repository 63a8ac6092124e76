--------------------------- MODULE VerifiedSession ---------------------------
(***************************************************************************)
(* Verified clients and their evaluator: VerifiedClient and VerifiedServer *)
(* over a network that may lose, repeat, delay and reorder packets.  What  *)
(* was sent is the queries begun so far and the responses returned so far; *)
(* any of them can arrive at any time, again, or never.                    *)
(***************************************************************************)
EXTENDS VerifiedClient, VerifiedServer

sessionVars == <<clientVars, serverVars>>

SessionInit == ClientInit /\ ServerInit

(* A query packet reaches the evaluator.                                   *)
DeliverQuery(w, t) ==
  packet[t] # None /\ Admit(w, packet[t]) /\ UNCHANGED clientVars

(* A response reaches a caller, who passes it to a client.                 *)
DeliverResponse(k, c, r) ==
  r \in responses /\ ConsumeTicket(k, c, r) /\ UNCHANGED serverVars

FinishCall(k) == Finish(k) /\ UNCHANGED serverVars

ProceedSearch(w) == Proceed(w) /\ UNCHANGED clientVars

(* Steps in which neither side loses its state.                            *)
SteadyNext ==
  \/ \E c \in Clients : Operate(c) /\ UNCHANGED serverVars
  \/ \E w \in Workers, t \in Tickets : DeliverQuery(w, t)
  \/ \E w \in Workers : ProceedSearch(w)
  \/ \E k \in Callers, c \in Clients, r \in responses : DeliverResponse(k, c, r)
  \/ \E k \in Callers : FinishCall(k)

SessionNext ==
  \/ SteadyNext
  \/ \E c \in Clients : Crash(c) /\ UNCHANGED serverVars
  \/ Restart /\ UNCHANGED clientVars

SessionSpec == SessionInit /\ [][SessionNext]_sessionVars

(* Threads keep running; an application whose query was not admitted sends *)
(* the same packet again, and a response that is there is fetched in the   *)
(* end.                                                                    *)
SessionFairness ==
  /\ \A w \in Workers : WF_sessionVars(ProceedSearch(w))
  /\ \A k \in Callers : WF_sessionVars(FinishCall(k))
  /\ \A t \in Tickets : SF_sessionVars(\E w \in Workers : DeliverQuery(w, t) /\ t \notin seen)
  /\ \A t \in Tickets : SF_sessionVars(
       \E k \in Callers, c \in Clients, r \in responses :
         r.ticket = t /\ DeliverResponse(k, c, r))

-----------------------------------------------------------------------------

Answered(t) == \E d \in Distances : <<t, d>> \in returned

(* An evaluator that computes the right distances is always believed: a    *)
(* ticket whose response is decrypted gets its distances returned, through *)
(* client crashes, restores and clones, server restarts that evaluate a    *)
(* query again, and late or repeated packets of other queries, objects and *)
(* sessions.                                                               *)
HonestAnswersReturn == \A t \in Tickets : decrypted[t] > 0 => Answered(t)

(* Without a crash, every query begun ends: with its answer, cancelled, or *)
(* with its ticket spent by an evaluation that failed.  In particular a    *)
(* client never meets a server whose budget is used up before its own is,  *)
(* and a query that waits for its answer does not keep its place among the *)
(* pending ones for good.                                                  *)
Asked(t) == packet[t] # None /\ packet[t].setup = ServerSetup

LostToFailure(t) ==
  /\ t \in seen
  /\ \A r \in responses : r.ticket # t
  /\ \A w \in Workers : search[w].at = "burnt" => search[w].query.ticket # t

QueriesSettle == \A t \in Tickets :
  Asked(t) ~> (Answered(t) \/ t \in cancelled \/ LostToFailure(t))
=============================================================================
