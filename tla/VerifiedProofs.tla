---------------------------- MODULE VerifiedProofs ---------------------------
(***************************************************************************)
(* Safety of VerifiedClient for any number of objects, threads, tickets,   *)
(* queries and setups, of VerifiedServer for any number of worker threads, *)
(* tickets and places, and any budget, and of the sessions they make up.   *)
(***************************************************************************)
EXTENDS VerifiedSession, FiniteSetTheorems, TLAPS

(* The client.                                                             *)

(* A query packet is not None.                                             *)
LEMMA PacketIsNotNone == \A p \in QueryPacket : p # None
  BY NoneAssumption DEF QueryPacket

(* A call that is not idle holds a client, a ticket and a result.          *)
LEMMA CallFields ==
  ASSUME ClientTypeOK, NEW k \in Callers, call[k] # Idle
  PROVE  /\ call[k] \in Checking
         /\ call[k].client \in Clients
         /\ call[k].ticket \in Tickets
         /\ call[k].result \in Result
  BY DEF ClientTypeOK, Checking

(* The ticket of an idle call is no ticket.                                *)
LEMMA IdleHasNoTicket == \A t \in Tickets : Idle.ticket # t
  BY NoneAssumption DEF Idle

-----------------------------------------------------------------------------

(* No step takes a variable out of its type.                               *)
LEMMA ClientTypedStep ==
  ASSUME ClientTypeOK, [ClientNext]_clientVars
  PROVE  ClientTypeOK'
<1> USE DEF ClientTypeOK
<1>1. ASSUME NEW c \in Clients, Construct(c)
      PROVE  ClientTypeOK'
  BY <1>1 DEF Construct
<1>2. ASSUME NEW c \in Clients, NEW s \in Setups, PrepareIndex(c, s)
      PROVE  ClientTypeOK'
  BY <1>2 DEF PrepareIndex
<1>3. ASSUME NEW c \in Clients, NEW t \in Tickets, NEW q \in Queries,
             BeginQuery(c, t, q)
      PROVE  ClientTypeOK'
  <2>1. setup[c] \in Setups
    BY <1>3 DEF BeginQuery, MayBegin
  <2>2. packet' \in [Tickets -> QueryPacket \cup {None}]
    BY <1>3, <2>1 DEF BeginQuery, QueryPacket
  <2>3. started' \in [Clients -> 0..MaxQueries]
    BY <1>3, LimitAssumption DEF BeginQuery, MayBegin
  <2>4. QED
    BY <1>3, <2>2, <2>3 DEF BeginQuery
<1>4. ASSUME NEW c \in Clients, CancelPending(c)
      PROVE  ClientTypeOK'
  BY <1>4 DEF CancelPending
<1>5. ASSUME NEW c \in Clients, ProtectState(c)
      PROVE  ClientTypeOK'
  BY <1>5 DEF ProtectState, SavedState
<1>6. ASSUME NEW c \in Clients, NEW v \in saved, Restore(c, v)
      PROVE  ClientTypeOK'
  BY <1>6 DEF Restore, SavedState
<1>7. ASSUME NEW c \in Clients, Crash(c)
      PROVE  ClientTypeOK'
  BY <1>7 DEF Crash
<1>8. ASSUME NEW k \in Callers, NEW c \in Clients, NEW r \in ResponsePacket,
             ConsumeTicket(k, c, r)
      PROVE  ClientTypeOK'
  <2>1. call' \in [Callers -> Checking \cup {Idle}]
    BY <1>8 DEF ConsumeTicket, Checking, ResponsePacket
  <2>2. QED
    BY <1>8, <2>1 DEF ConsumeTicket
<1>9. ASSUME NEW k \in Callers, RejectUndecodable(k)
      PROVE  ClientTypeOK'
  BY <1>9 DEF RejectUndecodable
<1>10. ASSUME NEW k \in Callers, DecryptAndCheck(k)
       PROVE  ClientTypeOK'
  <2>1. call[k].ticket \in Tickets /\ call[k].result \in Distances
    BY <1>10, CallFields DEF DecryptAndCheck, Result
  <2>2. returned' \subseteq Tickets \X Distances
    BY <1>10, <2>1 DEF DecryptAndCheck
  <2>3. decrypted' \in [Tickets -> Nat]
    BY <1>10, <2>1 DEF DecryptAndCheck
  <2>4. QED
    BY <1>10, <2>2, <2>3 DEF DecryptAndCheck
<1>11. CASE UNCHANGED clientVars
  BY <1>11 DEF clientVars
<1>12. QED
  BY <1>1, <1>2, <1>3, <1>4, <1>5, <1>6, <1>7, <1>8, <1>9, <1>10, <1>11
     DEF ClientNext, Operate, Finish

(* Every variable keeps its type; in particular no counter, restored ones  *)
(* included, exceeds MaxQueries.                                           *)
THEOREM ClientTypeCorrect == ClientSpec => []ClientTypeOK
<1>1. ClientInit => ClientTypeOK
  BY LimitAssumption
     DEF ClientInit, ClientTypeOK, Idle, Checking, SavedState, QueryPacket
<1>2. ClientTypeOK /\ [ClientNext]_clientVars => ClientTypeOK'
  BY ClientTypedStep
<1>3. QED
  BY <1>1, <1>2, PTL DEF ClientSpec

-----------------------------------------------------------------------------

(* What the invariant says holds at the start: nothing has been asked.     *)
LEMMA ClientInvInit == ClientInit => ClientInv
<1> SUFFICES ASSUME ClientInit PROVE ClientInv
  OBVIOUS
<1>1. PendingInv /\ CallInv /\ HistoryInv
  BY DEF ClientInit, PendingInv, CallInv, HistoryInv
<1>2. BudgetInv
  BY FS_EmptySet DEF ClientInit, BudgetInv, Counts
<1>3. QED
  BY <1>1, <1>2 DEF ClientInv

(* No step disturbs the invariant.                                         *)
LEMMA ClientInvStep ==
  ASSUME ClientTypeOK, ClientTypeOK', ClientInv, [ClientNext]_clientVars
  PROVE  ClientInv'
<1> USE DEF ClientTypeOK
<1>1. ASSUME UNCHANGED <<pending, packet, call, decrypted, cancelled, returned>>
      PROVE  (PendingInv /\ CallInv /\ HistoryInv)'
  BY <1>1 DEF ClientInv, PendingInv, CallInv, HistoryInv, Undecided
<1>2. ASSUME UNCHANGED <<started, packet, saved, begun>>
      PROVE  BudgetInv'
  BY <1>2 DEF ClientInv, BudgetInv, Counts
<1>3. ASSUME NEW c \in Clients, Construct(c)
      PROVE  ClientInv'
  BY <1>1, <1>2, <1>3 DEF Construct, ClientInv
<1>4. ASSUME NEW c \in Clients, NEW s \in Setups, PrepareIndex(c, s)
      PROVE  ClientInv'
  BY <1>1, <1>2, <1>4 DEF PrepareIndex, ClientInv
<1>5. ASSUME NEW c \in Clients, NEW t \in Tickets, NEW q \in Queries,
             BeginQuery(c, t, q)
      PROVE  ClientInv'
  <2> DEFINE p == [setup |-> setup[c], ticket |-> t, query |-> q]
  <2>1. p # None
    BY <1>5, PacketIsNotNone DEF BeginQuery, MayBegin, QueryPacket
  <2>2. packet[t] = None /\ packet' = [packet EXCEPT ![t] = p]
    BY <1>5 DEF BeginQuery
  <2>3. \A u \in Tickets : packet[u] # None => packet'[u] = packet[u]
    BY <2>2
  <2>4. decrypted[t] = 0 /\ t \notin cancelled /\ \A a \in returned : a[1] # t
    BY <2>2 DEF ClientInv, HistoryInv
  <2>5. \A d \in Clients : t \notin pending[d]
    BY <2>2 DEF ClientInv, PendingInv, Undecided
  <2>6. \A k \in Callers : call[k] # Idle => call[k].ticket # t
    BY <2>2 DEF ClientInv, CallInv, Undecided
  <2>7. PendingInv'
    <3> SUFFICES ASSUME NEW e \in Clients, NEW u \in pending'[e]
                 PROVE  /\ Undecided(u)'
                        /\ \A d \in Clients \ {e} : u \notin pending'[d]
      BY DEF PendingInv
    <3>1. CASE u = t
      BY <3>1, <1>5, <2>1, <2>2, <2>4, <2>5 DEF BeginQuery, Undecided
    <3>2. CASE u # t
      BY <3>2, <1>5, <2>3 DEF BeginQuery, ClientInv, PendingInv, Undecided
    <3>3. QED
      BY <3>1, <3>2
  <2>8. CallInv'
    BY <1>5, <2>3, <2>6, CallFields DEF BeginQuery, ClientInv, CallInv, Undecided
  <2>9. HistoryInv'
    BY <1>5, <2>3 DEF BeginQuery, ClientInv, HistoryInv
  <2>10. BudgetInv'
    <3>1. t \notin begun[c] /\ Counts(started[c], begun[c])
      BY <2>2 DEF ClientInv, BudgetInv, Counts
    <3>2. IsFiniteSet(begun[c] \cup {t}) /\ started[c] + 1 = Cardinality(begun[c] \cup {t})
      BY <3>1, FS_AddElement DEF Counts
    <3>3. \A d \in Clients : Counts(started[d], begun[d])'
      BY <3>2, <1>5, <2>1, <2>2, <2>3 DEF BeginQuery, ClientInv, BudgetInv, Counts
    <3>4. \A v \in saved : Counts(v.started, v.begun)'
      BY <1>5, <2>3 DEF BeginQuery, ClientInv, BudgetInv, Counts, SavedState
    <3>5. QED
      BY <3>3, <3>4, <1>5 DEF BudgetInv, BeginQuery, Counts
  <2>11. QED
    BY <2>7, <2>8, <2>9, <2>10 DEF ClientInv
<1>6. ASSUME NEW c \in Clients, CancelPending(c)
      PROVE  ClientInv'
  <2>1. PendingInv'
    BY <1>6 DEF CancelPending, ClientInv, PendingInv, Undecided
  <2>2. CallInv'
    BY <1>6 DEF CancelPending, ClientInv, CallInv, Undecided
  <2>3. HistoryInv'
    BY <1>6 DEF CancelPending, ClientInv, HistoryInv, PendingInv, Undecided
  <2>4. QED
    BY <2>1, <2>2, <2>3, <1>2, <1>6 DEF CancelPending, ClientInv
<1>7. ASSUME NEW c \in Clients, ProtectState(c)
      PROVE  ClientInv'
  <2>1. BudgetInv'
    BY <1>7 DEF ProtectState, ClientInv, BudgetInv, Counts
  <2>2. QED
    BY <2>1, <1>1, <1>7 DEF ProtectState, ClientInv
<1>8. ASSUME NEW c \in Clients, NEW v \in saved, Restore(c, v)
      PROVE  ClientInv'
  <2>1. BudgetInv'
    BY <1>8 DEF Restore, ClientInv, BudgetInv, Counts
  <2>2. QED
    BY <2>1, <1>1, <1>8 DEF Restore, ClientInv
<1>9. ASSUME NEW c \in Clients, Crash(c)
      PROVE  ClientInv'
  <2>1. \A k \in Callers : call'[k] # Idle => call'[k] = call[k]
    BY <1>9 DEF Crash
  <2>2. \A k \in Callers : call'[k].ticket = call[k].ticket \/ call'[k].ticket = None
    BY <1>9 DEF Crash, Idle
  <2>3. PendingInv'
    BY <1>9 DEF Crash, ClientInv, PendingInv, Undecided
  <2>4. CallInv'
    <3> SUFFICES ASSUME NEW k \in Callers, call'[k] # Idle
                 PROVE  /\ Undecided(call[k].ticket)'
                        /\ \A d \in Clients : call'[k].ticket \notin pending'[d]
                        /\ \A j \in Callers \ {k} : call'[j].ticket # call'[k].ticket
      BY DEF CallInv
    <3>1. call[k] # Idle /\ call'[k] = call[k] /\ call[k].ticket \in Tickets
      BY <2>1, CallFields
    <3>2. Undecided(call[k].ticket) /\ \A d \in Clients : call[k].ticket \notin pending[d]
      BY <3>1 DEF ClientInv, CallInv
    <3>3. \A j \in Callers \ {k} : call'[j].ticket # call'[k].ticket
      BY <3>1, <2>2, NoneAssumption DEF ClientInv, CallInv
    <3>4. QED
      BY <3>1, <3>2, <3>3, <1>9 DEF Crash, Undecided
  <2>5. HistoryInv'
    BY <1>9 DEF Crash, ClientInv, HistoryInv, PendingInv, Undecided
  <2>6. QED
    BY <2>3, <2>4, <2>5, <1>2, <1>9 DEF Crash, ClientInv
<1>10. ASSUME NEW k \in Callers, NEW c \in Clients, NEW r \in ResponsePacket,
              ConsumeTicket(k, c, r)
       PROVE  ClientInv'
  <2> DEFINE t == r.ticket
  <2>1. t \in Tickets /\ t \in pending[c] /\ call[k] = Idle
    BY <1>10 DEF ConsumeTicket, Accepts, ResponsePacket
  <2>2. Undecided(t) /\ \A d \in Clients : t \notin pending'[d]
    BY <1>10, <2>1 DEF ConsumeTicket, ClientInv, PendingInv
  <2>3. \A j \in Callers : call[j].ticket # t
    BY <2>1, IdleHasNoTicket DEF ClientInv, CallInv
  <2>4. PendingInv'
    BY <1>10 DEF ConsumeTicket, ClientInv, PendingInv, Undecided
  <2>5. CallInv'
    <3> SUFFICES ASSUME NEW j \in Callers, call'[j] # Idle
                 PROVE  /\ Undecided(call[j].ticket)'
                        /\ \A d \in Clients : call'[j].ticket \notin pending'[d]
                        /\ \A i \in Callers \ {j} : call'[i].ticket # call'[j].ticket
      BY DEF CallInv
    <3>1. CASE j = k
      BY <3>1, <1>10, <2>2, <2>3 DEF ConsumeTicket, Undecided
    <3>2. CASE j # k
      BY <3>2, <1>10, <2>3 DEF ConsumeTicket, ClientInv, CallInv, Undecided
    <3>3. QED
      BY <3>1, <3>2
  <2>6. HistoryInv'
    BY <1>10 DEF ConsumeTicket, ClientInv, HistoryInv
  <2>7. QED
    BY <2>4, <2>5, <2>6, <1>2, <1>10 DEF ConsumeTicket, ClientInv
<1>11. ASSUME NEW k \in Callers, RejectUndecodable(k)
       PROVE  ClientInv'
  <2>1. PendingInv' /\ HistoryInv'
    BY <1>11 DEF RejectUndecodable, ClientInv, PendingInv, HistoryInv, Undecided
  <2>2. CallInv'
    BY <1>11, CallFields, IdleHasNoTicket
       DEF RejectUndecodable, ClientInv, CallInv, Undecided
  <2>3. QED
    BY <2>1, <2>2, <1>2, <1>11 DEF RejectUndecodable, ClientInv
<1>12. ASSUME NEW k \in Callers, DecryptAndCheck(k)
       PROVE  ClientInv'
  <2>1. PICK t \in Tickets : t = call[k].ticket /\ call[k] # Idle
    BY <1>12, CallFields DEF DecryptAndCheck
  <2>2. Undecided(t) /\ \A d \in Clients : t \notin pending[d]
    BY <2>1 DEF ClientInv, CallInv
  <2>3. decrypted' = [decrypted EXCEPT ![t] = 1]
    BY <1>12, <2>1, <2>2 DEF DecryptAndCheck, Undecided
  <2>4. /\ returned \subseteq returned'
        /\ \A a \in returned' : a \in returned \/ (a[1] = t /\ a[2] = Expected(packet[t]))
    BY <1>12, <2>1 DEF DecryptAndCheck, Matches
  <2>5. PendingInv'
    BY <1>12, <2>2, <2>3, <2>4 DEF DecryptAndCheck, ClientInv, PendingInv, Undecided
  <2>6. CallInv'
    <3> SUFFICES ASSUME NEW j \in Callers, call'[j] # Idle
                 PROVE  /\ Undecided(call[j].ticket)'
                        /\ \A d \in Clients : call'[j].ticket \notin pending'[d]
                        /\ \A i \in Callers \ {j} : call'[i].ticket # call'[j].ticket
      BY DEF CallInv
    <3>1. j # k /\ call'[j] = call[j] /\ call[j].ticket \in Tickets
      BY <1>12, CallFields DEF DecryptAndCheck
    <3>2. call[j].ticket # t
      BY <3>1, <2>1 DEF ClientInv, CallInv
    <3>3. Undecided(call[j].ticket)'
      BY <3>1, <3>2, <2>3, <2>4, <1>12 DEF DecryptAndCheck, ClientInv, CallInv, Undecided
    <3>4. \A i \in Callers \ {j} : call'[i].ticket # call'[j].ticket
      BY <3>1, <1>12, IdleHasNoTicket DEF DecryptAndCheck, ClientInv, CallInv
    <3>5. QED
      BY <3>1, <3>3, <3>4, <1>12 DEF DecryptAndCheck, ClientInv, CallInv
  <2>7. HistoryInv'
    BY <1>12, <2>1, <2>2, <2>3, <2>4 DEF DecryptAndCheck, ClientInv, HistoryInv, Undecided
  <2>8. QED
    BY <2>5, <2>6, <2>7, <1>2, <1>12 DEF DecryptAndCheck, ClientInv
<1>13. CASE UNCHANGED clientVars
  BY <1>1, <1>2, <1>13 DEF clientVars, ClientInv
<1>14. QED
  BY <1>3, <1>4, <1>5, <1>6, <1>7, <1>8, <1>9, <1>10, <1>11, <1>12, <1>13
     DEF ClientNext, Operate, Finish

(* The inductive invariant holds for any number of objects and threads.    *)
THEOREM ClientInvariant == ClientSpec => []ClientInv
<1>1. ClientTypeOK /\ ClientTypeOK' /\ ClientInv /\ [ClientNext]_clientVars => ClientInv'
  BY ClientInvStep
<1>2. QED
  BY ClientInvInit, <1>1, ClientTypeCorrect, PTL DEF ClientSpec

-----------------------------------------------------------------------------

(* finish_query decrypts at most once for a ticket, however often and to   *)
(* however many objects its responses are delivered.                       *)
THEOREM AtMostOneDecryption == ClientSpec => []OneDecryption
<1>1. ClientTypeOK /\ ClientInv => OneDecryption
  BY DEF ClientTypeOK, ClientInv, HistoryInv, OneDecryption
<1>2. QED
  BY <1>1, ClientTypeCorrect, ClientInvariant, PTL

(* Whatever the evaluator answers, the distances finish_query returns are  *)
(* those of the query begun with the ticket.                               *)
THEOREM AnswersAreRight == ClientSpec => []RightAnswers
<1>1. ClientInv => RightAnswers
  BY DEF ClientInv, HistoryInv, RightAnswers
<1>2. QED
  BY <1>1, ClientInvariant, PTL

(* A cancelled ticket, or one that was pending in a process that died, is  *)
(* never decrypted.                                                        *)
THEOREM CancelIsFinal == ClientSpec => []CancelledNeverDecrypted
<1>1. ClientTypeOK /\ ClientInv => CancelledNeverDecrypted
  BY DEF ClientTypeOK, ClientInv, HistoryInv, CancelledNeverDecrypted
<1>2. QED
  BY <1>1, ClientTypeCorrect, ClientInvariant, PTL

(* The saved counter of a line of restored objects counts all its queries, *)
(* and there are never more than MaxQueries of them.                       *)
THEOREM BudgetIsNeverRefunded == ClientSpec => []LineageBudget
<1>1. ClientTypeOK /\ ClientInv => LineageBudget
  BY LimitAssumption DEF ClientTypeOK, ClientInv, BudgetInv, Counts, LineageBudget
<1>2. QED
  BY <1>1, ClientTypeCorrect, ClientInvariant, PTL

(* A packet that has been sent is never replaced.                          *)
LEMMA PacketsStay ==
  ASSUME [ClientNext]_clientVars, ClientTypeOK, NEW t \in Tickets, packet[t] # None
  PROVE  packet'[t] = packet[t]
<1>1. ASSUME NEW c \in Clients, NEW u \in Tickets, NEW q \in Queries, BeginQuery(c, u, q)
      PROVE  packet'[t] = packet[t]
  BY <1>1 DEF BeginQuery, ClientTypeOK
<1>2. QED
  BY <1>1 DEF ClientNext, Operate, Finish, clientVars, Construct, PrepareIndex,
       CancelPending, ProtectState, Restore, Crash, ConsumeTicket,
       RejectUndecodable, DecryptAndCheck

-----------------------------------------------------------------------------

(* The abstract status of a ticket, read off the concrete state.           *)
LEMMA PendingIsOpen ==
  ASSUME ClientTypeOK, ClientInv, NEW c \in Clients, NEW t \in pending[c]
  PROVE  StatusOf(t) = "open"
<1>1. packet[t] # None /\ \A d \in Distances : <<t, d>> \notin returned
  BY DEF ClientInv, PendingInv, Undecided
<1>2. t \in Tickets /\ \A k \in Callers : call[k].ticket # t
  BY IdleHasNoTicket DEF ClientTypeOK, ClientInv, CallInv
<1>3. QED
  BY <1>1, <1>2 DEF StatusOf

LEMMA HeldIsTaken ==
  ASSUME ClientTypeOK, ClientInv, NEW k \in Callers, call[k] # Idle
  PROVE  StatusOf(call[k].ticket) = "taken"
<1>1. /\ packet[call[k].ticket] # None
      /\ \A d \in Distances : <<call[k].ticket, d>> \notin returned
  BY DEF ClientInv, CallInv, Undecided
<1>2. QED
  BY <1>1 DEF StatusOf

(* A ticket that keeps its packet, its answers, its holders and its place  *)
(* in the pending tables keeps its status.                                 *)
LEMMA StatusKept ==
  ASSUME NEW t, packet'[t] = packet[t],
         \A d \in Distances : <<t, d>> \in returned' <=> <<t, d>> \in returned,
         (\E k \in Callers : call'[k].ticket = t) <=> (\E k \in Callers : call[k].ticket = t),
         (\E c \in Clients : t \in pending'[c]) <=> (\E c \in Clients : t \in pending[c])
  PROVE  StatusOf(t)' = StatusOf(t)
  BY DEF StatusOf

(* Nothing but its being pending or held keeps a ticket from "closed".     *)
LEMMA LooseIsClosed ==
  ASSUME NEW t, packet'[t] # None,
         \A d \in Distances : <<t, d>> \notin returned',
         \A k \in Callers : call'[k].ticket # t,
         \A c \in Clients : t \notin pending'[c]
  PROVE  StatusOf(t)' = "closed"
  BY DEF StatusOf

(* Every step of a client is a step of OneUseQueries or leaves it alone.   *)
LEMMA StepRefines ==
  ASSUME ClientTypeOK, ClientTypeOK', ClientInv, ClientInv', [ClientNext]_clientVars
  PROVE  [Abstract!AskNext]_(Abstract!askVars)
<1> USE DEF ClientTypeOK
<1> DEFINE status == [t \in Tickets |-> StatusOf(t)]
<1>1. ASSUME UNCHANGED <<packet, pending, call, returned>>
      PROVE  UNCHANGED Abstract!askVars
  BY <1>1 DEF Abstract!askVars, StatusOf
<1>2. ASSUME NEW T \in SUBSET Tickets,
             UNCHANGED <<packet, returned>>,
             \A t \in T : StatusOf(t) \in {"open", "taken"} /\ StatusOf(t)' = "closed",
             \A t \in Tickets \ T : StatusOf(t)' = StatusOf(t)
      PROVE  Abstract!AskNext
  <2>1. Abstract!Close(T)
    BY <1>2 DEF Abstract!Close
  <2>2. QED
    BY <2>1 DEF Abstract!AskNext
<1>3. ASSUME NEW c \in Clients, NEW t \in Tickets, NEW q \in Queries,
             BeginQuery(c, t, q)
      PROVE  Abstract!AskNext
  <2>1. PICK p \in QueryPacket : p.ticket = t /\ packet' = [packet EXCEPT ![t] = p]
    BY <1>3 DEF BeginQuery, MayBegin, QueryPacket
  <2>2. packet[t] = None /\ packet'[t] # None /\ StatusOf(t) = "unasked"
    BY <1>3, <2>1, PacketIsNotNone DEF BeginQuery, StatusOf
  <2>3. StatusOf(t)' = "open"
    <3>1. t \in pending'[c] /\ \A d \in Distances : <<t, d>> \notin returned'
      BY <1>3, <2>2 DEF BeginQuery, ClientInv, HistoryInv
    <3>2. \A k \in Callers : call'[k].ticket # t
      BY <3>1, IdleHasNoTicket DEF ClientInv, CallInv
    <3>3. QED
      BY <3>1, <3>2, <2>2 DEF StatusOf
  <2>4. \A u \in Tickets \ {t} : StatusOf(u)' = StatusOf(u)
    <3> SUFFICES ASSUME NEW u \in Tickets \ {t} PROVE StatusOf(u)' = StatusOf(u)
      OBVIOUS
    <3>1. \A d \in Clients : u \in pending'[d] <=> u \in pending[d]
      BY <1>3 DEF BeginQuery
    <3>2. QED
      BY <3>1, <2>1, <1>3, StatusKept DEF BeginQuery
  <2>5. status' = [status EXCEPT ![t] = "open"]
    BY <2>3, <2>4
  <2>6. Abstract!Ask(p)
    BY <2>1, <2>2, <2>5, <1>3 DEF Abstract!Ask, BeginQuery
  <2>7. QED
    BY <2>6 DEF Abstract!AskNext, Abstract!QueryPacket, QueryPacket
<1>4. ASSUME NEW c \in Clients, CancelPending(c)
      PROVE  Abstract!AskNext
  <2>1. \A t \in pending[c] : StatusOf(t) = "open" /\ StatusOf(t)' = "closed"
    <3> SUFFICES ASSUME NEW t \in pending[c]
                 PROVE  StatusOf(t) = "open" /\ StatusOf(t)' = "closed"
      OBVIOUS
    <3>1. Undecided(t) /\ \A d \in Clients : t \notin pending'[d]
      BY <1>4 DEF CancelPending, ClientInv, PendingInv
    <3>2. \A k \in Callers : call[k].ticket # t
      BY IdleHasNoTicket DEF ClientInv, CallInv
    <3>3. QED
      BY <3>1, <3>2, <1>4, PendingIsOpen, LooseIsClosed DEF CancelPending, Undecided
  <2>2. \A t \in Tickets \ pending[c] : StatusOf(t)' = StatusOf(t)
    <3> SUFFICES ASSUME NEW t \in Tickets \ pending[c] PROVE StatusOf(t)' = StatusOf(t)
      OBVIOUS
    <3>1. (\E d \in Clients : t \in pending'[d]) <=> (\E d \in Clients : t \in pending[d])
      BY <1>4 DEF CancelPending
    <3>2. QED
      BY <3>1, <1>4, StatusKept DEF CancelPending
  <2>3. pending[c] \in SUBSET Tickets
    OBVIOUS
  <2>4. QED
    BY <2>1, <2>2, <2>3, <1>2, <1>4 DEF CancelPending
<1>5. ASSUME NEW c \in Clients, Crash(c)
      PROVE  Abstract!AskNext
  <2> DEFINE H == {k \in Callers : call[k] # Idle /\ call[k].client = c}
             T == pending[c] \cup {call[k].ticket : k \in H}
  <2>1. T \in SUBSET Tickets
    BY CallFields
  <2>2. \A k \in Callers : /\ k \in H => call'[k].ticket = None
                           /\ k \notin H => call'[k].ticket = call[k].ticket
    BY <1>5 DEF Crash, Idle
  <2>3. \A t \in T : StatusOf(t) \in {"open", "taken"} /\ StatusOf(t)' = "closed"
    <3> SUFFICES ASSUME NEW t \in T
                 PROVE  StatusOf(t) \in {"open", "taken"} /\ StatusOf(t)' = "closed"
      OBVIOUS
    <3>1. Undecided(t) /\ \A d \in Clients : t \notin pending'[d]
      BY <1>5 DEF Crash, ClientInv, PendingInv, CallInv
    <3>2. \A k \in Callers \ H : call[k].ticket # t
      BY <2>1, IdleHasNoTicket DEF ClientInv, CallInv
    <3>3. \A k \in Callers : call'[k].ticket # t
      BY <2>1, <2>2, <3>2, NoneAssumption
    <3>4. StatusOf(t) \in {"open", "taken"}
      BY PendingIsOpen, HeldIsTaken
    <3>5. QED
      BY <3>1, <3>3, <3>4, <1>5, LooseIsClosed DEF Crash, Undecided
  <2>4. \A t \in Tickets \ T : StatusOf(t)' = StatusOf(t)
    <3> SUFFICES ASSUME NEW t \in Tickets \ T PROVE StatusOf(t)' = StatusOf(t)
      OBVIOUS
    <3>1. (\E d \in Clients : t \in pending'[d]) <=> (\E d \in Clients : t \in pending[d])
      BY <1>5 DEF Crash
    <3>2. \A k \in H : call[k].ticket # t /\ call'[k].ticket # t
      BY <2>2, NoneAssumption
    <3>3. (\E k \in Callers : call'[k].ticket = t) <=> (\E k \in Callers : call[k].ticket = t)
      BY <2>2, <3>2
    <3>4. QED
      BY <3>1, <3>3, <1>5, StatusKept DEF Crash
  <2>5. QED
    BY <2>1, <2>3, <2>4, <1>2, <1>5 DEF Crash
<1>6. ASSUME NEW k \in Callers, NEW c \in Clients, NEW r \in ResponsePacket,
             ConsumeTicket(k, c, r)
      PROVE  Abstract!AskNext
  <2>1. PICK t \in Tickets : t = r.ticket /\ t \in pending[c] /\ call'[k].ticket = t
    BY <1>6 DEF ConsumeTicket, Accepts, ResponsePacket
  <2>2. StatusOf(t) = "open"
    BY <2>1, PendingIsOpen
  <2>3. StatusOf(t)' = "taken"
    <3>1. Undecided(t)
      BY <2>1 DEF ClientInv, PendingInv
    <3>2. QED
      BY <3>1, <2>1, <1>6 DEF ConsumeTicket, Undecided, StatusOf
  <2>4. \A u \in Tickets \ {t} : StatusOf(u)' = StatusOf(u)
    <3> SUFFICES ASSUME NEW u \in Tickets \ {t} PROVE StatusOf(u)' = StatusOf(u)
      OBVIOUS
    <3>1. (\E d \in Clients : u \in pending'[d]) <=> (\E d \in Clients : u \in pending[d])
      BY <1>6, <2>1 DEF ConsumeTicket
    <3>2. (\E j \in Callers : call'[j].ticket = u) <=> (\E j \in Callers : call[j].ticket = u)
      BY <1>6, <2>1, IdleHasNoTicket DEF ConsumeTicket
    <3>3. QED
      BY <3>1, <3>2, <1>6, StatusKept DEF ConsumeTicket
  <2>5. status' = [status EXCEPT ![t] = "taken"]
    BY <2>3, <2>4
  <2>6. Abstract!Take(t)
    BY <2>2, <2>5, <1>6 DEF Abstract!Take, ConsumeTicket
  <2>7. QED
    BY <2>6 DEF Abstract!AskNext
<1>7. ASSUME NEW k \in Callers, NEW t \in Tickets, t = call[k].ticket, call[k] # Idle,
             call' = [call EXCEPT ![k] = Idle], UNCHANGED <<packet, pending>>
      PROVE  /\ \A j \in Callers : call'[j].ticket # t
             /\ \A u \in Tickets \ {t} :
                  (\E j \in Callers : call'[j].ticket = u)
                    <=> (\E j \in Callers : call[j].ticket = u)
             /\ \A c \in Clients : t \notin pending'[c]
             /\ packet'[t] # None /\ \A d \in Distances : <<t, d>> \notin returned
  BY <1>7, IdleHasNoTicket DEF ClientInv, CallInv, Undecided
<1>8. ASSUME NEW k \in Callers, NEW t \in Tickets, t = call[k].ticket, call[k] # Idle,
             call' = [call EXCEPT ![k] = Idle], UNCHANGED <<packet, pending, returned>>
      PROVE  Abstract!AskNext
  <2>1. StatusOf(t) = "taken" /\ StatusOf(t)' = "closed"
    BY <1>8, <1>7, HeldIsTaken, LooseIsClosed
  <2>2. \A u \in Tickets \ {t} : StatusOf(u)' = StatusOf(u)
    BY <1>8, <1>7, StatusKept, ZenonT(30)
  <2>3. {t} \in SUBSET Tickets
    OBVIOUS
  <2>4. QED
    BY <2>1, <2>2, <2>3, <1>2, <1>8
<1>9. ASSUME NEW k \in Callers, RejectUndecodable(k)
      PROVE  Abstract!AskNext
  BY <1>9, <1>8, CallFields DEF RejectUndecodable
<1>10. ASSUME NEW k \in Callers, DecryptAndCheck(k)
       PROVE  Abstract!AskNext
  <2>1. PICK t \in Tickets : t = call[k].ticket /\ call[k] # Idle
    BY <1>10, CallFields DEF DecryptAndCheck
  <2>2. call' = [call EXCEPT ![k] = Idle] /\ UNCHANGED <<packet, pending>>
    BY <1>10 DEF DecryptAndCheck
  <2>3. CASE returned' = returned
    BY <2>1, <2>2, <2>3, <1>8
  <2>4. CASE returned' = returned \cup {<<t, Expected(packet[t])>>}
    <3>1. Expected(packet[t]) \in Distances
      <4>1. packet[t] \in QueryPacket
        BY <2>1 DEF ClientInv, CallInv, Undecided
      <4>2. QED
        BY <4>1, AnswerAssumption DEF Expected, QueryPacket
    <3>2. StatusOf(t) = "taken" /\ StatusOf(t)' = "answered"
      BY <2>1, <2>2, <2>4, <3>1, <1>7, HeldIsTaken DEF StatusOf
    <3>3. \A u \in Tickets \ {t} : StatusOf(u)' = StatusOf(u)
      <4> SUFFICES ASSUME NEW u \in Tickets \ {t} PROVE StatusOf(u)' = StatusOf(u)
        OBVIOUS
      <4>1. \A d \in Distances : <<u, d>> \in returned' <=> <<u, d>> \in returned
        BY <2>4
      <4>2. QED
        BY <4>1, <2>1, <2>2, <1>7, StatusKept, ZenonT(30)
    <3>4. status' = [status EXCEPT ![t] = "answered"]
      BY <3>2, <3>3
    <3>5. Abstract!Reply(t)
      BY <3>2, <3>4, <2>2, <2>4 DEF Abstract!Reply, Abstract!Expected, Expected
    <3>6. QED
      BY <3>5 DEF Abstract!AskNext
  <2>5. QED
    BY <2>1, <2>3, <2>4, <1>10 DEF DecryptAndCheck, Matches
<1>11. ASSUME NEW c \in Clients, \/ Construct(c)
                                 \/ \E s \in Setups : PrepareIndex(c, s)
                                 \/ ProtectState(c)
                                 \/ \E v \in saved : Restore(c, v)
       PROVE  UNCHANGED Abstract!askVars
  BY <1>11, <1>1 DEF Construct, PrepareIndex, ProtectState, Restore
<1>12. CASE UNCHANGED clientVars
  BY <1>12, <1>1 DEF clientVars
<1>13. QED
  BY <1>3, <1>4, <1>5, <1>6, <1>9, <1>10, <1>11, <1>12
     DEF ClientNext, Operate, Finish

(* Clients implement the abstract specification: a query is taken up once, *)
(* given up for good, and answered rightly or not at all.                  *)
THEOREM ClientImplementsOneUse == ClientSpec => ImplementsOneUse
<1>1. ClientInit => Abstract!AskInit
  BY DEF ClientInit, Abstract!AskInit, StatusOf
<1>2. ClientTypeOK /\ ClientTypeOK' /\ ClientInv /\ ClientInv' /\ [ClientNext]_clientVars
        => [Abstract!AskNext]_(Abstract!askVars)
  BY StepRefines
<1>3. QED
  BY <1>1, <1>2, ClientTypeCorrect, ClientInvariant, PTL
     DEF ClientSpec, ImplementsOneUse, Abstract!AskSpec

-----------------------------------------------------------------------------

(* The server.                                                             *)

(* A running search is not a resting worker, whatever step it is at.       *)
LEMMA SearchFields ==
  ASSUME ServerTypeOK, NEW w \in Workers
  PROVE  /\ search[w] # Resting <=> search[w] \in Searching
         /\ search[w] # Resting <=> search[w].at # "rest"
         /\ search[w] # Resting =>
              search[w].query \in QueryPacket /\ search[w].query.ticket \in Tickets
  BY DEF ServerTypeOK, Searching, Resting, QueryPacket

(* The busy workers are finitely many.                                     *)
LEMMA BusyFinite == IsFiniteSet(Busy) /\ Cardinality(Busy) \in Nat
<1>1. Busy \in SUBSET Workers
  BY DEF Busy
<1>2. IsFiniteSet(Busy)
  BY <1>1, ServerAssumption, FS_Subset
<1>3. QED
  BY <1>2, FS_CardinalityType

(* Every variable keeps its type; the semaphore stays within its bounds    *)
(* because its places are accounted for.                                   *)
ServerTyped == ServerTypeOK /\ SlotsAccounted

LEMMA ServerTypedStep ==
  ASSUME ServerTyped, [ServerNext]_serverVars
  PROVE  ServerTyped'
<1> USE DEF ServerTyped, ServerTypeOK
<1>1. ASSUME NEW w \in Workers, NEW p \in QueryPacket, Admit(w, p)
      PROVE  ServerTyped'
  <2>1. Busy' = Busy \cup {w} /\ w \notin Busy
    BY <1>1 DEF Admit, Busy, Resting
  <2>2. Cardinality(Busy') = Cardinality(Busy) + 1
    BY <2>1, BusyFinite, FS_AddElement
  <2>3. SlotsAccounted'
    BY <1>1, <2>2, BusyFinite, ServerAssumption DEF Admit, SlotsAccounted
  <2>4. QED
    BY <1>1, <2>3, ServerAssumption DEF Admit, Searching
<1>2. ASSUME NEW w \in Workers, BurnTicket(w) \/ Refuse(w) \/ EvaluationFails(w)
      PROVE  ServerTyped'
  <2>1. search[w] \in Searching
    BY <1>2, SearchFields DEF BurnTicket, Refuse, EvaluationFails
  <2>2. search' \in [Workers -> Searching \cup {Resting}]
    BY <1>2, <2>1 DEF BurnTicket, Refuse, EvaluationFails, Searching
  <2>3. Busy' = Busy
    BY <1>2, <2>1 DEF BurnTicket, Refuse, EvaluationFails, Busy, Searching, Resting
  <2>4. seen' \subseteq Tickets
    BY <1>2, <2>1, SearchFields DEF BurnTicket, Refuse, EvaluationFails
  <2>5. QED
    BY <1>2, <2>2, <2>3, <2>4
       DEF BurnTicket, Refuse, EvaluationFails, SlotsAccounted
<1>3. ASSUME NEW w \in Workers, Evaluate(w)
      PROVE  ServerTyped'
  <2>1. search[w] \in Searching /\ search[w].query \in QueryPacket
    BY <1>3, SearchFields DEF Evaluate
  <2>2. search' \in [Workers -> Searching \cup {Resting}] /\ Busy' = Busy
    BY <1>3, <2>1 DEF Evaluate, Busy, Searching, Resting
  <2>3. ResponseTo(search[w].query) \in ResponsePacket
    BY <2>1, ServerAssumption, AnswerAssumption
       DEF ResponseTo, ResponsePacket, QueryPacket, Result, Expected
  <2>4. evaluated' \in [Tickets -> Nat]
    BY <1>3, <2>1, SearchFields DEF Evaluate
  <2>5. responses' \subseteq ResponsePacket
    BY <1>3, <2>3 DEF Evaluate
  <2>6. QED
    BY <1>3, <2>2, <2>4, <2>5 DEF Evaluate, SlotsAccounted
<1>4. ASSUME NEW w \in Workers, Release(w)
      PROVE  ServerTyped'
  <2>1. search[w] # Resting
    BY <1>4, SearchFields DEF Release
  <2>2. Busy' = Busy \ {w} /\ w \in Busy
    BY <1>4, <2>1 DEF Release, Busy
  <2>3. Cardinality(Busy') = Cardinality(Busy) - 1
    BY <2>2, BusyFinite, FS_RemoveElement
  <2>4. Cardinality(Busy') \in Nat
    BY BusyFinite, FS_CardinalityType, FS_RemoveElement, <2>2
  <2>5. SlotsAccounted' /\ slots' \in 0..MaxConcurrent
    BY <1>4, <2>3, <2>4, BusyFinite, ServerAssumption DEF Release, SlotsAccounted
  <2>6. QED
    BY <1>4, <2>5 DEF Release
<1>5. ASSUME Restart
      PROVE  ServerTyped'
  <2>1. Busy' = {}
    BY <1>5 DEF Restart, Busy
  <2>2. Cardinality(Busy') = 0
    BY <2>1, FS_EmptySet
  <2>3. QED
    BY <1>5, <2>2, ServerAssumption DEF Restart, SlotsAccounted
<1>6. CASE UNCHANGED serverVars
  BY <1>6 DEF serverVars, SlotsAccounted, Busy
<1>7. QED
  BY <1>1, <1>2, <1>3, <1>4, <1>5, <1>6 DEF ServerNext, Proceed

LEMMA ServerTypedInit == ServerInit => ServerTyped
<1> SUFFICES ASSUME ServerInit PROVE ServerTyped
  OBVIOUS
<1>1. Busy = {}
  BY DEF ServerInit, Busy
<1>2. Cardinality(Busy) = 0
  BY <1>1, FS_EmptySet
<1>3. QED
  BY <1>2, ServerAssumption DEF ServerInit, ServerTyped, ServerTypeOK, SlotsAccounted

LEMMA ServerTypedAlways == ServerSpec => []ServerTyped
<1>1. ServerTyped /\ [ServerNext]_serverVars => ServerTyped'
  BY ServerTypedStep
<1>2. QED
  BY ServerTypedInit, <1>1, PTL DEF ServerSpec

(* The variables of the server keep their types, however often it restarts.*)
THEOREM ServerTypeCorrect == ServerSpec => []ServerTypeOK
<1>1. ServerTyped => ServerTypeOK
  BY DEF ServerTyped
<1>2. QED
  BY <1>1, ServerTypedAlways, PTL

(* The semaphore is exact, so the server admits no more than MaxConcurrent *)
(* searches and forgets no place on any way out of search.                 *)
THEOREM SlotsAreExact == ServerSpec => []SlotsAccounted
<1>1. ServerTyped => SlotsAccounted
  BY DEF ServerTyped
<1>2. QED
  BY <1>1, ServerTypedAlways, PTL

-----------------------------------------------------------------------------

(* No step disturbs what is known of the replay set and of the searches    *)
(* past it.                                                                *)
LEMMA SpentStep ==
  ASSUME ServerTypeOK, BurntInv, SeenInv, [ServerNext]_serverVars
  PROVE  BurntInv' /\ SeenInv'
<1> USE DEF ServerTypeOK
<1>1. ASSUME NEW w \in Workers, NEW p \in QueryPacket, Admit(w, p)
      PROVE  BurntInv' /\ SeenInv'
  BY <1>1 DEF Admit, BurntInv, SeenInv
<1>2. ASSUME NEW w \in Workers, BurnTicket(w)
      PROVE  BurntInv' /\ SeenInv'
  <2>1. PICK t \in Tickets : /\ t = search[w].query.ticket
                             /\ search[w].query.setup = ServerSetup
                             /\ t \notin seen /\ seen' = seen \cup {t}
                             /\ Cardinality(seen) < MaxQueries
    BY <1>2, SearchFields DEF BurnTicket, Fresh
  <2>2. evaluated[t] = 0
    BY <2>1 DEF SeenInv
  <2>3. BurntInv'
    BY <1>2, <2>1, <2>2 DEF BurnTicket, BurntInv
  <2>4. IsFiniteSet(seen') /\ Cardinality(seen') = Cardinality(seen) + 1
    BY <2>1, FS_AddElement, ZenonT(30) DEF SeenInv
  <2>5. Cardinality(seen') <= MaxQueries
    BY <2>1, <2>4, FS_CardinalityType, LimitAssumption DEF SeenInv
  <2>6. QED
    BY <1>2, <2>1, <2>3, <2>4, <2>5 DEF BurnTicket, SeenInv
<1>3. ASSUME NEW w \in Workers, Refuse(w) \/ EvaluationFails(w) \/ Release(w)
      PROVE  BurntInv' /\ SeenInv'
  <2>1. \A v \in Workers : search'[v].at = "burnt" => search'[v] = search[v]
    <3>1. search'[w].at \in {"failed", "rest"}
      BY <1>3, SearchFields DEF Refuse, EvaluationFails, Release, Resting, Searching
    <3>2. \A v \in Workers \ {w} : search'[v] = search[v]
      BY <1>3 DEF Refuse, EvaluationFails, Release
    <3>3. QED
      BY <3>1, <3>2
  <2>2. UNCHANGED <<seen, evaluated>>
    BY <1>3 DEF Refuse, EvaluationFails, Release
  <2>3. BurntInv'
    BY <2>1, <2>2 DEF BurntInv
  <2>4. QED
    BY <2>2, <2>3 DEF SeenInv
<1>4. ASSUME NEW w \in Workers, Evaluate(w)
      PROVE  BurntInv' /\ SeenInv'
  <2>1. PICK t \in Tickets : /\ t = search[w].query.ticket
                             /\ t \in seen /\ evaluated[t] = 0
    BY <1>4, SearchFields DEF Evaluate, BurntInv
  <2>2. evaluated' = [evaluated EXCEPT ![t] = 1]
    BY <1>4, <2>1 DEF Evaluate
  <2>3. BurntInv'
    BY <1>4, <2>1, <2>2 DEF Evaluate, BurntInv
  <2>4. SeenInv'
    BY <1>4, <2>1, <2>2 DEF Evaluate, SeenInv
  <2>5. QED
    BY <2>3, <2>4
<1>5. ASSUME Restart
      PROVE  BurntInv' /\ SeenInv'
  <2>1. SeenInv'
    BY <1>5, FS_EmptySet, LimitAssumption DEF Restart, SeenInv
  <2>2. QED
    BY <1>5, <2>1 DEF Restart, Resting, BurntInv
<1>6. CASE UNCHANGED serverVars
  BY <1>6 DEF serverVars, BurntInv, SeenInv
<1>7. QED
  BY <1>1, <1>2, <1>3, <1>4, <1>5, <1>6 DEF ServerNext, Proceed

(* The inductive invariant holds for any number of worker threads.         *)
THEOREM ServerInvariant == ServerSpec => []ServerInv
<1>1. ServerInit => BurntInv /\ SeenInv
  BY FS_EmptySet, LimitAssumption DEF ServerInit, Resting, BurntInv, SeenInv
<1>2. ServerTypeOK /\ BurntInv /\ SeenInv /\ [ServerNext]_serverVars
        => BurntInv' /\ SeenInv'
  BY SpentStep
<1>3. QED
  BY <1>1, <1>2, ServerTypeCorrect, SlotsAreExact, PTL DEF ServerSpec, ServerInv

(* A server evaluates at most once for a ticket between two restarts, with *)
(* any number of threads working on copies of the same query.              *)
THEOREM AtMostOneEvaluation == ServerSpec => []OneEvaluation
<1>1. ServerTypeOK /\ ServerInv => OneEvaluation
  BY DEF ServerTypeOK, ServerInv, SeenInv, OneEvaluation
<1>2. QED
  BY <1>1, ServerTypeCorrect, ServerInvariant, PTL

(* ... and for at most MaxQueries tickets, whoever asks.                   *)
THEOREM EvaluationsWithinBudget == ServerSpec => []EvaluationBudget
<1>1. ServerTypeOK /\ ServerInv => EvaluationBudget
  <2> SUFFICES ASSUME ServerTypeOK, ServerInv PROVE EvaluationBudget
    OBVIOUS
  <2> DEFINE E == {t \in Tickets : evaluated[t] > 0}
  <2>1. IsFiniteSet(seen) /\ Cardinality(seen) <= MaxQueries
    BY DEF ServerInv, SeenInv
  <2>2. E \in SUBSET seen
    BY DEF ServerTypeOK, ServerInv, SeenInv
  <2>3. IsFiniteSet(E) /\ Cardinality(E) <= Cardinality(seen)
    BY <2>1, <2>2, FS_Subset
  <2>4. QED
    BY <2>1, <2>3, FS_CardinalityType, LimitAssumption DEF EvaluationBudget
<1>2. QED
  BY <1>1, ServerTypeCorrect, ServerInvariant, PTL
-----------------------------------------------------------------------------

(* Sessions of verified clients and an evaluator that computes the right   *)
(* distances.                                                              *)

(* Each side hands the other only packets of the right type.               *)
SessionTyped == ClientTypeOK /\ ServerTyped

(* What a session does to a client, a client may do by itself.             *)
LEMMA SessionStepOfClient ==
  ASSUME SessionTyped, [SessionNext]_sessionVars
  PROVE  [ClientNext]_clientVars
<1>1. CASE UNCHANGED sessionVars
  BY <1>1 DEF sessionVars
<1>2. ASSUME NEW k \in Callers, NEW c \in Clients, NEW r \in responses,
             DeliverResponse(k, c, r)
      PROVE  ClientNext
  BY <1>2 DEF DeliverResponse, ClientNext, SessionTyped, ServerTyped, ServerTypeOK
<1>3. CASE \/ \E w \in Workers, t \in Tickets : DeliverQuery(w, t)
           \/ \E w \in Workers : ProceedSearch(w)
           \/ Restart /\ UNCHANGED clientVars
  BY <1>3 DEF DeliverQuery, ProceedSearch
<1>4. CASE \/ \E c \in Clients : Operate(c) \/ Crash(c)
           \/ \E k \in Callers : FinishCall(k)
  BY <1>4 DEF FinishCall, ClientNext
<1>5. QED
  BY <1>1, <1>2, <1>3, <1>4 DEF SessionNext, SteadyNext

(* The queries that reach the server are some that a client has begun.     *)
LEMMA SessionStepOfServer ==
  ASSUME SessionTyped, [SessionNext]_sessionVars
  PROVE  [ServerNext]_serverVars
<1>1. CASE UNCHANGED sessionVars
  BY <1>1 DEF sessionVars
<1>2. ASSUME NEW w \in Workers, NEW t \in Tickets, DeliverQuery(w, t)
      PROVE  ServerNext
  BY <1>2 DEF DeliverQuery, ServerNext, SessionTyped, ClientTypeOK
<1>3. CASE \/ \E w \in Workers : ProceedSearch(w)
           \/ Restart /\ UNCHANGED clientVars
  BY <1>3 DEF ProceedSearch, ServerNext
<1>4. CASE \/ \E c \in Clients : (Operate(c) \/ Crash(c)) /\ UNCHANGED serverVars
           \/ \E k \in Callers, c \in Clients, r \in responses : DeliverResponse(k, c, r)
           \/ \E k \in Callers : FinishCall(k)
  BY <1>4 DEF DeliverResponse, FinishCall
<1>5. QED
  BY <1>1, <1>2, <1>3, <1>4 DEF SessionNext, SteadyNext

LEMMA SessionTypeCorrect == SessionSpec => []SessionTyped
<1>1. SessionInit => SessionTyped
  <2>1. ClientInit => ClientTypeOK
    BY LimitAssumption
       DEF ClientInit, ClientTypeOK, Idle, Checking, SavedState, QueryPacket
  <2>2. ServerInit => ServerTyped
    BY ServerTypedInit
  <2>3. QED
    BY <2>1, <2>2 DEF SessionInit, SessionTyped
<1>2. SessionTyped /\ [SessionNext]_sessionVars => SessionTyped'
  BY SessionStepOfClient, SessionStepOfServer, ClientTypedStep, ServerTypedStep
     DEF SessionTyped
<1>3. QED
  BY <1>1, <1>2, PTL DEF SessionSpec

(* So a session is clients and a server, and what is proved of either      *)
(* holds of the session.                                                   *)
THEOREM SessionImplementsBoth == SessionSpec => ClientSpec /\ ServerSpec
<1>1. SessionInit => ClientInit /\ ServerInit
  BY DEF SessionInit
<1>2. SessionTyped /\ [SessionNext]_sessionVars
        => [ClientNext]_clientVars /\ [ServerNext]_serverVars
  BY SessionStepOfClient, SessionStepOfServer
<1>3. QED
  BY <1>1, <1>2, SessionTypeCorrect, PTL DEF SessionSpec, ClientSpec, ServerSpec

-----------------------------------------------------------------------------

(* The evaluator is honest: what it returns is right for its request.      *)
ResponsesRight == \A r \in responses : r.result = Expected(r.request)

CallsRight == \A k \in Callers : call[k] # Idle =>
  call[k].result = Expected(packet[call[k].ticket])

RightReturned == \A t \in Tickets : decrypted[t] # 0 =>
  <<t, Expected(packet[t])>> \in returned

HonestInv == ResponsesRight /\ CallsRight /\ RightReturned

LEMMA ResponsesStep ==
  ASSUME SessionTyped, ResponsesRight, [ServerNext]_serverVars
  PROVE  ResponsesRight'
<1>1. ASSUME NEW w \in Workers, Evaluate(w)
      PROVE  ResponsesRight'
  BY <1>1 DEF Evaluate, ResponseTo, ResponsesRight, Expected
<1>2. CASE UNCHANGED responses
  BY <1>2 DEF ResponsesRight, Expected
<1>3. QED
  BY <1>1, <1>2 DEF ServerNext, serverVars, Admit, Proceed, BurnTicket, Refuse,
                    EvaluationFails, Release, Restart
(* What a call holds, and what was returned, is right for the packet that  *)
(* its ticket was begun with.                                              *)
LEMMA AnswersStep ==
  ASSUME SessionTyped, ClientInv, HonestInv, [SessionNext]_sessionVars
  PROVE  CallsRight' /\ RightReturned'
<1> USE DEF SessionTyped, ClientTypeOK
<1>0. [ClientNext]_clientVars
  BY SessionStepOfClient
<1>1. \A t \in Tickets : packet[t] # None => packet'[t] = packet[t]
  BY <1>0, PacketsStay
<1>2. \A k \in Callers : call[k] # Idle =>
        /\ call[k].ticket \in Tickets
        /\ packet'[call[k].ticket] = packet[call[k].ticket]
        /\ call[k].result = Expected(packet[call[k].ticket])
  BY <1>1, CallFields DEF ClientInv, CallInv, Undecided, HonestInv, CallsRight
<1>3. \A t \in Tickets : decrypted[t] # 0 =>
        packet'[t] = packet[t] /\ <<t, Expected(packet[t])>> \in returned
  BY <1>1 DEF ClientInv, HistoryInv, HonestInv, RightReturned
<1>4. ASSUME \A k \in Callers : call'[k] = call[k] \/ call'[k] = Idle,
             UNCHANGED <<decrypted, returned>>
      PROVE  CallsRight' /\ RightReturned'
  <2>1. CallsRight'
    BY <1>2, <1>4 DEF CallsRight, Expected
  <2>2. RightReturned'
    BY <1>3, <1>4 DEF RightReturned, Expected
  <2>3. QED
    BY <2>1, <2>2
<1>5. ASSUME NEW k \in Callers, NEW c \in Clients, NEW r \in responses,
             DeliverResponse(k, c, r)
      PROVE  CallsRight' /\ RightReturned'
  <2>1. r \in ResponsePacket /\ r.result = Expected(r.request)
    BY DEF ServerTyped, ServerTypeOK, HonestInv, ResponsesRight
  <2>2. /\ call' = [call EXCEPT ![k] = [client |-> c, ticket |-> r.ticket,
                                        result |-> r.result]]
        /\ r.request = packet[r.ticket]
        /\ UNCHANGED <<packet, decrypted, returned>>
    BY <1>5 DEF DeliverResponse, ConsumeTicket, Accepts
  <2>3. CallsRight'
    BY <2>1, <2>2, <1>2 DEF CallsRight, Expected
  <2>4. RightReturned'
    BY <2>2, <1>3 DEF RightReturned, Expected
  <2>5. QED
    BY <2>3, <2>4
<1>6. ASSUME NEW k \in Callers, DecryptAndCheck(k)
      PROVE  CallsRight' /\ RightReturned'
  <2>1. PICK t \in Tickets : t = call[k].ticket /\ call[k].result = Expected(packet[t])
    BY <1>6, <1>2 DEF DecryptAndCheck
  <2>2. returned' = returned \cup {<<t, Expected(packet[t])>>}
    BY <1>6, <2>1 DEF DecryptAndCheck, Matches
  <2>3. UNCHANGED packet /\ \A u \in Tickets \ {t} : decrypted'[u] = decrypted[u]
    BY <1>6, <2>1 DEF DecryptAndCheck
  <2>4. RightReturned'
    BY <2>2, <2>3, <1>3 DEF RightReturned, Expected
  <2>5. CallsRight'
    BY <1>6, <1>2 DEF DecryptAndCheck, CallsRight, Expected
  <2>6. QED
    BY <2>4, <2>5
<1>7. ASSUME NEW c \in Clients, Operate(c) \/ Crash(c)
      PROVE  CallsRight' /\ RightReturned'
  BY <1>7, <1>4 DEF Operate, Construct, PrepareIndex, BeginQuery, CancelPending,
                    ProtectState, Restore, Crash
<1>8. ASSUME NEW k \in Callers, RejectUndecodable(k)
      PROVE  CallsRight' /\ RightReturned'
  BY <1>8, <1>4 DEF RejectUndecodable
<1>9. ASSUME UNCHANGED clientVars
      PROVE  CallsRight' /\ RightReturned'
  BY <1>9, <1>4 DEF clientVars
<1>10. QED
  BY <1>5, <1>6, <1>7, <1>8, <1>9
     DEF SessionNext, SteadyNext, sessionVars, DeliverQuery, ProceedSearch, FinishCall,
         Finish

LEMMA HonestInvariant == SessionSpec => []HonestInv
<1>1. SessionInit => HonestInv
  BY DEF SessionInit, ClientInit, ServerInit, HonestInv, ResponsesRight, CallsRight,
         RightReturned
<1>2. SessionTyped /\ ClientInv /\ HonestInv /\ [SessionNext]_sessionVars => HonestInv'
  BY SessionStepOfServer, ResponsesStep, AnswersStep DEF HonestInv
<1>3. QED
  BY <1>1, <1>2, SessionTypeCorrect, SessionImplementsBoth, ClientInvariant, PTL
     DEF SessionSpec

(* An honest evaluator is always believed: whatever is lost, repeated or   *)
(* late, and however often either side restarts, the fingerprint check     *)
(* after decryption rejects none of its results.                           *)
THEOREM HonestIsBelieved == SessionSpec => []HonestAnswersReturn
<1>1. SessionTyped /\ ClientInv /\ HonestInv => HonestAnswersReturn
  <2> SUFFICES ASSUME SessionTyped, ClientInv, HonestInv, NEW t \in Tickets,
                      decrypted[t] > 0
               PROVE  Answered(t)
    BY DEF HonestAnswersReturn
  <2>1. <<t, Expected(packet[t])>> \in returned
    BY DEF HonestInv, RightReturned
  <2>2. packet[t] \in QueryPacket
    BY DEF SessionTyped, ClientTypeOK, ClientInv, HistoryInv
  <2>3. Expected(packet[t]) \in Distances
    BY <2>2, AnswerAssumption DEF QueryPacket, Expected
  <2>4. QED
    BY <2>1, <2>3 DEF Answered
<1>2. QED
  BY <1>1, SessionTypeCorrect, SessionImplementsBoth, ClientInvariant, HonestInvariant, PTL

(* The guarantees of a client hold in a session.                           *)
THEOREM SessionImplementsOneUse == SessionSpec => ImplementsOneUse
  BY SessionImplementsBoth, ClientImplementsOneUse, PTL
=============================================================================
