--------------------------- MODULE VerifiedClient ---------------------------
(***************************************************************************)
(* BFVVerifiedClient (hamming/bfv_verified.py): one immutable index and    *)
(* session per object, one-use query tickets, a query budget, private      *)
(* state that is saved and restored.                                       *)
(*                                                                         *)
(* Every method body under self._lock is one action.  finish_query leaves  *)
(* the lock after it has consumed the ticket; what it does then (decode,   *)
(* decrypt, compare) is a later action of the same thread, so that other   *)
(* threads, cancel_pending_queries, protect_state and a crash come between.*)
(* Responses come from anywhere: the evaluator holds the authentication    *)
(* key, so any response that authenticates may be handed to finish_query,  *)
(* any number of times, by any thread, to any object.                      *)
(***************************************************************************)
EXTENDS QueryPackets

CONSTANTS
  Clients,      \* BFVVerifiedClient objects, over all process lifetimes
  Callers       \* application threads that call finish_query

ASSUME ClientAssumption == None \notin Clients

VARIABLES
  phase,        \* phase[c]: "unborn", "constructed", "ready" or "gone"
  setup,        \* setup[c]: self._setup_digest
  started,      \* started[c]: self._started
  pending,      \* pending[c]: the keys of self._pending
  packet,       \* packet[t]: the query packet made with ticket t, or None
  call,         \* call[k]: what finish_query holds in caller k after the lock
  saved,        \* every state that protect_state has ever returned
  \* history, read by no action:
  begun,        \* begun[c]: tickets begun by c and, before the save, by its forebears
  decrypted,    \* decrypted[t]: how often a response for t has been decrypted
  cancelled,    \* tickets discarded by cancel_pending_queries or lost in a crash
  returned      \* <<ticket, distances>> that finish_query has returned

clientVars == <<phase, setup, started, pending, packet, call, saved,
                begun, decrypted, cancelled, returned>>

Idle == [client |-> None, ticket |-> None, result |-> None]

Checking == [client : Clients, ticket : Tickets, result : Result]

SavedState == [setup : Setups, started : 0..MaxQueries, begun : SUBSET Tickets]

ClientTypeOK ==
  /\ phase \in [Clients -> {"unborn", "constructed", "ready", "gone"}]
  /\ setup \in [Clients -> Setups \cup {None}]
  /\ started \in [Clients -> 0..MaxQueries]
  /\ pending \in [Clients -> SUBSET Tickets]
  /\ packet \in [Tickets -> QueryPacket \cup {None}]
  /\ call \in [Callers -> Checking \cup {Idle}]
  /\ saved \subseteq SavedState
  /\ begun \in [Clients -> SUBSET Tickets]
  /\ decrypted \in [Tickets -> Nat]
  /\ cancelled \subseteq Tickets
  /\ returned \subseteq Tickets \X Distances

ClientInit ==
  /\ phase = [c \in Clients |-> "unborn"]
  /\ setup = [c \in Clients |-> None]
  /\ started = [c \in Clients |-> 0]
  /\ pending = [c \in Clients |-> {}]
  /\ packet = [t \in Tickets |-> None]
  /\ call = [k \in Callers |-> Idle]
  /\ saved = {}
  /\ begun = [c \in Clients |-> {}]
  /\ decrypted = [t \in Tickets |-> 0]
  /\ cancelled = {}
  /\ returned = {}

(* __init__: a new session without an index.                               *)
Construct(c) ==
  /\ phase[c] = "unborn"
  /\ phase' = [phase EXCEPT ![c] = "constructed"]
  /\ UNCHANGED <<setup, started, pending, packet, call, saved,
                 begun, decrypted, cancelled, returned>>

(* prepare_index: refused when this object already has a setup.  The       *)
(* session identifier is random, so the digest is new.                     *)
PrepareIndex(c, s) ==
  /\ phase[c] = "constructed"
  /\ setup[c] = None
  /\ \A d \in Clients : setup[d] # s
  /\ setup' = [setup EXCEPT ![c] = s]
  /\ phase' = [phase EXCEPT ![c] = "ready"]
  /\ UNCHANGED <<started, pending, packet, call, saved,
                 begun, decrypted, cancelled, returned>>

(* begin_query: needs a setup, a rest of the budget and room for one more  *)
(* pending query.  The ticket is 32 fresh random bytes.                    *)
MayBegin(c) ==
  /\ setup[c] # None
  /\ started[c] < MaxQueries
  /\ Cardinality(pending[c]) < MaxPending

BeginQuery(c, t, q) ==
  /\ phase[c] = "ready"
  /\ MayBegin(c)
  /\ packet[t] = None
  /\ packet' = [packet EXCEPT ![t] = [setup |-> setup[c], ticket |-> t, query |-> q]]
  /\ pending' = [pending EXCEPT ![c] = @ \cup {t}]
  /\ started' = [started EXCEPT ![c] = @ + 1]
  /\ begun' = [begun EXCEPT ![c] = @ \cup {t}]
  /\ UNCHANGED <<phase, setup, call, saved, decrypted, cancelled, returned>>

(* finish_query under the lock: the response must name this setup, a       *)
(* pending ticket and the digest of the very packet begun with it.  A      *)
(* response that fails one of these is refused and nothing changes.        *)
(* Mutant: the ticket is looked up among all queries begun, not the pending*)
AcceptsAnyBegun(c, r) ==
  /\ r.setup = setup[c]
  /\ packet[r.ticket] # None
  /\ r.request = packet[r.ticket]

Accepts(c, r) ==
  /\ r.setup = setup[c]
  /\ r.ticket \in pending[c]
  /\ r.request = packet[r.ticket]

(* Mutant: the ticket is read under the lock but stays in the table.       *)
ReadTicket(k, c, r) ==
  /\ call[k] = Idle
  /\ phase[c] = "ready"
  /\ Accepts(c, r)
  /\ call' = [call EXCEPT ![k] = [client |-> c, ticket |-> r.ticket, result |-> r.result]]
  /\ UNCHANGED <<phase, setup, started, pending, packet, saved,
                 begun, decrypted, cancelled, returned>>

ConsumeTicket(k, c, r) ==
  /\ call[k] = Idle
  /\ phase[c] = "ready"
  /\ Accepts(c, r)
  /\ pending' = [pending EXCEPT ![c] = @ \ {r.ticket}]
  /\ call' = [call EXCEPT ![k] = [client |-> c, ticket |-> r.ticket, result |-> r.result]]
  /\ UNCHANGED <<phase, setup, started, packet, saved,
                 begun, decrypted, cancelled, returned>>

(* finish_query after the lock, ciphertexts that do not decode: refused    *)
(* before any private operation, with the ticket already consumed.         *)
RejectUndecodable(k) ==
  /\ call[k] # Idle
  /\ call[k].result = Undecodable
  /\ call' = [call EXCEPT ![k] = Idle]
  /\ UNCHANGED <<phase, setup, started, pending, packet, saved,
                 begun, decrypted, cancelled, returned>>

(* summary.matches(distances, pending.expected).                           *)
(* Mutants: no comparison; one fingerprint for all queries of a session.   *)
MatchesAnything(t, d) == TRUE

MatchesEveryQuery(t, d) ==
  \A u \in Tickets : packet[u] # None => d = Expected(packet[u])

Matches(t, d) == d = Expected(packet[t])

(* finish_query after the lock: decrypt, compare with the fingerprint, and *)
(* return all distances or none.                                           *)
DecryptAndCheck(k) ==
  LET t == call[k].ticket
      d == call[k].result
  IN /\ call[k] # Idle
     /\ d # Undecodable
     /\ decrypted' = [decrypted EXCEPT ![t] = @ + 1]
     /\ returned' = IF Matches(t, d) THEN returned \cup {<<t, d>>} ELSE returned
     /\ call' = [call EXCEPT ![k] = Idle]
     /\ UNCHANGED <<phase, setup, started, pending, packet, saved, begun, cancelled>>

(* cancel_pending_queries: forgets the tickets, keeps the budget.          *)
(* Mutant: the budget of cancelled queries is refunded.                    *)
CancelWithRefund(c) ==
  /\ phase[c] \in {"constructed", "ready"}
  /\ pending' = [pending EXCEPT ![c] = {}]
  /\ started' = [started EXCEPT ![c] = @ - Cardinality(pending[c])]
  /\ cancelled' = cancelled \cup pending[c]
  /\ UNCHANGED <<phase, setup, packet, call, saved, begun, decrypted, returned>>

CancelPending(c) ==
  /\ phase[c] \in {"constructed", "ready"}
  /\ pending' = [pending EXCEPT ![c] = {}]
  /\ cancelled' = cancelled \cup pending[c]
  /\ UNCHANGED <<phase, setup, started, packet, call, saved,
                 begun, decrypted, returned>>

(* protect_state: keys, summary and the number of queries begun; pending   *)
(* queries are not saved.                                                  *)
ProtectState(c) ==
  /\ phase[c] = "ready"
  /\ setup[c] # None
  /\ saved' = saved \cup
       {[setup |-> setup[c], started |-> started[c], begun |-> begun[c]]}
  /\ UNCHANGED <<phase, setup, started, pending, packet, call,
                 begun, decrypted, cancelled, returned>>

(* restore: a new object from any saved state, old copies included, even   *)
(* while the object that saved it lives on.                                *)
Restore(c, v) ==
  /\ phase[c] = "unborn"
  /\ v \in saved
  /\ phase' = [phase EXCEPT ![c] = "ready"]
  /\ setup' = [setup EXCEPT ![c] = v.setup]
  /\ started' = [started EXCEPT ![c] = v.started]
  /\ begun' = [begun EXCEPT ![c] = v.begun]
  /\ UNCHANGED <<pending, packet, call, saved, decrypted, cancelled, returned>>

(* The process of c ends, or the application drops the object: its pending *)
(* table and its running calls are lost.                                   *)
Crash(c) ==
  /\ phase[c] \in {"constructed", "ready"}
  /\ phase' = [phase EXCEPT ![c] = "gone"]
  /\ pending' = [pending EXCEPT ![c] = {}]
  /\ cancelled' = cancelled \cup pending[c]
  /\ call' = [k \in Callers |-> IF call[k].client = c THEN Idle ELSE call[k]]
  /\ UNCHANGED <<setup, started, packet, saved, begun, decrypted, returned>>

Operate(c) ==
  \/ Construct(c)
  \/ \E s \in Setups : PrepareIndex(c, s)
  \/ \E t \in Tickets, q \in Queries : BeginQuery(c, t, q)
  \/ CancelPending(c)
  \/ ProtectState(c)
  \/ \E v \in saved : Restore(c, v)

Finish(k) == RejectUndecodable(k) \/ DecryptAndCheck(k)

ClientNext ==
  \/ \E c \in Clients : Operate(c) \/ Crash(c)
  \/ \E k \in Callers, c \in Clients, r \in ResponsePacket : ConsumeTicket(k, c, r)
  \/ \E k \in Callers : Finish(k)

ClientSpec == ClientInit /\ [][ClientNext]_clientVars

-----------------------------------------------------------------------------

(* No response, however often and to whichever object it is delivered, and *)
(* no save, restore or cloning of an object makes finish_query decrypt     *)
(* twice for one ticket ("Concurrent duplicates can never trigger two      *)
(* private decryptions for the same ticket").                              *)
OneDecryption == \A t \in Tickets : decrypted[t] <= 1

(* Distances returned for a ticket are the distances of the query that was *)
(* begun with it to the index of its setup, whatever the evaluator put in  *)
(* the response: another query's result, another setup's, a wrong one.     *)
RightAnswers ==
  \A a \in returned : packet[a[1]] # None /\ a[2] = Expected(packet[a[1]])

(* A ticket that was cancelled, or that was pending when its process died, *)
(* is never decrypted: not by a late response, not after a restore.        *)
CancelledNeverDecrypted == \A t \in cancelled : decrypted[t] = 0

(* The saved counter is the query budget of a whole line of restored       *)
(* objects: it counts every query begun by the object and, before each     *)
(* save it descends from, by its forebears; no cancellation, save or       *)
(* restore gives any of it back.                                           *)
LineageBudget == \A c \in Clients :
  started[c] = Cardinality(begun[c]) /\ Cardinality(begun[c]) <= MaxQueries

(* Why the above hold.  A ticket is undecided from begin_query until it is *)
(* decrypted or cancelled; ...                                             *)
Undecided(t) ==
  /\ packet[t] # None
  /\ decrypted[t] = 0
  /\ t \notin cancelled
  /\ \A a \in returned : a[1] # t

(* ... a pending ticket is undecided and pending in one object only; ...   *)
PendingInv == \A c \in Clients : \A t \in pending[c] :
  Undecided(t) /\ \A d \in Clients \ {c} : t \notin pending[d]

(* ... a ticket held by a running call is undecided, held by that call     *)
(* only, and no object can match another response against it; ...          *)
CallInv == \A k \in Callers : call[k] # Idle =>
  /\ Undecided(call[k].ticket)
  /\ \A c \in Clients : call[k].ticket \notin pending[c]
  /\ \A j \in Callers \ {k} : call[j].ticket # call[k].ticket

(* ... what is decided stays so; ...                                       *)
HistoryInv ==
  /\ \A t \in Tickets : decrypted[t] # 0 =>
       decrypted[t] = 1 /\ packet[t] # None /\ t \notin cancelled
  /\ \A t \in cancelled : packet[t] # None
  /\ \A a \in returned : /\ decrypted[a[1]] = 1
                         /\ packet[a[1]] # None
                         /\ a[2] = Expected(packet[a[1]])

(* ... and every counter, saved ones included, counts the queries begun.   *)
Counts(n, T) == IsFiniteSet(T) /\ n = Cardinality(T) /\ \A t \in T : packet[t] # None

BudgetInv ==
  /\ \A c \in Clients : Counts(started[c], begun[c])
  /\ \A v \in saved : Counts(v.started, v.begun)

(* The inductive invariant of the proofs.                                  *)
ClientInv == PendingInv /\ CallInv /\ HistoryInv /\ BudgetInv

(* The abstract state that a client implements.                            *)
StatusOf(t) ==
  IF packet[t] = None THEN "unasked"
  ELSE IF \E d \in Distances : <<t, d>> \in returned THEN "answered"
  ELSE IF \E k \in Callers : call[k].ticket = t THEN "taken"
  ELSE IF \E c \in Clients : t \in pending[c] THEN "open"
  ELSE "closed"

Abstract == INSTANCE OneUseQueries WITH
  asked <- packet, status <- [t \in Tickets |-> StatusOf(t)], replies <- returned

(* Clients implement OneUseQueries: a query is taken up once, given up for *)
(* good, and answered rightly or not at all.                               *)
ImplementsOneUse == Abstract!AskSpec
=============================================================================
