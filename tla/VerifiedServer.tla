--------------------------- MODULE VerifiedServer ---------------------------
(***************************************************************************)
(* BFVVerifiedServer (hamming/bfv_verified.py): one authenticated index,   *)
(* an admission semaphore, a replay set and a query budget, searched by    *)
(* several threads.  The semaphore, the replay set and the evaluation are  *)
(* three separate steps of a search.  The state is in memory only: Restart *)
(* builds the server again from the same setup.                            *)
(***************************************************************************)
EXTENDS QueryPackets

CONSTANTS
  Workers,        \* threads that call search
  MaxConcurrent,  \* BFVExecutionPolicy.max_concurrent_searches
  ServerSetup     \* self._setup_digest

ASSUME ServerAssumption ==
  /\ IsFiniteSet(Workers)
  /\ MaxConcurrent \in Nat \ {0}
  /\ ServerSetup \in Setups

VARIABLES
  slots,      \* free places of self._admission
  seen,       \* self._seen
  search,     \* search[w]: the running search of worker w
  responses,  \* every response that search has returned
  \* history, read by no action:
  evaluated   \* evaluated[t]: evaluations for ticket t since the last restart

serverVars == <<slots, seen, search, responses, evaluated>>

Resting == [at |-> "rest", query |-> None]

(* "admitted": the semaphore is taken; "burnt": the ticket is in the       *)
(* replay set; "failed" and "done": on the way to the finally clause.      *)
Searching == [at : {"admitted", "burnt", "done", "failed"}, query : QueryPacket]

ServerTypeOK ==
  /\ slots \in 0..MaxConcurrent
  /\ seen \subseteq Tickets
  /\ search \in [Workers -> Searching \cup {Resting}]
  /\ responses \subseteq ResponsePacket
  /\ evaluated \in [Tickets -> Nat]

ServerInit ==
  /\ slots = MaxConcurrent
  /\ seen = {}
  /\ search = [w \in Workers |-> Resting]
  /\ responses = {}
  /\ evaluated = [t \in Tickets |-> 0]

(* search, before the try: no free place means an error at once, with no   *)
(* other effect.                                                           *)
Admit(w, p) ==
  /\ search[w] = Resting
  /\ slots > 0
  /\ slots' = slots - 1
  /\ search' = [search EXCEPT ![w] = [at |-> "admitted", query |-> p]]
  /\ UNCHANGED <<seen, responses, evaluated>>

(* The query belongs to this setup; under the lock its ticket is new and   *)
(* the budget not used up, and the ticket is spent.                        *)
(* Mutant: no replay check.                                                *)
FreshOrReplayed(p) ==
  p.setup = ServerSetup /\ Cardinality(seen) < MaxQueries

Fresh(p) ==
  /\ p.setup = ServerSetup
  /\ p.ticket \notin seen
  /\ Cardinality(seen) < MaxQueries

BurnTicket(w) ==
  LET p == search[w].query
  IN /\ search[w].at = "admitted"
     /\ Fresh(p)
     /\ seen' = seen \cup {p.ticket}
     /\ search' = [search EXCEPT ![w].at = "burnt"]
     /\ UNCHANGED <<slots, responses, evaluated>>

(* Another setup, a replay or an exhausted budget: an error.               *)
(* Mutant: the place is given back before the error is raised, and again   *)
(* in the finally clause.                                                  *)
RefuseAndRelease(w) ==
  /\ search[w].at = "admitted"
  /\ ~Fresh(search[w].query)
  /\ slots' = slots + 1
  /\ search' = [search EXCEPT ![w].at = "failed"]
  /\ UNCHANGED <<seen, responses, evaluated>>

Refuse(w) ==
  /\ search[w].at = "admitted"
  /\ ~Fresh(search[w].query)
  /\ search' = [search EXCEPT ![w].at = "failed"]
  /\ UNCHANGED <<slots, seen, responses, evaluated>>

(* encode_hamming_server_packed and the authenticated response: bound to   *)
(* this setup, the ticket and the digest of the exact query.               *)
ResponseTo(p) ==
  [setup |-> ServerSetup, ticket |-> p.ticket, request |-> p, result |-> Expected(p)]

Evaluate(w) ==
  LET p == search[w].query
  IN /\ search[w].at = "burnt"
     /\ evaluated' = [evaluated EXCEPT ![p.ticket] = @ + 1]
     /\ responses' = responses \cup {ResponseTo(p)}
     /\ search' = [search EXCEPT ![w].at = "done"]
     /\ UNCHANGED <<slots, seen>>

(* The query ciphertext does not decode or the evaluation raises: the      *)
(* ticket stays spent.                                                     *)
EvaluationFails(w) ==
  /\ search[w].at = "burnt"
  /\ search' = [search EXCEPT ![w].at = "failed"]
  /\ UNCHANGED <<slots, seen, responses, evaluated>>

(* finally: the place is given back on every way out.                      *)
(* Mutant: the place is given back after a success only.                   *)
ReleaseIfDone(w) ==
  /\ search[w].at = "done"
  /\ slots' = slots + 1
  /\ search' = [search EXCEPT ![w] = Resting]
  /\ UNCHANGED <<seen, responses, evaluated>>

Release(w) ==
  /\ search[w].at \in {"done", "failed"}
  /\ slots' = slots + 1
  /\ search' = [search EXCEPT ![w] = Resting]
  /\ UNCHANGED <<seen, responses, evaluated>>

(* The process ends and a new BFVVerifiedServer is made from the setup:    *)
(* an empty replay set, a full semaphore, no search.                       *)
Restart ==
  /\ slots' = MaxConcurrent
  /\ seen' = {}
  /\ search' = [w \in Workers |-> Resting]
  /\ evaluated' = [t \in Tickets |-> 0]
  /\ UNCHANGED responses

Proceed(w) ==
  BurnTicket(w) \/ Refuse(w) \/ Evaluate(w) \/ EvaluationFails(w) \/ Release(w)

(* Queries come from anyone who holds the authentication key, repeated and *)
(* in any order.                                                           *)
ServerNext ==
  \/ \E w \in Workers, p \in QueryPacket : Admit(w, p)
  \/ \E w \in Workers : Proceed(w)
  \/ Restart

ServerSpec == ServerInit /\ [][ServerNext]_serverVars

(* A thread that has been admitted keeps running.                          *)
ServerFairness == \A w \in Workers : WF_serverVars(Proceed(w))

FairServerSpec == ServerSpec /\ ServerFairness

-----------------------------------------------------------------------------

Busy == {w \in Workers : search[w] # Resting}

(* The semaphore is exact: every place is either free or held by one       *)
(* running search, whichever way earlier searches ended.                   *)
SlotsAccounted == slots + Cardinality(Busy) = MaxConcurrent

(* One evaluation per ticket in a server's life, though the check of the   *)
(* replay set and the evaluation are separate steps of threads that run    *)
(* side by side on the same query.                                         *)
OneEvaluation == \A t \in Tickets : evaluated[t] <= 1

(* ... and evaluations for at most MaxQueries tickets, whoever asks.       *)
EvaluationBudget == Cardinality({t \in Tickets : evaluated[t] > 0}) <= MaxQueries

(* Why these hold: a search past the lock owns a ticket of the replay set, *)
(* of this setup, that nobody else works on and nobody has evaluated; and  *)
(* the replay set stays within the budget.                                 *)
BurntInv == \A w \in Workers : search[w].at = "burnt" =>
  /\ search[w].query.setup = ServerSetup
  /\ search[w].query.ticket \in seen
  /\ evaluated[search[w].query.ticket] = 0
  /\ \A v \in Workers \ {w} : search[v].at = "burnt" =>
       search[v].query.ticket # search[w].query.ticket

SeenInv ==
  /\ IsFiniteSet(seen) /\ Cardinality(seen) <= MaxQueries
  /\ \A t \in Tickets : evaluated[t] # 0 => evaluated[t] = 1 /\ t \in seen

(* The inductive invariant of the proofs.                                  *)
ServerInv == SlotsAccounted /\ BurntInv /\ SeenInv

(* Every admitted search ends, so a full server becomes free again.        *)
FullServerDrains == (slots = 0) ~> (slots > 0)
=============================================================================
