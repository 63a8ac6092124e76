---------------------------- MODULE QueryPackets ----------------------------
(***************************************************************************)
(* The authenticated packets that a verified BFV client and its evaluator  *)
(* exchange (bfv_verified.py).  Packets are records; a digest of a packet  *)
(* is the packet itself (SHA-256 without collisions), and an encrypted     *)
(* query or result is the value it decrypts to.                            *)
(***************************************************************************)
EXTENDS Naturals, FiniteSets

CONSTANTS
  Setups,       \* setup digests: one per prepared index and session
  Queries,      \* binary query vectors
  Tickets,      \* 32-byte one-use query tickets
  Distances,    \* vectors of Hamming distances
  Answer,       \* Answer[s][q]: distances of q to the index of setup s
  Undecodable,  \* a result whose ciphertexts do not parse or have a wrong modulus
  None,
  MaxQueries,   \* BFVExecutionPolicy.max_queries
  MaxPending    \* BFVExecutionPolicy.max_pending_queries

ASSUME AnswerAssumption == Answer \in [Setups -> [Queries -> Distances]]

ASSUME NoneAssumption ==
  None \notin Setups \cup Tickets \cup [setup : Setups, ticket : Tickets, query : Queries]

ASSUME ResultAssumption == Undecodable \notin Distances

ASSUME LimitAssumption == MaxQueries \in Nat \ {0} /\ MaxPending \in Nat \ {0}

(* The body of a query: [setup digest, ticket, encrypted query].           *)
QueryPacket == [setup : Setups, ticket : Tickets, query : Queries]

(* What the result ciphertexts of a response decrypt to, if they decode.   *)
Result == Distances \cup {Undecodable}

(* The body of a response: [setup digest, ticket, query digest, results].  *)
ResponsePacket ==
  [setup : Setups, ticket : Tickets, request : QueryPacket, result : Result]

(* The private fingerprint of the answer to p: _HammingSummary.expected    *)
(* (matches() accepts these distances and, up to a 2^-255 chance, no       *)
(* others).                                                                *)
Expected(p) == Answer[p.setup][p.query]
=============================================================================
