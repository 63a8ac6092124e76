-------------------------- MODULE AttestedSession --------------------------
(***************************************************************************)
(* BFVAttestedClient and BFVAttestedServer (hamming/bfv_attested.py) with  *)
(* the enclave service around the server (experiments/bfv_nitro/service.py)*)
(* The client composes VerifiedClient, the enclave composes VerifiedServer.*)
(* The host between them is not trusted: it restarts the enclave, registers*)
(* strangers, and loses, repeats, delays and reorders whatever was sent.   *)
(* What was sent stays in issued, evidence, requests and receipts.         *)
(*                                                                         *)
(* self._gate of a client is held by every method to its end, the private  *)
(* decoding of finish_query included; self._lock of the server is held by  *)
(* attest and search.  A deadline that has passed is the same as no session*)
(* and may pass between any two steps.                                     *)
(***************************************************************************)
EXTENDS VerifiedClient, VerifiedServer

CONSTANTS
  Nonces,           \* 32-byte challenges of begin_attestation
  Keys,             \* receipt keys: one per boot of an enclave
  Mine, Stranger,   \* owner keys: of all clients here, and of anybody else
  MaxAttestations   \* _MAX_ATTESTATIONS

ASSUME AttestedAssumption ==
  /\ Mine # Stranger
  /\ None \notin Nonces \cup Keys \cup {Mine, Stranger}
  /\ MaxAttestations \in Nat \ {0}

Owners == {Mine, Stranger}

(* _session_id: the context (setup, owner), the nonce and the receipt key. *)
Session == [setup : Setups, owner : Owners, nonce : Nonces, key : Keys]

ASSUME SessionAssumption == None \notin Session

VARIABLES
  hello,      \* hello[c]: the nonce of self._hello, or None
  lease,      \* lease[c]: self._enrolled_session, or None when there is none in force
  issued,     \* issued[n]: the setup that challenge n was signed for, or None
  requests,   \* signed requests [session, query]
  key,        \* self._public_key of the running enclave
  owner,      \* the owner key of its registration, or None before it
  session,    \* self._session of the server, or None when there is none in force
  nonces,     \* self._seen_nonces
  evidence,   \* sessions the NSM and the enclave have vouched for
  receipts    \* signed receipts [session, request, response]

ownerVars == <<hello, lease, issued, requests>>

enclaveVars == <<key, owner, session, nonces, evidence, receipts>>

attestedVars == <<clientVars, serverVars, ownerVars, enclaveVars>>

OwnerTypeOK ==
  /\ hello \in [Clients -> Nonces \cup {None}]
  /\ lease \in [Clients -> Session \cup {None}]
  /\ issued \in [Nonces -> Setups \cup {None}]
  /\ requests \subseteq [session : Session, query : QueryPacket]

EnclaveTypeOK ==
  /\ key \in Keys
  /\ owner \in Owners \cup {None}
  /\ session \in Session \cup {None}
  /\ nonces \subseteq Nonces
  /\ evidence \subseteq Session
  /\ receipts \subseteq
       [session : Session, request : QueryPacket, response : ResponsePacket]

AttestedTypeOK == ClientTypeOK /\ ServerTypeOK /\ OwnerTypeOK /\ EnclaveTypeOK

AttestedInit ==
  /\ ClientInit
  /\ ServerInit
  /\ hello = [c \in Clients |-> None]
  /\ lease = [c \in Clients |-> None]
  /\ issued = [n \in Nonces |-> None]
  /\ requests = {}
  /\ key \in Keys
  /\ owner = None
  /\ session = None
  /\ nonces = {}
  /\ evidence = {}
  /\ receipts = {}

-----------------------------------------------------------------------------

(* The owner's side.                                                       *)

(* self._gate can be taken: no finish_query of c is running.               *)
GateFree(c) == \A k \in Callers : call[k].client # c

(* __init__, prepare_index, protect_state, cancel_pending_queries, restore:*)
(* the inner operation under the gate.  A restored object starts without   *)
(* challenge and session.                                                  *)
OwnerOperate(c) ==
  /\ GateFree(c)
  /\ \/ Construct(c)
     \/ \E s \in Setups : PrepareIndex(c, s)
     \/ CancelPending(c)
     \/ ProtectState(c)
     \/ \E v \in saved : Restore(c, v)
  /\ UNCHANGED <<serverVars, ownerVars, enclaveVars>>

(* Mutant: renewal keeps the pending queries.                              *)
RenewOnly(c, n) ==
  /\ GateFree(c)
  /\ phase[c] = "ready"
  /\ setup[c] # None
  /\ issued[n] = None
  /\ issued' = [issued EXCEPT ![n] = setup[c]]
  /\ lease' = [lease EXCEPT ![c] = None]
  /\ hello' = [hello EXCEPT ![c] = n]
  /\ UNCHANGED <<clientVars, requests, serverVars, enclaveVars>>

(* begin_attestation: no session any more, pending queries discarded, and  *)
(* a fresh signed challenge.                                               *)
BeginAttestation(c, n) ==
  /\ GateFree(c)
  /\ phase[c] = "ready"
  /\ setup[c] # None
  /\ issued[n] = None
  /\ lease' = [lease EXCEPT ![c] = None]
  /\ CancelPending(c)
  /\ issued' = [issued EXCEPT ![n] = setup[c]]
  /\ hello' = [hello EXCEPT ![c] = n]
  /\ UNCHANGED <<requests, serverVars, enclaveVars>>

(* Mutant: evidence is checked for the context and not for the challenge.  *)
AnyChallenge(c, e) == e.setup = setup[c] /\ e.owner = Mine

(* What verify_nitro_attestation and the proof of possession establish.    *)
FreshEvidence(c, e) ==
  e.setup = setup[c] /\ e.owner = Mine /\ e.nonce = hello[c]

(* accept_attestation: evidence for the pending challenge of this object   *)
(* opens a session and consumes the challenge; anything else changes       *)
(* nothing.                                                                *)
AcceptAttestation(c, e) ==
  /\ GateFree(c)
  /\ hello[c] # None
  /\ e \in evidence
  /\ FreshEvidence(c, e)
  /\ lease' = [lease EXCEPT ![c] = e]
  /\ hello' = [hello EXCEPT ![c] = None]
  /\ UNCHANGED <<clientVars, issued, requests, serverVars, enclaveVars>>

(* begin_query: the session is required before the inner begin_query ...   *)
AttestedBegin(c, t, q) ==
  /\ GateFree(c)
  /\ lease[c] # None
  /\ BeginQuery(c, t, q)
  /\ requests' = requests \cup
       {[session |-> lease[c], query |-> [setup |-> setup[c], ticket |-> t, query |-> q]]}
  /\ UNCHANGED <<hello, lease, issued, serverVars, enclaveVars>>

(* ... and once more after it; when the deadline (lease' = None) or the    *)
(* certificate's wall-clock expiry comes in between, the query stays       *)
(* pending, and counted, without a request.                                *)
BeginExpires(c, t, q) ==
  /\ GateFree(c)
  /\ lease[c] # None
  /\ BeginQuery(c, t, q)
  /\ lease' \in {lease, [lease EXCEPT ![c] = None]}
  /\ UNCHANGED <<hello, issued, requests, serverVars, enclaveVars>>

(* finish_query up to the inner lock: any response, with a receipt under   *)
(* the session's key that names this session, this response and a query    *)
(* that is pending now; then the inner checks.                             *)
(* Mutant: the receipt is not compared with the response.                  *)
CoversRequest(c, r, x) ==
  x.session = lease[c] /\ \E t \in pending[c] : packet[t] = x.request

ReceiptCovers(c, r, x) ==
  /\ x.session = lease[c]
  /\ x.response = r
  /\ \E t \in pending[c] : packet[t] = x.request

AttestedFinish(k, c, r, x) ==
  /\ GateFree(c)
  /\ lease[c] # None
  /\ x \in receipts
  /\ ReceiptCovers(c, r, x)
  /\ ConsumeTicket(k, c, r)
  /\ UNCHANGED <<serverVars, ownerVars, enclaveVars>>

(* The rest of the inner finish_query, still under the gate.               *)
AttestedDecode(k) == Finish(k) /\ UNCHANGED <<serverVars, ownerVars, enclaveVars>>

(* The handshake or the lease of c runs out.                               *)
HandshakeTimesOut(c) ==
  /\ hello[c] # None
  /\ hello' = [hello EXCEPT ![c] = None]
  /\ UNCHANGED <<clientVars, lease, issued, requests, serverVars, enclaveVars>>

LeaseExpires(c) ==
  /\ lease[c] # None
  /\ lease' = [lease EXCEPT ![c] = None]
  /\ UNCHANGED <<clientVars, hello, issued, requests, serverVars, enclaveVars>>

OwnerCrash(c) ==
  /\ Crash(c)
  /\ hello' = [hello EXCEPT ![c] = None]
  /\ lease' = [lease EXCEPT ![c] = None]
  /\ UNCHANGED <<issued, requests, serverVars, enclaveVars>>

-----------------------------------------------------------------------------

(* The enclave.                                                            *)

(* handle(REGISTER): once.  A registration for the owner exists as soon as *)
(* an index has been prepared; a stranger can sign one for the same setup. *)
Register(o) ==
  /\ owner = None
  /\ o = Mine => \E c \in Clients : setup[c] = ServerSetup
  /\ owner' = o
  /\ UNCHANGED <<clientVars, serverVars, ownerVars, key, session, nonces, evidence, receipts>>

(* Mutant: attest does not take the lock that search holds.                *)
NoLock == TRUE

(* self._lock can be taken: no search is running.                          *)
LockFree == \A w \in Workers : search[w] = Resting

(* A challenge signed by the registered owner for this setup.              *)
SignedHello(n) == owner = Stranger \/ issued[n] = ServerSetup

(* attest: the nonce is consumed first; ...                                *)
MayAttest(n) ==
  /\ LockFree
  /\ owner # None
  /\ SignedHello(n)
  /\ n \notin nonces
  /\ Cardinality(nonces) < MaxAttestations

(* ... with evidence from the NSM the session is replaced, ...             *)
Attest(n) ==
  LET s == [setup |-> ServerSetup, owner |-> owner, nonce |-> n, key |-> key]
  IN /\ MayAttest(n)
     /\ nonces' = nonces \cup {n}
     /\ evidence' = evidence \cup {s}
     /\ session' = s
     /\ UNCHANGED <<clientVars, serverVars, ownerVars, key, owner, receipts>>

(* ... without it the old session stays.                                   *)
AttestFails(n) ==
  /\ MayAttest(n)
  /\ nonces' = nonces \cup {n}
  /\ UNCHANGED <<clientVars, serverVars, ownerVars, key, owner, session, evidence, receipts>>

(* search: a request of the session in force, signed by the owner.         *)
Authorised(p) == owner = Stranger \/ [session |-> session, query |-> p] \in requests

SearchStart(w, p) ==
  /\ LockFree
  /\ session # None
  /\ Authorised(p)
  /\ Admit(w, p)
  /\ UNCHANGED <<clientVars, ownerVars, enclaveVars>>

SearchStep(w) ==
  /\ BurnTicket(w) \/ Refuse(w) \/ Evaluate(w) \/ EvaluationFails(w)
  /\ UNCHANGED <<clientVars, ownerVars, enclaveVars>>

(* The inner search returns: a receipt if it succeeded and the session is  *)
(* still in force.                                                         *)
SearchReturn(w) ==
  LET p == search[w].query
  IN /\ Release(w)
     /\ receipts' =
          IF search[w].at = "done" /\ session # None
          THEN receipts \cup
                 {[session |-> session, request |-> p, response |-> ResponseTo(p)]}
          ELSE receipts
     /\ UNCHANGED <<clientVars, ownerVars, key, owner, session, nonces, evidence>>

SessionExpires ==
  /\ session # None
  /\ session' = None
  /\ UNCHANGED <<clientVars, serverVars, ownerVars, key, owner, nonces, evidence, receipts>>

(* A new boot: an empty service with a receipt key never seen before.      *)
Reboot(y) ==
  /\ y # key
  /\ \A e \in evidence : e.key # y
  /\ Restart
  /\ key' = y
  /\ owner' = None
  /\ session' = None
  /\ nonces' = {}
  /\ UNCHANGED <<clientVars, ownerVars, evidence, receipts>>

OwnerNext ==
  \/ \E c \in Clients :
       \/ OwnerOperate(c)
       \/ \E n \in Nonces : BeginAttestation(c, n)
       \/ \E e \in evidence : AcceptAttestation(c, e)
       \/ \E t \in Tickets, q \in Queries : AttestedBegin(c, t, q) \/ BeginExpires(c, t, q)
       \/ \E k \in Callers, r \in ResponsePacket, x \in receipts : AttestedFinish(k, c, r, x)
       \/ HandshakeTimesOut(c)
       \/ LeaseExpires(c)
       \/ OwnerCrash(c)
  \/ \E k \in Callers : AttestedDecode(k)

EnclaveNext ==
  \/ \E o \in Owners : Register(o)
  \/ \E n \in Nonces : Attest(n) \/ AttestFails(n)
  \/ \E w \in Workers, p \in QueryPacket : SearchStart(w, p)
  \/ \E w \in Workers : SearchStep(w) \/ SearchReturn(w)
  \/ SessionExpires
  \/ \E y \in Keys : Reboot(y)

AttestedNext == OwnerNext \/ EnclaveNext

AttestedSpec == AttestedInit /\ [][AttestedNext]_attestedVars

-----------------------------------------------------------------------------

(* No response reaches private decryption unless an enclave computed it    *)
(* for the exact query: the host holds the authentication key and may send *)
(* any response, another query's or a wrong one, with any receipt of this  *)
(* or an earlier session or of a stranger's ("mandatory approval before    *)
(* decryption").                                                           *)
OnlyEnclaveDecrypted == \A k \in Callers : call[k] # Idle =>
  call[k].result = Expected(packet[call[k].ticket])

(* What a client waits for or decrypts was asked in the session it has now:*)
(* no answer of an earlier session survives a renewal, and no renewal      *)
(* happens during private work ("Start or renew enrollment, discarding old *)
(* sessions and pending queries"; "The outer lock excludes renewal during  *)
(* private work").                                                         *)
Work(c) == pending[c] \cup {call[k].ticket : k \in {j \in Callers : call[j].client = c}}

WorkOfSession == \A c \in Clients : lease[c] # None =>
  \A t \in Work(c) : \A q \in requests :
    q.query = packet[t] => q.session = lease[c]

(* A receipt names the session in which its request was authorised, though *)
(* it is written long after the request was checked ("The serialized gate  *)
(* excludes renewal while a search is running"), and the right result.     *)
ReceiptsOfSession == \A x \in receipts :
  /\ x.response = ResponseTo(x.request)
  /\ x.session.owner = Mine => [session |-> x.session, query |-> x.request] \in requests

(* Two client objects, clones from one saved state included, are never in  *)
(* the same session, and no session that an object has lost can be         *)
(* accepted again by it or by another.                                     *)
SessionsApart == \A c \in Clients :
  /\ \A d \in Clients \ {c} : lease[c] # None => lease[d] # lease[c]
  /\ \A d \in Clients : lease[c] # None => hello[d] # lease[c].nonce

(* Why these hold: the session in force belongs to the registered owner,   *)
(* and a running search was authorised in it; ...                          *)
EnclaveInv ==
  /\ session # None => session.owner = owner
  /\ session # None /\ owner = Mine => \A w \in Workers : search[w] # Resting =>
       [session |-> session, query |-> search[w].query] \in requests

(* ... a request is for the packet begun with its ticket; ...              *)
RequestsInv ==
  /\ \A t \in Tickets : packet[t] # None => packet[t].ticket = t
  /\ \A q \in requests : packet[q.query.ticket] = q.query

(* ... and challenges are never reused: an object that waits for evidence  *)
(* has a challenge of its own, no session and no work.                     *)
ChallengeInv == \A c \in Clients :
  /\ hello[c] # None =>
       /\ issued[hello[c]] # None
       /\ lease[c] = None
       /\ Work(c) = {}
       /\ \A d \in Clients \ {c} : hello[d] # hello[c]
  /\ lease[c] # None => issued[lease[c].nonce] # None

(* The inductive invariant of the proofs, on top of ClientInv.             *)
AttestedInv == /\ EnclaveInv /\ RequestsInv /\ ChallengeInv /\ ReceiptsOfSession
               /\ OnlyEnclaveDecrypted /\ WorkOfSession /\ SessionsApart
=============================================================================
