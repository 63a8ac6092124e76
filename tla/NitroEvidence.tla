---------------------------- MODULE NitroEvidence ----------------------------
(***************************************************************************)
(* The times and the checks of Nitro evidence: verify_nitro_attestation    *)
(* with its policy (hamming/bfv_nitro.py), and the clocks and leases of    *)
(* BFVAttestedClient and BFVAttestedServer (hamming/bfv_attested.py), for  *)
(* one client and one boot of its enclave.  AttestedSession abstracts all  *)
(* this to "a lease may end at any step" and has the rest: registration,   *)
(* queries, tickets and restarts.                                          *)
(*                                                                         *)
(* mono is monotonic time, at one rate everywhere, and the clock of the    *)
(* NSM.  The wall clock of the client is mono + drift, and drift jumps (an *)
(* operator, NTP).  Time passes between any two steps.  The host shows any *)
(* document the NSM of any enclave ever signed, any number of times, and   *)
(* documents it signs itself under the certificates it has keys for.       *)
(*                                                                         *)
(* CBOR, COSE and X.509 encodings and the form of the receipt key are left *)
(* out; a malformed document is refused like a foreign one.                *)
(***************************************************************************)
EXTENDS Integers, FiniteSets, Sequences

CONSTANTS
  None, Nonces,
  Pins,               \* policy.pcrs
  MaxAge, MaxSession, MaxSkew, Handshake,  \* the durations of the policy
  SessionSeconds,     \* _SESSION_SECONDS of the server
  Root,               \* the certificate with digest _AWS_ROOT_SHA256
  Chains,             \* certificate chains that exist, root first
  HostKeys,           \* subjects whose private key the host has
  OwnChain,           \* the chain of the NSM of the client's enclave
  OwnPcrs,            \* the measurements of the image the owner built
  ForeignPcrs,        \* those of other images with an NSM of the same chain
  MaxTime, Drifts,    \* bounds of the model: the clock, drift, ...
  MaxReceipts         \* ... and the receipts of a behaviour

Expiry == 0 .. MaxTime + 20

(* NitroAttestationPolicy.__post_init__, with the durations scaled down.   *)
ASSUME PolicyAssumption ==
  /\ {0, 1, 2} \subseteq DOMAIN Pins
  /\ DOMAIN Pins \subseteq 0 .. 31
  /\ MaxAge \in Nat \ {0}
  /\ MaxSession \in Nat \ {0}
  /\ Handshake \in Nat \ {0}
  /\ MaxSkew \in Nat

ASSUME NitroAssumption ==
  /\ None \notin Nonces
  /\ SessionSeconds \in Nat \ {0}
  /\ MaxTime \in Nat
  /\ MaxReceipts \in Nat
  /\ Drifts \subseteq Int
  /\ OwnChain \in Chains

(* Chains are sequences that end with the certificate of the signer.       *)
ASSUME ChainAssumption == \A ch \in Chains :
  /\ Len(ch) \in Nat \ {0} /\ DOMAIN ch = 1 .. Len(ch)
  /\ \A i \in DOMAIN ch : ch[i].until \in Expiry

(* What the pinned root stands for: it is not the host's, and no authority *)
(* but the host's own certifies a key that the host has.                   *)
ASSUME AuthorityAssumption ==
  /\ Root.subject \notin HostKeys
  /\ \A ch \in Chains : \A i \in 2 .. Len(ch) :
       ch[i].subject \in HostKeys /\ ch[i].issuer = ch[i - 1].subject /\ ch[i - 1].ca =>
         ch[i - 1].subject \in HostKeys

Times == 0 .. MaxTime

(* What the checks read of a document.                                     *)
Document == [nonce : Nonces, stamp : Times, chain : Chains, pcrs : {OwnPcrs} \cup ForeignPcrs]

VARIABLES
  mono, drift,
  hello, helloAt,     \* self._hello (its nonce or None), self._hello_started
  issued,             \* challenges ever sent
  asked,              \* sessions (nonces) a query of the client was signed in
  evidence,           \* documents signed by an NSM
  accept,             \* the running accept_attestation
  lease,              \* identity, deadline and enrolled session of the client, or None
  attesting,          \* the nonce of the running attest of the server, or None
  server,             \* session (its nonce) and deadline of the server, or None
  search,             \* the running search of the server, or None
  receipts,           \* signed receipts
  finish              \* the running or last finish_query, with the times of its checks

clientVars == <<hello, helloAt, issued, asked, accept, lease, finish>>

enclaveVars == <<evidence, attesting, server, search, receipts>>

nitroVars == <<mono, drift, clientVars, enclaveVars>>

Wall == mono + drift

Resting == [at |-> "rest"]

Lease == [doc : Document, expires : Expiry, deadline : Int, confirmed : Times,
          drift : Drifts, opened : Times]

Receipt == [nonce : Nonces, began : Times, ended : Times]

EvidenceTypeOK ==
  /\ mono \in Times /\ drift \in Drifts
  /\ hello \in Nonces \cup {None} /\ helloAt \in Times /\ issued \subseteq Nonces
  /\ asked \subseteq issued
  /\ evidence \subseteq Document
  /\ \/ accept = Resting
     \/ accept \in [at : {"checked"}, doc : Document]
     \/ accept \in [at : {"verified"}, doc : Document, expires : Expiry]
     \/ accept \in [at : {"confirmed"}, doc : Document, expires : Expiry,
                    remaining : 1 .. MaxSession, confirmed : Times, drift : Drifts]
     \/ accept \in [at : {"stale"}, doc : Document, drift : Drifts]
  /\ lease \in Lease \cup {None}
  /\ attesting \in Nonces \cup {None}
  /\ server \in [nonce : Nonces, deadline : Nat] \cup {None}
  /\ search \in [nonce : Nonces, began : Times] \cup {None}
  /\ receipts \subseteq Receipt
  /\ \/ finish = Resting
     \/ finish \in [at : {"checking", "decrypting"}, receipt : Receipt, time : Times]

NitroInit ==
  /\ mono = 0 /\ drift \in Drifts
  /\ hello = None /\ helloAt = 0 /\ issued = {} /\ asked = {}
  /\ evidence = {}
  /\ accept = Resting
  /\ lease = None
  /\ attesting = None /\ server = None /\ search = None
  /\ receipts = {}
  /\ finish = Resting

-----------------------------------------------------------------------------

(* Clocks.                                                                 *)

Tick ==
  /\ mono < MaxTime
  /\ mono' = mono + 1
  /\ UNCHANGED <<drift, clientVars, enclaveVars>>

Adjust(d) ==
  /\ d # drift
  /\ drift' = d
  /\ UNCHANGED <<mono, clientVars, enclaveVars>>

-----------------------------------------------------------------------------

(* verify_nitro_attestation.                                               *)

(* Only the last certificate is a leaf; the others may sign certificates.  *)
Role(ch, i) == ch[i].ca = (i < Len(ch))

(* The first certificate is the pinned one.                                *)
Pinned(ch) == ch[1] = Root

(* Each certificate is signed by the one before it, nothing is listed      *)
(* twice, and all are valid at the client's time.                          *)
ChainValid(ch, now) ==
  /\ Pinned(ch)
  /\ \A i, j \in DOMAIN ch : i # j => ch[i] # ch[j]
  /\ \A i \in DOMAIN ch :
       /\ Role(ch, i)
       /\ i > 1 => ch[i].issuer = ch[i - 1].subject
       /\ now <= ch[i].until

(* min(c.not_valid_after_utc ...) over the whole path.                     *)
Expires(ch) ==
  CHOOSE u \in {ch[i].until : i \in DOMAIN ch} : \A i \in DOMAIN ch : u <= ch[i].until

(* Mutant: nothing is allowed for a clock that is behind the device's.     *)
FreshMutant(stamp, now) == now - MaxAge <= stamp /\ stamp <= now

Fresh(stamp, now) == now - MaxAge <= stamp /\ stamp <= now + MaxSkew

(* Every pinned register is in the document with the pinned digest.        *)
PcrsMatch(pcrs) == \A i \in DOMAIN Pins : i \in DOMAIN pcrs /\ pcrs[i] = Pins[i]

(* The pins are the owner's image, and tell it from every other.           *)
ASSUME PinsAssumption == PcrsMatch(OwnPcrs) /\ \A m \in ForeignPcrs : ~ PcrsMatch(m)

(* Mutant: evidence for another challenge will do.                         *)
AnyNonce(d) == TRUE

ForChallenge(d) == d.nonce = hello

-----------------------------------------------------------------------------

(* The client.                                                             *)

(* self._gate can be taken.                                                *)
GateFree == accept = Resting /\ finish.at # "checking"

BeginAttestation(n) ==
  /\ GateFree
  /\ n \notin issued
  /\ issued' = issued \cup {n}
  /\ lease' = None
  /\ hello' = n /\ helloAt' = mono
  /\ finish' = Resting
  /\ UNCHANGED <<mono, drift, asked, accept, enclaveVars>>

(* The challenge is pending and young enough, by the monotonic clock.      *)
Current == mono - helloAt <= Handshake

(* A document that the host can show.                                      *)
HostDocument == [nonce : issued, stamp : {mono}, pcrs : {OwnPcrs},
                 chain : {ch \in Chains : ch[Len(ch)].subject \in HostKeys}]

(* accept_attestation up to the call of verify_nitro_attestation.          *)
AcceptStart(d) ==
  /\ GateFree
  /\ hello # None
  /\ Current
  /\ accept' = [at |-> "checked", doc |-> d]
  /\ UNCHANGED <<mono, drift, hello, helloAt, issued, asked, lease, finish, enclaveVars>>

(* Everything but the age is right.                                        *)
Acceptable(d, now) ==
  now >= 0 /\ ChainValid(d.chain, now) /\ PcrsMatch(d.pcrs) /\ ForChallenge(d)

(* verify_nitro_attestation reads the wall clock once, and passes ...      *)
Verify ==
  /\ accept.at = "checked"
  /\ Acceptable(accept.doc, Wall)
  /\ Fresh(accept.doc.stamp, Wall)
  /\ accept' = [at |-> "verified", doc |-> accept.doc, expires |-> Expires(accept.doc.chain)]
  /\ UNCHANGED <<mono, drift, hello, helloAt, issued, asked, lease, finish, enclaveVars>>

(* ... or refuses evidence only for its age, kept until it is reported, ...*)
RefuseAge ==
  /\ accept.at = "checked"
  /\ Acceptable(accept.doc, Wall)
  /\ ~ Fresh(accept.doc.stamp, Wall)
  /\ accept' = [at |-> "stale", doc |-> accept.doc, drift |-> drift]
  /\ UNCHANGED <<mono, drift, hello, helloAt, issued, asked, lease, finish, enclaveVars>>

(* ... or for anything else.  The challenge stays pending.                 *)
Refuse ==
  /\ \/ accept.at = "checked" /\ ~ Acceptable(accept.doc, Wall)
     \/ accept.at = "stale"
  /\ accept' = Resting
  /\ UNCHANGED <<mono, drift, hello, helloAt, issued, asked, lease, finish, enclaveVars>>

Least(a, b) == IF a <= b THEN a ELSE b

(* remaining, by the wall clock.                                           *)
Remaining(expires) == Least(MaxSession, expires - Wall)

(* The second look at the handshake.                                       *)
Confirm ==
  /\ accept.at = "verified"
  /\ IF Remaining(accept.expires) > 0 /\ Current
     THEN accept' = [at |-> "confirmed", doc |-> accept.doc, expires |-> accept.expires,
                     remaining |-> Remaining(accept.expires), confirmed |-> mono, drift |-> drift]
     ELSE accept' = Resting
  /\ UNCHANGED <<mono, drift, hello, helloAt, issued, asked, lease, finish, enclaveVars>>

(* The session is open, until a deadline by the monotonic clock.           *)
Open ==
  /\ accept.at = "confirmed"
  /\ lease' = [doc |-> accept.doc, expires |-> accept.expires,
               deadline |-> mono + accept.remaining,
               confirmed |-> accept.confirmed, drift |-> accept.drift, opened |-> mono]
  /\ hello' = None
  /\ accept' = Resting
  /\ UNCHANGED <<mono, drift, helloAt, issued, asked, finish, enclaveVars>>

(* _require_session.                                                       *)
InSession == lease # None /\ mono < lease.deadline /\ Wall < lease.expires

(* begin_query signs what was encrypted if the session is still in force.  *)
BeginQuery ==
  /\ GateFree
  /\ InSession
  /\ asked' = asked \cup {lease.doc.nonce}
  /\ UNCHANGED <<mono, drift, hello, helloAt, issued, accept, lease, finish, enclaveVars>>

(* finish_query: the first check, with the binding of the receipt ...      *)
FinishStart(r) ==
  /\ GateFree
  /\ InSession
  /\ r.nonce = lease.doc.nonce
  /\ finish' = [at |-> "checking", receipt |-> r, time |-> mono]
  /\ UNCHANGED <<mono, drift, hello, helloAt, issued, asked, accept, lease, enclaveVars>>

(* ... and, after the signature, the last one before private decryption.   *)
FinishCheck ==
  /\ finish.at = "checking"
  /\ finish' = IF InSession
               THEN [at |-> "decrypting", receipt |-> finish.receipt, time |-> mono]
               ELSE Resting
  /\ UNCHANGED <<mono, drift, hello, helloAt, issued, asked, accept, lease, enclaveVars>>

-----------------------------------------------------------------------------

(* The enclave.                                                            *)

(* self._lock can be taken.                                                *)
LockFree == attesting = None /\ search = None

(* attest: a signed challenge, once, and the evidence of the NSM ...       *)
Attest(n) ==
  /\ LockFree
  /\ n \in issued
  /\ ~ \E d \in evidence : d.nonce = n /\ d.pcrs = OwnPcrs
  /\ evidence' = evidence \cup
       {[nonce |-> n, stamp |-> mono, chain |-> OwnChain, pcrs |-> OwnPcrs]}
  /\ attesting' = n
  /\ UNCHANGED <<mono, drift, clientVars, server, search, receipts>>

(* ... then the new session, whose deadline starts when the NSM is done.   *)
AttestEnd ==
  /\ attesting # None
  /\ server' = [nonce |-> attesting, deadline |-> mono + SessionSeconds]
  /\ attesting' = None
  /\ UNCHANGED <<mono, drift, clientVars, evidence, search, receipts>>

(* Somebody's enclave of another image is asked for evidence on n.         *)
ForeignAttest(n, m) ==
  /\ n \in issued
  /\ \A d \in evidence : d.pcrs = OwnPcrs
  /\ evidence' = evidence \cup {[nonce |-> n, stamp |-> mono, chain |-> OwnChain, pcrs |-> m]}
  /\ UNCHANGED <<mono, drift, clientVars, attesting, server, search, receipts>>

(* search: a request that the client signed in the session in force, which *)
(* the host delivers now.                                                  *)
SearchStart ==
  /\ LockFree
  /\ server # None
  /\ Cardinality(receipts) < MaxReceipts
  /\ server.nonce \in asked
  /\ mono < server.deadline
  /\ search' = [nonce |-> server.nonce, began |-> mono]
  /\ UNCHANGED <<mono, drift, clientVars, evidence, attesting, server, receipts>>

(* Mutant: the session is not looked at again after the evaluation.        *)
NoRecheck == TRUE

(* The session outlived the evaluation.                                    *)
StillInForce == mono < server.deadline

(* The evaluation ends; without a session there is no receipt, though the  *)
(* ticket of the query is spent.                                           *)
SearchEnd ==
  /\ search # None
  /\ receipts' = IF StillInForce
                 THEN receipts \cup
                        {[nonce |-> search.nonce, began |-> search.began, ended |-> mono]}
                 ELSE receipts
  /\ search' = None
  /\ UNCHANGED <<mono, drift, clientVars, evidence, attesting, server>>

NitroNext ==
  \/ Tick
  \/ \E d \in Drifts : Adjust(d)
  \/ \E n \in Nonces : BeginAttestation(n) \/ Attest(n)
  \/ \E n \in Nonces, m \in ForeignPcrs : ForeignAttest(n, m)
  \/ \E d \in evidence \cup HostDocument : AcceptStart(d)
  \/ Verify \/ RefuseAge \/ Refuse \/ Confirm \/ Open
  \/ \E r \in receipts : FinishStart(r)
  \/ BeginQuery \/ FinishCheck
  \/ AttestEnd
  \/ SearchStart \/ SearchEnd

NitroSpec == NitroInit /\ [][NitroNext]_nitroVars

-----------------------------------------------------------------------------

(* A session is with the image the owner built, though the host runs other *)
(* images on the same kind of machine and has certificates of its own      *)
(* ("exact PCR pins", "There is no ... caller-selected root").             *)
SessionWithOwnImage == lease # None => lease.doc \in evidence /\ lease.doc.pcrs = OwnPcrs

(* A session rests on one measurement of its own enrolment: the evidence   *)
(* was made after the challenge and confirmed within the handshake, by the *)
(* monotonic clock, whatever the wall clock did and whatever old evidence  *)
(* the host kept ("Evidence age is checked at enrollment").                *)
EvidenceOfEnrolment == lease # None =>
  /\ lease.doc.nonce \in issued
  /\ helloAt <= lease.doc.stamp
  /\ lease.confirmed - helloAt <= Handshake

(* What is decrypted is decrypted at most MaxSession after the session was *)
(* opened, and was computed by the enclave in the lease that this evidence *)
(* began ("limits subsequent receipt acceptance without renewal"; "An      *)
(* expired computation produces no receipt").                              *)
DecryptedUnderLease == finish.at = "decrypting" /\ lease # None =>
  /\ finish.time - lease.opened < MaxSession
  /\ lease.doc.stamp <= finish.receipt.began
  /\ server # None /\ server.nonce = lease.doc.nonce => finish.receipt.ended < server.deadline

(* If the wall clock was right when the session was confirmed, putting it  *)
(* back later does not prolong the session beyond any of the certificates  *)
(* ("Enforce both monotonic lease expiry and certificate wall-clock        *)
(* expiry"): only the pause between two adjacent lines is lost.            *)
CertificatesInForce == finish.at = "decrypting" /\ lease # None /\ lease.drift = 0 =>
  \A i \in DOMAIN lease.doc.chain :
    finish.time - (lease.opened - lease.confirmed) < lease.doc.chain[i].until

(* A session is with the image the owner built and rests on evidence of    *)
(* its own enrolment, whatever documents, images and certificates the host *)
(* has and whatever the wall clock does.                                   *)
SessionsRestOnEvidence == EvidenceTypeOK /\ SessionWithOwnImage /\ EvidenceOfEnrolment

(* What is decrypted was computed and is decrypted within the lease, and   *)
(* putting the wall clock back does not outlive a certificate.             *)
DecryptedInTime == DecryptedUnderLease /\ CertificatesInForce

(* Evidence for the pending challenge is not refused for its age while the *)
(* handshake is current, if the clocks agree within the skew that the      *)
(* policy allows and the policy leaves room for the handshake.             *)
PromptEvidenceIsFresh == Handshake + MaxSkew <= MaxAge =>
  ~ (accept.at = "stale" /\ Current /\ accept.drift \in - MaxSkew .. MaxSkew)
=============================================================================
