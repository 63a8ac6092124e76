---------------------------- MODULE NitroProofs -----------------------------
(***************************************************************************)
(* Nitro evidence.  The lock of NitroNSM keeps library calls apart from    *)
(* each other and from the closing of the device, for any number of        *)
(* threads and any lengths the device reports; and a session of the client *)
(* rests on evidence of its own enrolment and ends in time, for any        *)
(* clocks, documents, images and certificates.                             *)
(***************************************************************************)
EXTENDS NitroNSM, NitroEvidence, WellFoundedInduction, TLAPS

(* The device.                                                             *)

Steps == {"waiting", "locked", "calling", "failed", "closed"}

Plain == [op : Operations, at : Steps]

Result == [op : Operations, at : {"returned"}, length : Lengths]

State == {Free} \cup Plain \cup Result

Closing == \E t \in Threads : thread[t].at = "calling" /\ thread[t].op = "close"

(* Only the holder of the lock is past the lock.                           *)
LockInv == \A t \in Threads :
  thread[t].at \in {"locked", "calling"} <=> lock = t

(* A call was entered with a descriptor, and the descriptor is forgotten   *)
(* only when close has closed it: the counter of exits says how far the    *)
(* one close has come.                                                     *)
DeviceInv ==
  /\ \A t \in Threads : InCall(t) => fd
  /\ ~ fd => ~ device /\ exits = 1
  /\ fd /\ Closing => exits = 1
  /\ fd /\ ~ Closing => exits = 0 /\ device

NSMInv == NSMTypeOK /\ LockInv /\ DeviceInv /\ ResultsWhole

-----------------------------------------------------------------------------

LEMMA StateShape ==
  ASSUME NSMTypeOK, NEW t \in Threads
  PROVE  /\ thread[t] \in State
         /\ thread[t].at \in Steps => thread[t] \in Plain
         /\ thread[t].at # "free" => thread[t].op \in Operations
<1>1. thread[t] \in State
  BY DEF NSMTypeOK, State, Plain, Result, Steps
<1>2. thread[t].at \in Steps => thread[t] \in Plain
  BY <1>1 DEF State, Free, Result, Steps
<1>3. thread[t].at # "free" => thread[t].op \in Operations
  BY <1>1 DEF State, Free, Result, Plain
<1>4. QED
  BY <1>1, <1>2, <1>3

(* A step changes the record of one thread only, to a plain one or to a    *)
(* result.                                                                 *)
LEMMA Updated ==
  ASSUME NSMTypeOK, NEW t \in Threads, NEW s \in State,
         thread' = [thread EXCEPT ![t] = s]
  PROVE  /\ thread' \in [Threads -> State]
         /\ thread'[t] = s
         /\ \A u \in Threads \ {t} : thread'[u] = thread[u]
  BY DEF NSMTypeOK, State, Plain, Result, Steps

LEMMA Moved ==
  ASSUME NSMTypeOK, NEW t \in Threads, thread[t].at \in Steps, NEW point \in Steps,
         thread' = [thread EXCEPT ![t].at = point]
  PROVE  /\ At(thread[t].op, point) \in State
         /\ thread' = [thread EXCEPT ![t] = At(thread[t].op, point)]
<1>1. thread[t] \in Plain
  BY StateShape
<1>2. [thread[t] EXCEPT !.at = point] = At(thread[t].op, point)
  BY <1>1 DEF Plain, At
<1>3. At(thread[t].op, point) \in Plain
  BY <1>1 DEF Plain, At
<1>4. QED
  BY <1>2, <1>3 DEF State

LEMMA NSMInitial == NSMInit => NSMInv
<1> SUFFICES ASSUME NSMInit PROVE NSMInv
  OBVIOUS
<1>1. \A t \in Threads : thread[t] = Free
  BY DEF NSMInit
<1>2. NSMTypeOK
  BY DEF NSMInit, NSMTypeOK
<1>3. LockInv
  BY <1>1, NSMAssumption DEF NSMInit, LockInv, Free
<1>4. DeviceInv /\ ResultsWhole
  BY <1>1 DEF NSMInit, DeviceInv, ResultsWhole, Closing, InCall, Free
<1>5. QED
  BY <1>2, <1>3, <1>4 DEF NSMInv
-----------------------------------------------------------------------------

LEMMA BeginStep ==
  ASSUME NSMInv, NEW t \in Threads, NEW op \in Operations, Begin(t, op)
  PROVE  NSMInv'
<1> DEFINE s == At(op, "waiting")
<1>1. s \in State
  BY DEF At, State, Plain, Steps
<1>2. /\ thread' \in [Threads -> State]
      /\ thread'[t] = s
      /\ \A u \in Threads \ {t} : thread'[u] = thread[u]
  BY <1>1, Updated DEF Begin, NSMInv
<1>3. s.at = "waiting" /\ thread[t].at \notin {"locked", "calling"}
  BY DEF At, Begin
<1>4. NSMTypeOK'
  BY <1>2 DEF Begin, NSMInv, NSMTypeOK, State, Plain, Result, Steps
<1>5. LockInv'
  BY <1>2, <1>3 DEF Begin, NSMInv, LockInv
<1>6. DeviceInv'
  BY <1>2, <1>3 DEF Begin, NSMInv, DeviceInv, Closing, InCall
<1>7. ResultsWhole'
  BY <1>2, <1>3 DEF NSMInv, ResultsWhole
<1>8. QED
  BY <1>4, <1>5, <1>6, <1>7 DEF NSMInv

LEMMA AcquireStep ==
  ASSUME NSMInv, NEW t \in Threads, Acquire(t)
  PROVE  NSMInv'
<1> DEFINE s == At(thread[t].op, "locked")
<1>1. s \in State /\ thread' = [thread EXCEPT ![t] = s]
  BY Moved DEF Acquire, MayAcquire, Steps, NSMInv
<1>2. /\ thread' \in [Threads -> State]
      /\ thread'[t] = s
      /\ \A u \in Threads \ {t} : thread'[u] = thread[u]
  BY <1>1, Updated DEF NSMInv
<1>3. s.at = "locked" /\ thread[t].at = "waiting" /\ lock = Nobody
  BY DEF At, Acquire, MayAcquire
<1>4. NSMTypeOK'
  BY <1>2 DEF Acquire, NSMInv, NSMTypeOK, State, Plain, Result, Steps
<1>5. LockInv'
  BY <1>2, <1>3, NSMAssumption DEF Acquire, NSMInv, LockInv
<1>6. DeviceInv'
  BY <1>2, <1>3 DEF Acquire, NSMInv, DeviceInv, Closing, InCall
<1>7. ResultsWhole'
  BY <1>2, <1>3 DEF NSMInv, ResultsWhole
<1>8. QED
  BY <1>4, <1>5, <1>6, <1>7 DEF NSMInv

LEMMA CallStep ==
  ASSUME NSMInv, NEW t \in Threads, Call(t)
  PROVE  NSMInv'
<1> DEFINE s == At(thread[t].op, "calling")
<1>1. s \in State /\ thread' = [thread EXCEPT ![t] = s]
  BY Moved DEF Call, Steps, NSMInv
<1>2. /\ thread' \in [Threads -> State]
      /\ thread'[t] = s
      /\ \A u \in Threads \ {t} : thread'[u] = thread[u]
  BY <1>1, Updated DEF NSMInv
<1>3. s.at = "calling" /\ s.op = thread[t].op /\ thread[t].at = "locked" /\ fd
  BY DEF At, Call, FdValid
<1>4. NSMTypeOK'
  BY <1>2 DEF Call, NSMInv, NSMTypeOK, State, Plain, Result, Steps
<1>5. LockInv'
  BY <1>2, <1>3 DEF Call, NSMInv, LockInv
<1>6. ~ Closing
  BY <1>3 DEF NSMInv, LockInv, Closing
<1>7. \A u \in Threads : thread'[u].at = "calling" <=> u = t
  BY <1>2, <1>3 DEF NSMInv, LockInv
<1>8. DeviceInv'
  BY <1>2, <1>3, <1>6, <1>7 DEF Call, NSMInv, DeviceInv, Closing, InCall
<1>9. ResultsWhole'
  BY <1>2, <1>3 DEF NSMInv, ResultsWhole
<1>10. QED
  BY <1>4, <1>5, <1>8, <1>9 DEF NSMInv
(* A thread that gives the lock back without having touched the device.    *)
LEMMA LeaveStep ==
  ASSUME NSMInv, NEW t \in Threads, NEW s \in State,
         thread[t].at \in {"locked", "calling"},
         thread[t].at = "calling" => thread[t].op # "close",
         s.at \in {"failed", "closed", "returned"},
         s.at = "returned" =>
           IF s.op = "attest" THEN s.length \in 1 .. MaxDocument
           ELSE s.op = "random_seed" /\ s.length = SeedLength,
         thread' = [thread EXCEPT ![t] = s],
         lock' = Nobody,
         UNCHANGED <<fd, device, exits>>
  PROVE  NSMInv'
<1>1. /\ thread' \in [Threads -> State]
      /\ thread'[t] = s
      /\ \A u \in Threads \ {t} : thread'[u] = thread[u]
  BY Updated DEF NSMInv
<1>2. NSMTypeOK'
  BY <1>1 DEF NSMInv, NSMTypeOK, State, Plain, Result, Steps
<1>3. \A u \in Threads : thread'[u].at \notin {"locked", "calling"}
  BY <1>1 DEF NSMInv, LockInv
<1>4. LockInv'
  BY <1>3, NSMAssumption DEF LockInv
<1>5. ~ Closing /\ ~ Closing'
  BY <1>3 DEF NSMInv, LockInv, Closing
<1>6. DeviceInv'
  BY <1>3, <1>5 DEF NSMInv, DeviceInv, InCall
<1>7. ResultsWhole'
  BY <1>1 DEF NSMInv, ResultsWhole
<1>8. QED
  BY <1>2, <1>4, <1>6, <1>7 DEF NSMInv

LEMMA ClosedStep ==
  ASSUME NSMInv, NEW t \in Threads, Closed(t)
  PROVE  NSMInv'
<1> DEFINE point == IF thread[t].op = "close" THEN "closed" ELSE "failed"
<1> DEFINE s == At(thread[t].op, point)
<1>1. point \in {"closed", "failed"} /\ thread[t].at = "locked"
  BY DEF Closed
<1>2. s \in State /\ thread' = [thread EXCEPT ![t] = s]
  BY <1>1, Moved DEF Closed, Steps, NSMInv
<1>3. s.at \in {"failed", "closed"}
  BY <1>1 DEF At
<1>4. lock' = Nobody /\ UNCHANGED <<fd, device, exits>>
  BY DEF Closed
<1> HIDE DEF s
<1>5. QED
  BY <1>1, <1>2, <1>3, <1>4, LeaveStep

LEMMA CallFailsStep ==
  ASSUME NSMInv, NEW t \in Threads, CallFails(t)
  PROVE  NSMInv'
<1> DEFINE s == At(thread[t].op, "failed")
<1>1. thread[t].at = "calling" /\ thread[t].op # "close"
  BY DEF CallFails
<1>2. s \in State /\ thread' = [thread EXCEPT ![t] = s]
  BY <1>1, Moved DEF CallFails, Steps, NSMInv
<1>3. s.at = "failed"
  BY DEF At
<1>4. lock' = Nobody /\ UNCHANGED <<fd, device, exits>>
  BY DEF CallFails
<1> HIDE DEF s
<1>5. QED
  BY <1>1, <1>2, <1>3, <1>4, LeaveStep

LEMMA ReturnStep ==
  ASSUME NSMInv, NEW t \in Threads, NEW length \in Lengths, Return(t, length)
  PROVE  NSMInv'
<1> DEFINE s == IF LengthOK(thread[t].op, length)
                THEN [op |-> thread[t].op, at |-> "returned", length |-> length]
                ELSE At(thread[t].op, "failed")
<1>1. /\ thread[t].at = "calling" /\ thread[t].op # "close"
      /\ thread' = [thread EXCEPT ![t] = s]
      /\ lock' = Nobody /\ UNCHANGED <<fd, device, exits>>
  BY DEF Return
<1>2. thread[t].op \in {"random_seed", "attest"}
  BY <1>1, StateShape DEF NSMInv, Operations
<1>3. s \in State
  BY <1>2 DEF State, Plain, Result, At, Steps, Operations
<1>4. s.at \in {"failed", "returned"}
  BY DEF At
<1>5. s.at = "returned" =>
        IF s.op = "attest" THEN s.length \in 1 .. MaxDocument
        ELSE s.op = "random_seed" /\ s.length = SeedLength
  BY <1>2, NSMAssumption DEF At, LengthOK, Lengths
<1> HIDE DEF s
<1>6. QED
  BY <1>1, <1>3, <1>4, <1>5, LeaveStep

LEMMA ExitStep ==
  ASSUME NSMInv, NEW t \in Threads, Exit(t)
  PROVE  NSMInv'
<1>1. /\ thread[t].at = "calling" /\ thread[t].op = "close"
      /\ device' = FALSE /\ UNCHANGED <<fd, exits, lock, thread>>
  BY DEF Exit, At
<1>2. NSMTypeOK' /\ LockInv' /\ ResultsWhole'
  BY <1>1 DEF NSMInv, NSMTypeOK, LockInv, ResultsWhole
<1>3. fd /\ Closing /\ exits = 1
  BY <1>1 DEF NSMInv, DeviceInv, Closing, InCall
<1>4. DeviceInv'
  BY <1>1, <1>3 DEF NSMInv, DeviceInv, Closing, InCall
<1>5. QED
  BY <1>2, <1>4 DEF NSMInv

LEMMA ForgetStep ==
  ASSUME NSMInv, NEW t \in Threads, Forget(t)
  PROVE  NSMInv'
<1> DEFINE s == At(thread[t].op, "closed")
<1>1. /\ thread[t].at = "calling" /\ thread[t].op = "close"
      /\ ~ device /\ fd' = FALSE /\ lock' = Nobody /\ UNCHANGED <<device, exits>>
      /\ thread' = [thread EXCEPT ![t].at = "closed"]
  BY DEF Forget, At
<1>2. s \in State /\ thread' = [thread EXCEPT ![t] = s]
  BY <1>1, Moved DEF Steps, NSMInv
<1>3. /\ thread' \in [Threads -> State]
      /\ thread'[t] = s
      /\ \A u \in Threads \ {t} : thread'[u] = thread[u]
  BY <1>2, Updated DEF NSMInv
<1>4. s.at = "closed"
  BY DEF At
<1>5. NSMTypeOK'
  BY <1>1, <1>3 DEF NSMInv, NSMTypeOK, State, Plain, Result, Steps
<1>6. \A u \in Threads : thread'[u].at \notin {"locked", "calling"}
  BY <1>1, <1>3, <1>4 DEF NSMInv, LockInv
<1>7. LockInv'
  BY <1>1, <1>6, NSMAssumption DEF LockInv
<1>8. exits = 1
  BY <1>1 DEF NSMInv, DeviceInv, Closing, InCall
<1>9. DeviceInv'
  BY <1>1, <1>6, <1>8 DEF DeviceInv, InCall
<1>10. ResultsWhole'
  BY <1>3, <1>4 DEF NSMInv, ResultsWhole
<1>11. QED
  BY <1>5, <1>7, <1>9, <1>10 DEF NSMInv

-----------------------------------------------------------------------------

LEMMA NSMInductive == NSMSpec => []NSMInv
<1>1. NSMInv /\ [NSMNext]_nsmVars => NSMInv'
  <2> SUFFICES ASSUME NSMInv, [NSMNext]_nsmVars PROVE NSMInv'
    OBVIOUS
  <2>1. CASE UNCHANGED nsmVars
    BY <2>1 DEF nsmVars, NSMInv, NSMTypeOK, LockInv, DeviceInv, ResultsWhole, Closing,
                InCall
  <2>2. CASE NSMNext
    BY <2>2, BeginStep, AcquireStep, CallStep, ClosedStep, CallFailsStep, ExitStep,
       ForgetStep, ReturnStep DEF NSMNext, Proceed
  <2>3. QED
    BY <2>1, <2>2
<1>2. QED
  BY NSMInitial, <1>1, PTL DEF NSMSpec

(* The variables of the module have their types in every reachable state.  *)
THEOREM NSMTypeCorrect == NSMSpec => []NSMTypeOK
<1>1. NSMInv => NSMTypeOK
  BY DEF NSMInv
<1>2. QED
  BY NSMInductive, <1>1, PTL

(* Only the lock orders random_seed, attest and close, and it is enough:   *)
(* while one of the first two is in the library the device is open and     *)
(* nothing else is there.                                                  *)
THEOREM CallsKeepTheirDevice == NSMSpec => []NoCallOnClosedDevice
<1>1. NSMInv => NoCallOnClosedDevice
  <2> SUFFICES ASSUME NSMInv, NEW t \in Threads, InCall(t), thread[t].op # "close"
               PROVE  device /\ \A u \in Threads \ {t} : ~ InCall(u)
    BY DEF NoCallOnClosedDevice
  <2>1. \A u \in Threads : InCall(u) => u = t
    BY DEF NSMInv, LockInv, InCall
  <2>2. fd /\ ~ Closing
    BY <2>1 DEF NSMInv, DeviceInv, Closing, InCall
  <2>3. QED
    BY <2>1, <2>2 DEF NSMInv, DeviceInv
<1>2. QED
  BY NSMInductive, <1>1, PTL

(* nsm_lib_exit is called once, however many threads close the device.     *)
THEOREM DeviceClosedOnce == NSMSpec => []ClosedOnce
<1>1. NSMInv => ClosedOnce
  BY DEF NSMInv, DeviceInv, ClosedOnce
<1>2. QED
  BY NSMInductive, <1>1, PTL

(* What random_seed and attest return has a length the caller asked for.   *)
THEOREM NSMResultsWhole == NSMSpec => []ResultsWhole
<1>1. NSMInv => ResultsWhole
  BY DEF NSMInv
<1>2. QED
  BY NSMInductive, <1>1, PTL

-----------------------------------------------------------------------------

(* The evidence.                                                           *)

(* Documents of an NSM are for challenges that were sent, after they were; *)
(* the enclave of the client makes one for each.                           *)
EvidenceInv ==
  /\ \A d \in evidence :
       /\ d.nonce \in issued
       /\ d.stamp <= mono
       /\ d.nonce = hello => helloAt <= d.stamp
  /\ \A d, e \in evidence :
       d.pcrs = OwnPcrs /\ e.pcrs = OwnPcrs /\ d.nonce = e.nonce => d = e

(* A challenge ends the lease before it, and with it what was decrypting.  *)
ChallengeInv ==
  /\ helloAt <= mono
  /\ hello \in issued \cup {None}
  /\ hello # None => lease = None
  /\ lease = None => finish = Resting

HostChain(ch) == ch[Len(ch)].subject \in HostKeys

Within(expires, ch) == \A i \in DOMAIN ch : expires <= ch[i].until

(* Only evidence for the challenge that is pending gets past the checks.   *)
Proven(d) == d \in evidence /\ d.pcrs = OwnPcrs /\ d.nonce = hello

RoomForSkew(dr) == Handshake + MaxSkew <= MaxAge /\ dr \in - MaxSkew .. MaxSkew

AcceptInv ==
  /\ accept.at # "rest" => hello # None /\ (accept.doc \in evidence \/ HostChain(accept.doc.chain))
  /\ accept.at \in {"verified", "confirmed", "stale"} => Proven(accept.doc)
  /\ accept.at \in {"verified", "confirmed"} => Within(accept.expires, accept.doc.chain)
  /\ accept.at = "confirmed" =>
       /\ accept.confirmed <= mono
       /\ accept.confirmed - helloAt <= Handshake
       /\ accept.remaining <= accept.expires - accept.confirmed - accept.drift
  /\ accept.at = "stale" /\ RoomForSkew(accept.drift) => ~ Current

LeaseInv == lease # None =>
  /\ lease.doc \in evidence /\ lease.doc.pcrs = OwnPcrs
  /\ helloAt <= lease.doc.stamp
  /\ lease.confirmed - helloAt <= Handshake
  /\ lease.deadline <= lease.opened + MaxSession
  /\ lease.deadline - lease.opened <= lease.expires - lease.confirmed - lease.drift
  /\ Within(lease.expires, lease.doc.chain)

(* The enclave has made evidence for the challenge n by the time t.        *)
Attested(n, t) == \E d \in evidence : d.nonce = n /\ d.pcrs = OwnPcrs /\ d.stamp <= t

EnclaveInv ==
  /\ server # None => Attested(server.nonce, mono)
  /\ search # None =>
       server # None /\ search.nonce = server.nonce /\ Attested(search.nonce, search.began)
  /\ attesting # None =>
       search = None /\ Attested(attesting, mono) /\ \A r \in receipts : r.nonce # attesting
  /\ \A r \in receipts :
       /\ Attested(r.nonce, r.began)
       /\ server # None /\ server.nonce = r.nonce => r.ended < server.deadline

FinishInv == finish # Resting =>
  /\ finish.receipt \in receipts
  /\ finish.receipt.nonce = lease.doc.nonce
  /\ finish.at = "decrypting" => finish.time < lease.deadline

NitroInv ==
  EvidenceTypeOK /\ EvidenceInv /\ ChallengeInv /\ AcceptInv /\ LeaseInv /\ EnclaveInv /\ FinishInv

-----------------------------------------------------------------------------

(* A set of natural numbers that is not empty has a least one.             *)
LEMMA LeastOfNats ==
  ASSUME NEW T \in SUBSET Nat, T # {}
  PROVE  \E m \in T : \A k \in T : m <= k
<1> DEFINE R == {ss \in Nat \X Nat : ss[1] < ss[2]}
<1>1. IsWellFoundedOn(R, Nat)
  BY NatLessThanWellFounded DEF OpToRel
<1> HIDE DEF R
<1>2. PICK m \in T : \A k \in T : ~ (<<k, m>> \in R)
  BY <1>1, WFMin
<1>3. \A k \in T : ~ (k < m)
  BY <1>2 DEF R
<1>4. QED
  BY <1>3

(* No chain that the checks accept ends with a certificate for a key of    *)
(* the host: its first certificate for one would be signed by an authority *)
(* that the host has the key of, or be the pinned root.                    *)
LEMMA HostChainRefused ==
  ASSUME NEW ch \in Chains, NEW now, ChainValid(ch, now)
  PROVE  ~ HostChain(ch)
<1> DEFINE T == {i \in 1 .. Len(ch) : ch[i].subject \in HostKeys}
<1>1. Len(ch) \in Nat \ {0} /\ DOMAIN ch = 1 .. Len(ch)
  BY ChainAssumption
<1>2. T \in SUBSET Nat
  BY <1>1
<1>3. T = {}
  <2> SUFFICES ASSUME T # {} PROVE FALSE
    OBVIOUS
  <2> HIDE DEF T
  <2>1. PICK m \in T : \A k \in T : m <= k
    BY <1>2, LeastOfNats
  <2> USE DEF T
  <2>2. m # 1
    BY AuthorityAssumption DEF ChainValid, Pinned
  <2>3. m \in 2 .. Len(ch) /\ m - 1 \in 1 .. Len(ch)
    BY <1>1, <2>2
  <2>4. ch[m].issuer = ch[m - 1].subject
    BY <1>1, <2>3 DEF ChainValid
  <2>5. ch[m - 1].ca = (m - 1 < Len(ch)) /\ m - 1 < Len(ch)
    BY <1>1, <2>3 DEF ChainValid, Role
  <2>6. m - 1 \in T
    BY <2>3, <2>4, <2>5, AuthorityAssumption
  <2>7. QED
    BY <1>2, <2>1, <2>3, <2>6
<1>4. QED
  BY <1>1, <1>3 DEF HostChain

(* min over the certificates of a chain.                                   *)
LEMMA ExpiresIsLeast ==
  ASSUME NEW ch \in Chains
  PROVE  Expires(ch) \in Expiry /\ Within(Expires(ch), ch)
<1> DEFINE T == {ch[i].until : i \in DOMAIN ch}
<1>1. 1 \in DOMAIN ch /\ \A i \in DOMAIN ch : ch[i].until \in Expiry
  <2>1. Len(ch) \in Nat \ {0} /\ DOMAIN ch = 1 .. Len(ch)
    BY ChainAssumption
  <2>2. QED
    BY <2>1, ChainAssumption
<1>2. T # {} /\ T \subseteq Expiry /\ T \in SUBSET Nat
  BY <1>1, NitroAssumption DEF Expiry
<1> HIDE DEF T
<1>3. PICK m \in T : \A k \in T : m <= k
  BY <1>2, LeastOfNats
<1> USE DEF T
<1>4. \A i \in DOMAIN ch : m <= ch[i].until
  BY <1>3
<1>5. Expires(ch) \in T /\ \A i \in DOMAIN ch : Expires(ch) <= ch[i].until
  BY <1>4 DEF Expires
<1>6. QED
  BY <1>2, <1>5 DEF Within

LEMMA Numbers ==
  /\ Times \subseteq Int /\ Expiry \subseteq Int /\ Drifts \subseteq Int
  /\ 1 .. MaxSession \subseteq Int
  /\ MaxSession \in Int /\ MaxSkew \in Int /\ MaxAge \in Int /\ Handshake \in Int
<1>1. MaxTime \in Nat /\ Drifts \subseteq Int
  BY NitroAssumption
<1>2. QED
  BY <1>1, PolicyAssumption DEF Times, Expiry

LEMMA AcceptShape ==
  ASSUME EvidenceTypeOK
  PROVE  /\ accept.at = "rest" <=> accept = Resting
         /\ accept.at # "rest" => accept.doc \in Document
         /\ accept.at \in {"verified", "confirmed"} => accept.expires \in Expiry
         /\ accept.at = "confirmed" => /\ accept.remaining \in 1 .. MaxSession
                                       /\ accept.confirmed \in Times
                                       /\ accept.drift \in Drifts
         /\ accept.at = "stale" => accept.drift \in Drifts
  BY DEF EvidenceTypeOK, Resting

LEMMA FinishShape ==
  ASSUME EvidenceTypeOK
  PROVE  /\ finish.at = "rest" <=> finish = Resting
         /\ finish.at \in {"rest", "checking", "decrypting"}
         /\ finish # Resting => finish.receipt \in Receipt /\ finish.time \in Times
  BY DEF EvidenceTypeOK, Resting

LEMMA NitroInitial == NitroInit => NitroInv
<1> SUFFICES ASSUME NitroInit PROVE NitroInv
  OBVIOUS
<1>1. EvidenceTypeOK
  BY NitroAssumption DEF NitroInit, EvidenceTypeOK, Times
<1>2. QED
  BY <1>1 DEF NitroInit, NitroInv, EvidenceInv, ChallengeInv, AcceptInv, LeaseInv, EnclaveInv,
    FinishInv, Resting

-----------------------------------------------------------------------------

LEMMA TickStep == NitroInv /\ Tick => NitroInv'
<1> SUFFICES ASSUME NitroInv, Tick PROVE NitroInv'
  OBVIOUS
<1>1. /\ mono' = mono + 1 /\ mono \in Int /\ helloAt \in Int
      /\ UNCHANGED <<drift, hello, helloAt, issued, asked, accept, lease, finish,
                     evidence, attesting, server, search, receipts>>
  BY NitroAssumption DEF Tick, clientVars, enclaveVars, NitroInv, EvidenceTypeOK, Times
<1>2. EvidenceTypeOK'
  BY <1>1, NitroAssumption DEF Tick, NitroInv, EvidenceTypeOK, Times
<1>3. EvidenceInv' /\ ChallengeInv'
  BY <1>1 DEF NitroInv, EvidenceInv, ChallengeInv, EvidenceTypeOK, Document, Times
<1>4. AcceptInv'
  BY <1>1, AcceptShape, PolicyAssumption DEF NitroInv, AcceptInv, Proven, Current, Times
<1>5. LeaseInv' /\ FinishInv'
  BY <1>1 DEF NitroInv, LeaseInv, FinishInv
<1>6. EnclaveInv'
  BY <1>1 DEF NitroInv, EnclaveInv, Attested, EvidenceTypeOK, Document, Times
<1>7. QED
  BY <1>2, <1>3, <1>4, <1>5, <1>6 DEF NitroInv

LEMMA AdjustStep == ASSUME NitroInv, NEW d \in Drifts, Adjust(d) PROVE NitroInv'
<1>1. /\ drift' = d
      /\ UNCHANGED <<mono, hello, helloAt, issued, asked, accept, lease, finish,
                     evidence, attesting, server, search, receipts>>
  BY DEF Adjust, clientVars, enclaveVars
<1>2. QED
  BY <1>1 DEF NitroInv, EvidenceTypeOK, EvidenceInv, ChallengeInv, AcceptInv, Proven, Current,
    LeaseInv, FinishInv, EnclaveInv, Attested

(* A new challenge ends the lease.  No document is for it yet.             *)
LEMMA BeginAttestationStep ==
  ASSUME NitroInv, NEW n \in Nonces, BeginAttestation(n) PROVE NitroInv'
<1>1. /\ accept = Resting /\ n \notin issued /\ issued' = issued \cup {n}
      /\ lease' = None /\ hello' = n /\ helloAt' = mono /\ finish' = Resting
      /\ UNCHANGED <<mono, drift, asked, accept, evidence, attesting, server, search, receipts>>
  BY DEF BeginAttestation, GateFree, enclaveVars
<1>2. EvidenceTypeOK'
  BY <1>1 DEF NitroInv, EvidenceTypeOK
<1>3. EvidenceInv' /\ ChallengeInv'
  BY <1>1 DEF NitroInv, EvidenceTypeOK, EvidenceInv, ChallengeInv, Times
<1>4. AcceptInv' /\ LeaseInv' /\ FinishInv'
  BY <1>1 DEF AcceptInv, LeaseInv, FinishInv, Resting
<1>5. EnclaveInv'
  BY <1>1 DEF NitroInv, EnclaveInv, Attested
<1>6. QED
  BY <1>2, <1>3, <1>4, <1>5 DEF NitroInv

(* The documents of the host's own signing are the ones under its chains.  *)
LEMMA AcceptStartStep ==
  ASSUME NitroInv, NEW d \in evidence \cup HostDocument, AcceptStart(d) PROVE NitroInv'
<1>1. /\ accept = Resting /\ hello # None
      /\ accept' = [at |-> "checked", doc |-> d]
      /\ UNCHANGED <<mono, drift, hello, helloAt, issued, asked, lease, finish,
                     evidence, attesting, server, search, receipts>>
  BY DEF AcceptStart, GateFree, enclaveVars
<1>2. d \in Document /\ (d \in evidence \/ HostChain(d.chain))
  BY DEF NitroInv, EvidenceTypeOK, HostDocument, Document, HostChain
<1>3. EvidenceTypeOK'
  BY <1>1, <1>2 DEF NitroInv, EvidenceTypeOK
<1>4. AcceptInv'
  BY <1>1, <1>2 DEF AcceptInv
<1>5. QED
  BY <1>1, <1>3, <1>4 DEF NitroInv, EvidenceInv, ChallengeInv, LeaseInv, FinishInv, EnclaveInv,
    Attested

(* What passes everything but the look at its age is a document of the     *)
(* owner's image, from an NSM, for the pending challenge.                  *)
LEMMA AcceptableIsProven ==
  ASSUME NitroInv, accept.at = "checked", Acceptable(accept.doc, Wall)
  PROVE  Proven(accept.doc)
<1>1. accept.doc \in Document /\ (accept.doc \in evidence \/ HostChain(accept.doc.chain))
  BY AcceptShape DEF NitroInv, AcceptInv
<1>2. accept.doc.chain \in Chains /\ accept.doc.pcrs \in {OwnPcrs} \cup ForeignPcrs
  BY <1>1 DEF Document
<1>3. ~ HostChain(accept.doc.chain)
  BY <1>2, HostChainRefused DEF Acceptable
<1>4. accept.doc.pcrs = OwnPcrs
  BY <1>2, PinsAssumption DEF Acceptable
<1>5. QED
  BY <1>1, <1>3, <1>4 DEF Acceptable, ForChallenge, Proven

(* A step of accept_attestation that leaves all else as it is.             *)
LEMMA AcceptMoves ==
  ASSUME NitroInv, EvidenceTypeOK', AcceptInv',
         UNCHANGED <<mono, drift, hello, helloAt, issued, asked, lease, finish, enclaveVars>>
  PROVE  NitroInv'
  BY DEF NitroInv, EvidenceInv, ChallengeInv, LeaseInv, FinishInv, EnclaveInv, Attested, enclaveVars

LEMMA VerifyStep == NitroInv /\ Verify => NitroInv'
<1> SUFFICES ASSUME NitroInv, Verify PROVE NitroInv'
  OBVIOUS
<1>1. /\ accept.at = "checked"
      /\ accept' = [at |-> "verified", doc |-> accept.doc, expires |-> Expires(accept.doc.chain)]
      /\ UNCHANGED <<mono, drift, hello, helloAt, issued, asked, lease, finish, enclaveVars>>
  BY DEF Verify
<1>2. Proven(accept.doc)
  BY AcceptableIsProven DEF Verify
<1>3. accept.doc \in Document /\ accept.doc.chain \in Chains
  BY <1>1, AcceptShape DEF NitroInv, Document
<1>4. Expires(accept.doc.chain) \in Expiry /\ Within(Expires(accept.doc.chain), accept.doc.chain)
  BY <1>3, ExpiresIsLeast
<1>5. EvidenceTypeOK'
  BY <1>1, <1>3, <1>4 DEF NitroInv, EvidenceTypeOK, enclaveVars
<1>6. AcceptInv'
  <2>1. Proven(accept.doc)' /\ Within(accept.expires, accept.doc.chain)' /\ hello' # None
    BY <1>1, <1>2, <1>4 DEF Proven, Within, NitroInv, AcceptInv, enclaveVars
  <2>2. accept'.at = "verified"
    BY <1>1
  <2>3. QED
    BY <2>1, <2>2 DEF AcceptInv, Proven, Within
<1>7. QED
  BY <1>1, <1>5, <1>6, AcceptMoves

(* Evidence within the skew is refused only when the handshake is over:    *)
(* it was made after the challenge.                                        *)
LEMMA RefuseAgeStep == NitroInv /\ RefuseAge => NitroInv'
<1> SUFFICES ASSUME NitroInv, RefuseAge PROVE NitroInv'
  OBVIOUS
<1>1. /\ accept.at = "checked" /\ ~ Fresh(accept.doc.stamp, Wall)
      /\ accept' = [at |-> "stale", doc |-> accept.doc, drift |-> drift]
      /\ UNCHANGED <<mono, drift, hello, helloAt, issued, asked, lease, finish, enclaveVars>>
  BY DEF RefuseAge
<1>2. Proven(accept.doc)
  BY AcceptableIsProven DEF RefuseAge
<1>3. accept.doc \in Document /\ accept.doc.stamp \in Int
  BY <1>1, AcceptShape DEF NitroInv, Document, Times
<1>4. EvidenceTypeOK'
  BY <1>1, <1>3 DEF NitroInv, EvidenceTypeOK, enclaveVars
<1>5. ASSUME RoomForSkew(drift) PROVE ~ Current
  <2>1. mono \in Int /\ drift \in Int /\ helloAt \in Int /\ MaxSkew \in Int
        /\ MaxAge \in Int /\ Handshake \in Int
    BY NitroAssumption, PolicyAssumption DEF NitroInv, EvidenceTypeOK, Times
  <2>2. helloAt <= accept.doc.stamp /\ accept.doc.stamp <= mono
    BY <1>2 DEF Proven, NitroInv, EvidenceInv
  <2>3. Handshake + MaxSkew <= MaxAge /\ - MaxSkew <= drift /\ drift <= MaxSkew
    BY <1>5, <2>1 DEF RoomForSkew
  <2>4. QED
    BY <1>1, <1>3, <2>1, <2>2, <2>3 DEF Fresh, Wall, Current
<1>6. AcceptInv'
  <2>1. Proven(accept.doc)' /\ hello' # None
    BY <1>1, <1>2 DEF Proven, NitroInv, AcceptInv, enclaveVars
  <2>2. accept'.at = "stale" /\ accept'.drift = drift
    BY <1>1
  <2>3. (RoomForSkew(accept.drift) => ~ Current)'
    BY <1>1, <1>5, <2>2 DEF Current
  <2>4. QED
    BY <2>1, <2>2, <2>3 DEF AcceptInv, Proven, RoomForSkew
<1>7. QED
  BY <1>1, <1>4, <1>6, AcceptMoves

LEMMA RefuseStep == NitroInv /\ Refuse => NitroInv'
<1> SUFFICES ASSUME NitroInv, Refuse PROVE NitroInv'
  OBVIOUS
<1>1. /\ accept' = Resting
      /\ UNCHANGED <<mono, drift, hello, helloAt, issued, asked, lease, finish, enclaveVars>>
  BY DEF Refuse
<1>2. EvidenceTypeOK' /\ AcceptInv'
  BY <1>1 DEF NitroInv, EvidenceTypeOK, AcceptInv, Resting, enclaveVars
<1>3. QED
  BY <1>1, <1>2, AcceptMoves

LEMMA ConfirmStep == NitroInv /\ Confirm => NitroInv'
<1> SUFFICES ASSUME NitroInv, Confirm PROVE NitroInv'
  OBVIOUS
<1> DEFINE remaining == Remaining(accept.expires)
<1> DEFINE confirmed == [at |-> "confirmed", doc |-> accept.doc, expires |-> accept.expires,
                         remaining |-> remaining, confirmed |-> mono, drift |-> drift]
<1>1. /\ accept.at = "verified"
      /\ UNCHANGED <<mono, drift, hello, helloAt, issued, asked, lease, finish, enclaveVars>>
  BY DEF Confirm
<1>2. CASE accept' = Resting
  BY <1>1, <1>2, AcceptMoves DEF NitroInv, EvidenceTypeOK, AcceptInv, Resting, enclaveVars
<1>3. CASE remaining > 0 /\ Current /\ accept' = confirmed
  <2>1. /\ accept.doc \in Document /\ accept.expires \in Int /\ accept.expires \in Expiry
        /\ mono \in Int /\ drift \in Int /\ MaxSession \in Int
    BY <1>1, AcceptShape, NitroAssumption, PolicyAssumption
      DEF NitroInv, EvidenceTypeOK, Times, Expiry
  <2>2. /\ remaining \in 1 .. MaxSession
        /\ remaining <= accept.expires - mono - drift
    BY <1>3, <2>1 DEF Remaining, Least, Wall
  <2>3. EvidenceTypeOK'
    BY <1>1, <1>3, <2>1, <2>2 DEF NitroInv, EvidenceTypeOK, enclaveVars
  <2>4. Proven(accept.doc) /\ hello # None /\ Within(accept.expires, accept.doc.chain)
    BY <1>1 DEF NitroInv, AcceptInv
  <2>5. /\ accept'.at = "confirmed" /\ accept'.doc = accept.doc
        /\ accept'.expires = accept.expires /\ accept'.confirmed = mono
        /\ accept'.remaining = remaining /\ accept'.drift = drift
    BY <1>3
  <2>6. mono - helloAt <= Handshake /\ mono <= mono
    BY <1>3, <2>1 DEF Current
  <2> HIDE DEF remaining
  <2>7. AcceptInv'
    BY <1>1, <2>2, <2>4, <2>5, <2>6 DEF AcceptInv, Proven, Within, enclaveVars
  <2>8. QED
    BY <1>1, <2>3, <2>7, AcceptMoves
<1>4. QED
  BY <1>2, <1>3 DEF Confirm

LEMMA OpenStep == NitroInv /\ Open => NitroInv'
<1> SUFFICES ASSUME NitroInv, Open PROVE NitroInv'
  OBVIOUS
<1>1. /\ accept.at = "confirmed"
      /\ lease' = [doc |-> accept.doc, expires |-> accept.expires,
                   deadline |-> mono + accept.remaining,
                   confirmed |-> accept.confirmed, drift |-> accept.drift, opened |-> mono]
      /\ hello' = None /\ accept' = Resting
      /\ UNCHANGED <<mono, drift, helloAt, issued, asked, finish,
                     evidence, attesting, server, search, receipts>>
  BY DEF Open, enclaveVars
<1>2. /\ accept.doc \in Document /\ accept.expires \in Expiry /\ accept.confirmed \in Times
      /\ accept.remaining \in 1 .. MaxSession /\ accept.drift \in Drifts /\ mono \in Times
  BY <1>1, AcceptShape DEF NitroInv, EvidenceTypeOK
<1>3. mono \in Int /\ accept.remaining \in Int /\ accept.expires \in Int
      /\ accept.confirmed \in Int /\ accept.drift \in Int /\ MaxSession \in Int
  BY <1>2, Numbers
<1>4. lease' \in Lease
  BY <1>1, <1>2, <1>3 DEF Lease
<1>5. EvidenceTypeOK'
  BY <1>1, <1>4 DEF NitroInv, EvidenceTypeOK
<1>6. Proven(accept.doc) /\ Within(accept.expires, accept.doc.chain) /\ hello # None
      /\ accept.confirmed - helloAt <= Handshake
      /\ accept.remaining <= accept.expires - accept.confirmed - accept.drift
      /\ finish = Resting
  BY <1>1 DEF NitroInv, AcceptInv, ChallengeInv
<1>7. EvidenceInv' /\ ChallengeInv' /\ AcceptInv' /\ FinishInv'
  <2>1. None \notin Nonces
    BY NitroAssumption
  <2>2. EvidenceInv'
    BY <1>1, <2>1 DEF NitroInv, EvidenceInv, EvidenceTypeOK, Document
  <2>3. ChallengeInv' /\ AcceptInv' /\ FinishInv'
    BY <1>1, <1>6 DEF NitroInv, ChallengeInv, AcceptInv, FinishInv, Resting
  <2>4. QED
    BY <2>2, <2>3
<1>8. LeaseInv'
  <2>1. /\ lease'.doc = accept.doc /\ lease'.expires = accept.expires
        /\ lease'.deadline = mono + accept.remaining /\ lease'.confirmed = accept.confirmed
        /\ lease'.drift = accept.drift /\ lease'.opened = mono
    BY <1>1
  <2>2. helloAt <= accept.doc.stamp
    BY <1>6 DEF Proven, NitroInv, EvidenceInv
  <2>3. /\ lease'.deadline <= lease'.opened + MaxSession
        /\ lease'.deadline - lease'.opened <= lease'.expires - lease'.confirmed - lease'.drift
    BY <1>2, <1>3, <1>6, <2>1
  <2>4. QED
    BY <1>1, <1>6, <2>1, <2>2, <2>3 DEF LeaseInv, Proven, Within
<1>9. EnclaveInv'
  BY <1>1 DEF NitroInv, EnclaveInv, Attested
<1>10. QED
  BY <1>5, <1>7, <1>8, <1>9 DEF NitroInv

LEMMA BeginQueryStep == NitroInv /\ BeginQuery => NitroInv'
<1> SUFFICES ASSUME NitroInv, BeginQuery PROVE NitroInv'
  OBVIOUS
<1>1. /\ lease # None /\ asked' = asked \cup {lease.doc.nonce}
      /\ UNCHANGED <<mono, drift, hello, helloAt, issued, accept, lease, finish,
                     evidence, attesting, server, search, receipts>>
  BY DEF BeginQuery, InSession, enclaveVars
<1>2. lease.doc.nonce \in issued
  BY <1>1 DEF NitroInv, LeaseInv, EvidenceInv
<1>3. EvidenceTypeOK'
  BY <1>1, <1>2 DEF NitroInv, EvidenceTypeOK
<1>4. QED
  BY <1>1, <1>3 DEF NitroInv, EvidenceInv, ChallengeInv, AcceptInv, Proven, Current, LeaseInv,
    FinishInv, EnclaveInv, Attested

(* A step of finish_query that leaves all else as it is.                   *)
LEMMA FinishMoves ==
  ASSUME NitroInv, EvidenceTypeOK', FinishInv', lease # None,
         UNCHANGED <<mono, drift, hello, helloAt, issued, asked, accept, lease, enclaveVars>>
  PROVE  NitroInv'
  BY DEF NitroInv, EvidenceInv, ChallengeInv, AcceptInv, Proven, Current, LeaseInv, EnclaveInv,
    Attested, enclaveVars

LEMMA FinishStartStep == ASSUME NitroInv, NEW r \in receipts, FinishStart(r) PROVE NitroInv'
<1>1. /\ lease # None /\ r.nonce = lease.doc.nonce
      /\ finish' = [at |-> "checking", receipt |-> r, time |-> mono]
      /\ UNCHANGED <<mono, drift, hello, helloAt, issued, asked, accept, lease, enclaveVars>>
  BY DEF FinishStart, InSession
<1>2. EvidenceTypeOK'
  BY <1>1 DEF NitroInv, EvidenceTypeOK, enclaveVars
<1>3. FinishInv'
  BY <1>1 DEF FinishInv, enclaveVars
<1>4. QED
  BY <1>1, <1>2, <1>3, FinishMoves

LEMMA FinishCheckStep == NitroInv /\ FinishCheck => NitroInv'
<1> SUFFICES ASSUME NitroInv, FinishCheck PROVE NitroInv'
  OBVIOUS
<1>1. /\ finish.at = "checking" /\ finish # Resting
      /\ UNCHANGED <<mono, drift, hello, helloAt, issued, asked, accept, lease, enclaveVars>>
  BY DEF FinishCheck, Resting
<1>2. /\ finish.receipt \in receipts /\ finish.receipt \in Receipt
      /\ finish.receipt.nonce = lease.doc.nonce /\ lease # None
  BY <1>1, FinishShape DEF NitroInv, FinishInv, ChallengeInv
<1>3. CASE finish' = Resting
  <2>1. EvidenceTypeOK' /\ FinishInv'
    BY <1>1, <1>3 DEF NitroInv, EvidenceTypeOK, FinishInv, enclaveVars
  <2>2. QED
    BY <1>1, <1>2, <2>1, FinishMoves
<1>4. CASE /\ InSession
           /\ finish' = [at |-> "decrypting", receipt |-> finish.receipt, time |-> mono]
  <2>1. EvidenceTypeOK'
    BY <1>1, <1>2, <1>4 DEF NitroInv, EvidenceTypeOK, enclaveVars
  <2>2. FinishInv'
    BY <1>1, <1>2, <1>4 DEF FinishInv, InSession, enclaveVars
  <2>3. QED
    BY <1>1, <1>2, <2>1, <2>2, FinishMoves
<1>5. QED
  BY <1>3, <1>4 DEF FinishCheck

-----------------------------------------------------------------------------

(* A new document, of this moment, for a challenge that was sent, that is  *)
(* not a second one of the client's enclave.                               *)
LEMMA Signed ==
  ASSUME NitroInv, NEW n \in issued, NEW m \in {OwnPcrs} \cup ForeignPcrs,
         m = OwnPcrs => ~ \E d \in evidence : d.nonce = n /\ d.pcrs = OwnPcrs,
         evidence' = evidence \cup
           {[nonce |-> n, stamp |-> mono, chain |-> OwnChain, pcrs |-> m]},
         UNCHANGED <<mono, drift, hello, helloAt, issued, asked, accept, lease, finish,
                     server, search, receipts>>,
         attesting' \in Nonces \cup {None}
  PROVE  /\ EvidenceTypeOK' /\ EvidenceInv' /\ ChallengeInv'
         /\ AcceptInv' /\ LeaseInv' /\ FinishInv'
<1> DEFINE e == [nonce |-> n, stamp |-> mono, chain |-> OwnChain, pcrs |-> m]
<1>1. e \in Document /\ e.nonce = n /\ e.stamp = mono /\ e.pcrs = m /\ evidence' = evidence \cup {e}
  BY NitroAssumption DEF NitroInv, EvidenceTypeOK, Document
<1> HIDE DEF e
<1>2. EvidenceTypeOK'
  BY <1>1 DEF NitroInv, EvidenceTypeOK
<1>3. EvidenceInv'
  <2>1. mono <= mono /\ helloAt <= mono
    BY NitroAssumption DEF NitroInv, ChallengeInv, EvidenceTypeOK, Times
  <2>2. QED
    BY <1>1, <2>1 DEF NitroInv, EvidenceInv
<1>4. AcceptInv' /\ LeaseInv' /\ FinishInv' /\ ChallengeInv'
  BY <1>1 DEF NitroInv, AcceptInv, Proven, Current, LeaseInv, FinishInv, ChallengeInv
<1>5. QED
  BY <1>2, <1>3, <1>4

LEMMA AttestStep == ASSUME NitroInv, NEW n \in Nonces, Attest(n) PROVE NitroInv'
<1>1. /\ attesting = None /\ search = None /\ n \in issued /\ attesting' = n
      /\ ~ \E d \in evidence : d.nonce = n /\ d.pcrs = OwnPcrs
      /\ evidence' = evidence \cup
           {[nonce |-> n, stamp |-> mono, chain |-> OwnChain, pcrs |-> OwnPcrs]}
      /\ UNCHANGED <<mono, drift, hello, helloAt, issued, asked, accept, lease, finish,
                     server, search, receipts>>
  BY DEF Attest, LockFree, clientVars
<1>2. EvidenceTypeOK' /\ EvidenceInv' /\ ChallengeInv' /\ AcceptInv' /\ LeaseInv' /\ FinishInv'
  BY <1>1, Signed
<1>3. EnclaveInv'
  <2>1. Attested(attesting, mono)'
    <3>1. mono <= mono
      BY Numbers DEF NitroInv, EvidenceTypeOK
    <3> DEFINE d == [nonce |-> n, stamp |-> mono, chain |-> OwnChain, pcrs |-> OwnPcrs]
    <3>2. d \in evidence' /\ d.nonce = n /\ d.stamp = mono /\ d.pcrs = OwnPcrs
      BY <1>1
    <3> HIDE DEF d
    <3>3. QED
      BY <1>1, <3>1, <3>2 DEF Attested
  <2>2. \A r \in receipts : r.nonce # n
    BY <1>1 DEF NitroInv, EnclaveInv, Attested
  <2>3. QED
    BY <1>1, <2>1, <2>2 DEF NitroInv, EnclaveInv, Attested
<1>4. QED
  BY <1>2, <1>3 DEF NitroInv

LEMMA ForeignAttestStep ==
  ASSUME NitroInv, NEW n \in Nonces, NEW m \in ForeignPcrs, ForeignAttest(n, m) PROVE NitroInv'
<1>1. /\ n \in issued
      /\ evidence' = evidence \cup {[nonce |-> n, stamp |-> mono, chain |-> OwnChain, pcrs |-> m]}
      /\ UNCHANGED <<mono, drift, hello, helloAt, issued, asked, accept, lease, finish,
                     attesting, server, search, receipts>>
  BY DEF ForeignAttest, clientVars
<1>2. m # OwnPcrs
  BY PinsAssumption
<1>3. EvidenceTypeOK' /\ EvidenceInv' /\ ChallengeInv' /\ AcceptInv' /\ LeaseInv' /\ FinishInv'
  <2>1. attesting' \in Nonces \cup {None}
    BY <1>1 DEF NitroInv, EvidenceTypeOK
  <2>2. QED
    BY <1>1, <1>2, <2>1, Signed
<1>4. EnclaveInv'
  BY <1>1 DEF NitroInv, EnclaveInv, Attested
<1>5. QED
  BY <1>3, <1>4 DEF NitroInv

(* A step of the enclave after the evidence.                               *)
LEMMA EnclaveMoves ==
  ASSUME NitroInv, EvidenceTypeOK', EnclaveInv', receipts \subseteq receipts',
         UNCHANGED <<mono, drift, evidence, clientVars>>
  PROVE  NitroInv'
  BY DEF NitroInv, EvidenceInv, ChallengeInv, AcceptInv, Proven, Current, LeaseInv, FinishInv,
    clientVars

LEMMA AttestEndStep == NitroInv /\ AttestEnd => NitroInv'
<1> SUFFICES ASSUME NitroInv, AttestEnd PROVE NitroInv'
  OBVIOUS
<1>1. /\ attesting # None /\ attesting' = None
      /\ server' = [nonce |-> attesting, deadline |-> mono + SessionSeconds]
      /\ UNCHANGED <<mono, drift, clientVars, evidence, search, receipts>>
  BY DEF AttestEnd
<1>2. EvidenceTypeOK'
  BY <1>1, NitroAssumption DEF NitroInv, EvidenceTypeOK, Times, clientVars
<1>3. EnclaveInv'
  BY <1>1 DEF NitroInv, EnclaveInv, Attested
<1>4. QED
  BY <1>1, <1>2, <1>3, EnclaveMoves

LEMMA SearchStartStep == NitroInv /\ SearchStart => NitroInv'
<1> SUFFICES ASSUME NitroInv, SearchStart PROVE NitroInv'
  OBVIOUS
<1>1. /\ attesting = None /\ server # None
      /\ search' = [nonce |-> server.nonce, began |-> mono]
      /\ UNCHANGED <<mono, drift, clientVars, evidence, attesting, server, receipts>>
  BY DEF SearchStart, LockFree
<1>2. EvidenceTypeOK'
  BY <1>1 DEF NitroInv, EvidenceTypeOK, clientVars
<1>3. EnclaveInv'
  BY <1>1 DEF NitroInv, EnclaveInv, Attested
<1>4. QED
  BY <1>1, <1>2, <1>3, EnclaveMoves

LEMMA SearchEndStep == NitroInv /\ SearchEnd => NitroInv'
<1> SUFFICES ASSUME NitroInv, SearchEnd PROVE NitroInv'
  OBVIOUS
<1> DEFINE r == [nonce |-> search.nonce, began |-> search.began, ended |-> mono]
<1>1. /\ search # None /\ search' = None
      /\ UNCHANGED <<mono, drift, clientVars, evidence, attesting, server>>
  BY DEF SearchEnd
<1>2. search.nonce \in Nonces /\ search.began \in Times /\ r \in Receipt
  BY <1>1 DEF NitroInv, EvidenceTypeOK, Receipt
<1>3. /\ r.nonce = search.nonce /\ r.began = search.began /\ r.ended = mono
      /\ receipts' = IF mono < server.deadline THEN receipts \cup {r} ELSE receipts
  BY DEF SearchEnd, StillInForce
<1> HIDE DEF r
<1>4. EvidenceTypeOK'
  BY <1>1, <1>2, <1>3 DEF NitroInv, EvidenceTypeOK, clientVars
<1>5. EnclaveInv'
  BY <1>1, <1>3 DEF NitroInv, EnclaveInv, Attested
<1>6. QED
  BY <1>1, <1>3, <1>4, <1>5, EnclaveMoves

-----------------------------------------------------------------------------

LEMMA NitroInductive == NitroSpec => []NitroInv
<1>1. NitroInv /\ [NitroNext]_nitroVars => NitroInv'
  <2> SUFFICES ASSUME NitroInv, [NitroNext]_nitroVars PROVE NitroInv'
    OBVIOUS
  <2>1. CASE UNCHANGED nitroVars
    BY <2>1 DEF nitroVars, clientVars, enclaveVars, NitroInv, EvidenceTypeOK, EvidenceInv,
      ChallengeInv, AcceptInv, Proven, Current, LeaseInv, FinishInv, EnclaveInv, Attested
  <2>2. CASE NitroNext
    BY <2>2, TickStep, AdjustStep, BeginAttestationStep, AttestStep, ForeignAttestStep,
      AcceptStartStep, VerifyStep, RefuseAgeStep, RefuseStep, ConfirmStep, OpenStep,
      FinishStartStep, BeginQueryStep, FinishCheckStep, AttestEndStep, SearchStartStep,
      SearchEndStep DEF NitroNext
  <2>3. QED
    BY <2>1, <2>2
<1>2. QED
  BY NitroInitial, <1>1, PTL DEF NitroSpec

(* Whatever documents, images and certificates the host has and whatever   *)
(* the wall clock does, a session of BFVAttestedClient is with the image   *)
(* the owner built, on evidence of its own enrolment.                      *)
THEOREM SessionsRest == NitroSpec => []SessionsRestOnEvidence
<1>1. NitroInv => SessionsRestOnEvidence
  BY DEF NitroInv, SessionsRestOnEvidence, SessionWithOwnImage, EvidenceOfEnrolment, LeaseInv,
    EvidenceInv
<1>2. QED
  BY NitroInductive, <1>1, PTL

(* finish_query decrypts nothing after the lease that its enclave computed *)
(* it in, nor, by a clock put back, after a certificate of that lease.     *)
THEOREM DecryptionInTime == NitroSpec => []DecryptedInTime
<1>1. NitroInv => DecryptedInTime
  <2> SUFFICES ASSUME NitroInv, finish.at = "decrypting", lease # None
               PROVE  DecryptedUnderLease /\ CertificatesInForce
    BY DEF DecryptedInTime, DecryptedUnderLease, CertificatesInForce
  <2>1. /\ finish # Resting /\ finish.time \in Int /\ finish.time < lease.deadline
        /\ finish.receipt \in receipts /\ finish.receipt.nonce = lease.doc.nonce
    BY FinishShape DEF NitroInv, FinishInv, Resting, Times
  <2>2. /\ lease \in Lease /\ lease.opened \in Int /\ lease.deadline \in Int
        /\ lease.confirmed \in Int /\ lease.drift \in Int /\ lease.expires \in Int
        /\ MaxSession \in Int /\ lease.doc.chain \in Chains
    BY Numbers DEF NitroInv, EvidenceTypeOK, Lease, Document
  <2>3. finish.time - lease.opened < MaxSession
    BY <2>1, <2>2 DEF NitroInv, LeaseInv
  <2>4. lease.doc.stamp <= finish.receipt.began
    <3>1. PICK d \in evidence : /\ d.nonce = lease.doc.nonce /\ d.pcrs = OwnPcrs
                                /\ d.stamp <= finish.receipt.began
      BY <2>1 DEF NitroInv, EnclaveInv, Attested
    <3>2. d = lease.doc
      BY <3>1 DEF NitroInv, LeaseInv, EvidenceInv
    <3>3. QED
      BY <3>1, <3>2
  <2>5. server # None /\ server.nonce = lease.doc.nonce => finish.receipt.ended < server.deadline
    BY <2>1 DEF NitroInv, EnclaveInv
  <2>6. ASSUME lease.drift = 0, NEW i \in DOMAIN lease.doc.chain
        PROVE  finish.time - (lease.opened - lease.confirmed) < lease.doc.chain[i].until
    <3>1. lease.expires <= lease.doc.chain[i].until /\ lease.doc.chain[i].until \in Int
      BY <2>2, ChainAssumption, SMTT(30) DEF NitroInv, LeaseInv, Within, Expiry
    <3>2. lease.deadline - lease.opened <= lease.expires - lease.confirmed - lease.drift
      BY DEF NitroInv, LeaseInv
    <3>3. QED
      BY <2>1, <2>2, <2>6, <3>1, <3>2
  <2>7. QED
    BY <2>3, <2>4, <2>5, <2>6 DEF DecryptedUnderLease, CertificatesInForce
<1>2. QED
  BY NitroInductive, <1>1, PTL

(* Evidence that came within the handshake is never too old, for clocks    *)
(* that agree within the skew and a policy with room for it.               *)
THEOREM PromptEvidence == NitroSpec => []PromptEvidenceIsFresh
<1>1. NitroInv => PromptEvidenceIsFresh
  BY DEF NitroInv, AcceptInv, RoomForSkew, PromptEvidenceIsFresh
<1>2. QED
  BY NitroInductive, <1>1, PTL
=============================================================================
