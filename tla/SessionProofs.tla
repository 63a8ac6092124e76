---------------------------- MODULE SessionProofs ----------------------------
(***************************************************************************)
(* Guarded and attested clients, for any number of objects, threads,       *)
(* queries, tickets, boots and challenges.  A guarded client is a verified *)
(* client, and what it decrypts has been recomputed by its verifier; an    *)
(* attested client is a verified client and its enclave a verified server, *)
(* and what it decrypts was computed by the enclave of its own session.    *)
(***************************************************************************)
EXTENDS GuardedSession, AttestedSession, VerifiedProofs

(* What a caller keeps between the two halves of finish_query is a client  *)
(* and a response.                                                         *)
GateTyped == gate \in [Callers -> Checked \cup {Open}]

LEMMA GateTypeCorrect == GuardedSpec => []GateTyped
<1>1. GuardedInit => GateTyped
  BY DEF GuardedInit, GateTyped
<1>2. GateTyped /\ [GuardedNext]_guardedVars => GateTyped'
  BY DEF GateTyped, Checked, GuardedNext, guardedVars, guardVars, ApproveStart,
         ApproveSearch, ApproveReturn, VerifierRestart, CheckReceipt, PassInner,
         RefuseInner, GuardedOperate, GuardedFinish, GuardedCrash
<1>3. QED
  BY <1>1, <1>2, PTL DEF GuardedSpec

LEMMA GateFields ==
  ASSUME GateTyped, NEW k \in Callers, gate[k] # Open
  PROVE  gate[k].client \in Clients /\ gate[k].response \in ResponsePacket
  BY DEF GateTyped, Checked

(* Every guarded step is a step of the inner client or leaves it alone, so *)
(* what is proved of VerifiedClient holds of guarded clients.              *)
THEOREM GuardedImplementsClient == GuardedSpec => ClientSpec
<1>1. GuardedInit => ClientInit
  BY DEF GuardedInit
<1>2. GateTyped /\ [GuardedNext]_guardedVars => [ClientNext]_clientVars
  <2> SUFFICES ASSUME GateTyped, [GuardedNext]_guardedVars
               PROVE  [ClientNext]_clientVars
    OBVIOUS
  <2>1. ASSUME NEW c \in Clients, GuardedOperate(c) \/ GuardedCrash(c)
        PROVE  ClientNext
    BY <2>1 DEF GuardedOperate, GuardedCrash, ClientNext
  <2>2. ASSUME NEW k \in Callers, PassInner(k)
        PROVE  ClientNext
    BY <2>2, GateFields DEF PassInner, ClientNext
  <2>3. ASSUME NEW k \in Callers, GuardedFinish(k)
        PROVE  ClientNext
    BY <2>3 DEF GuardedFinish, ClientNext
  <2>4. ASSUME \/ \E w \in Workers, p \in QueryPacket, r \in ResponsePacket :
                    ApproveStart(w, p, r)
               \/ \E w \in Workers : ApproveSearch(w) \/ ApproveReturn(w)
               \/ VerifierRestart
               \/ \E k \in Callers, c \in Clients, r \in ResponsePacket, x \in Receipt :
                    CheckReceipt(k, c, r, x)
               \/ \E k \in Callers : RefuseInner(k)
        PROVE  UNCHANGED clientVars
    BY <2>4 DEF ApproveStart, ApproveSearch, ApproveReturn, VerifierRestart,
                CheckReceipt, RefuseInner
  <2>5. CASE UNCHANGED guardedVars
    BY <2>5 DEF guardedVars
  <2>6. QED
    BY <2>1, <2>2, <2>3, <2>4, <2>5 DEF GuardedNext
<1>3. QED
  BY <1>1, <1>2, GateTypeCorrect, PTL DEF GuardedSpec, ClientSpec

(* ... and a step of the verifier's inner server or leaves that alone.     *)
THEOREM GuardedImplementsServer == GuardedSpec => ServerSpec
<1>1. GuardedInit => ServerInit
  BY DEF GuardedInit
<1>2. [GuardedNext]_guardedVars => [ServerNext]_serverVars
  <2> SUFFICES ASSUME [GuardedNext]_guardedVars PROVE [ServerNext]_serverVars
    OBVIOUS
  <2>1. ASSUME NEW w \in Workers, NEW p \in QueryPacket, NEW r \in ResponsePacket,
               ApproveStart(w, p, r)
        PROVE  ServerNext
    BY <2>1 DEF ApproveStart, ServerNext
  <2>2. ASSUME NEW w \in Workers, ApproveSearch(w) \/ ApproveReturn(w)
        PROVE  ServerNext
    BY <2>2 DEF ApproveSearch, ApproveReturn, ServerNext, Proceed
  <2>3. ASSUME VerifierRestart
        PROVE  ServerNext
    BY <2>3 DEF VerifierRestart, ServerNext
  <2>4. ASSUME \/ \E c \in Clients : GuardedOperate(c) \/ GuardedCrash(c)
               \/ \E k \in Callers, c \in Clients, r \in ResponsePacket, x \in Receipt :
                    CheckReceipt(k, c, r, x)
               \/ \E k \in Callers : PassInner(k) \/ RefuseInner(k) \/ GuardedFinish(k)
        PROVE  UNCHANGED serverVars
    BY <2>4 DEF GuardedOperate, GuardedCrash, CheckReceipt, PassInner, RefuseInner,
                GuardedFinish
  <2>5. CASE UNCHANGED guardedVars
    BY <2>5 DEF guardedVars
  <2>6. QED
    BY <2>1, <2>2, <2>3, <2>4, <2>5 DEF GuardedNext
<1>3. QED
  BY <1>1, <1>2, PTL DEF GuardedSpec, ServerSpec

-----------------------------------------------------------------------------

(* The verifier's side of the invariant.                                   *)
LEMMA VerifierStep ==
  ASSUME ServerTypeOK, OwnSetupInv, ReceiptsAreRight, [GuardedNext]_guardedVars
  PROVE  OwnSetupInv' /\ ReceiptsAreRight'
<1> USE DEF ServerTypeOK
<1>1. ASSUME NEW w \in Workers, NEW p \in QueryPacket, NEW r \in ResponsePacket,
             ApproveStart(w, p, r)
      PROVE  OwnSetupInv' /\ ReceiptsAreRight'
  BY <1>1 DEF ApproveStart, Admit, OwnSetupInv, ReceiptsAreRight
<1>2. ASSUME NEW w \in Workers, ApproveSearch(w)
      PROVE  OwnSetupInv' /\ ReceiptsAreRight'
  <2>1. search[w] \in Searching
    BY <1>2, SearchFields
       DEF ApproveSearch, BurnTicket, Refuse, Evaluate, EvaluationFails
  <2>2. search'[w].at \in {"burnt", "done"} => search'[w].query.setup = ServerSetup
    BY <1>2, <2>1 DEF ApproveSearch, BurnTicket, Refuse, Evaluate, EvaluationFails,
                      Fresh, OwnSetupInv, Searching
  <2>3. \A v \in Workers \ {w} : search'[v] = search[v]
    BY <1>2 DEF ApproveSearch, BurnTicket, Refuse, Evaluate, EvaluationFails
  <2>4. OwnSetupInv'
    BY <2>2, <2>3 DEF OwnSetupInv
  <2>5. QED
    BY <2>4, <1>2 DEF ApproveSearch, guardVars, ReceiptsAreRight
<1>3. ASSUME NEW w \in Workers, ApproveReturn(w)
      PROVE  OwnSetupInv' /\ ReceiptsAreRight'
  <2>1. OwnSetupInv'
    BY <1>3 DEF ApproveReturn, Release, Resting, OwnSetupInv
  <2>2. ReceiptsAreRight'
    BY <1>3 DEF ApproveReturn, Approves, OwnSetupInv, ReceiptsAreRight
  <2>3. QED
    BY <2>1, <2>2
<1>4. ASSUME VerifierRestart
      PROVE  OwnSetupInv' /\ ReceiptsAreRight'
  BY <1>4 DEF VerifierRestart, Restart, Resting, OwnSetupInv, ReceiptsAreRight
<1>5. ASSUME UNCHANGED <<search, approvals>>
      PROVE  OwnSetupInv' /\ ReceiptsAreRight'
  BY <1>5 DEF OwnSetupInv, ReceiptsAreRight
<1>6. QED
  BY <1>1, <1>2, <1>3, <1>4, <1>5
     DEF GuardedNext, guardedVars, guardVars, serverVars, GuardedOperate, GuardedFinish,
         GuardedCrash, CheckReceipt, PassInner, RefuseInner

(* Between the two halves of finish_query the receipt remains.             *)
LEMMA GateStep ==
  ASSUME GateTyped, GateInv, [GuardedNext]_guardedVars
  PROVE  GateInv'
<1>1. approvals \subseteq approvals'
  BY DEF GuardedNext, guardedVars, guardVars, ApproveStart, ApproveSearch,
         ApproveReturn, VerifierRestart, CheckReceipt, PassInner, RefuseInner,
         GuardedOperate, GuardedFinish, GuardedCrash
<1>2. ASSUME NEW k \in Callers, NEW c \in Clients, NEW r \in ResponsePacket,
             NEW x \in Receipt, CheckReceipt(k, c, r, x)
      PROVE  GateInv'
  BY <1>1, <1>2 DEF CheckReceipt, Signed, ReceiptBinds, GateInv, GateTyped
<1>3. ASSUME \A k \in Callers : gate'[k] = gate[k] \/ gate'[k] = Open
      PROVE  GateInv'
  BY <1>1, <1>3 DEF GateInv
<1>4. QED
  BY <1>2, <1>3
     DEF GateTyped, GuardedNext, guardedVars, guardVars, ApproveStart, ApproveSearch,
         ApproveReturn, VerifierRestart, PassInner, RefuseInner, GuardedOperate,
         GuardedFinish, GuardedCrash

(* The client's side.                                                      *)
LEMMA RecomputedStep ==
  ASSUME ClientTypeOK, ClientInv, GateTyped, GuardInv, [ClientNext]_clientVars,
         [GuardedNext]_guardedVars
  PROVE  OnlyRecomputedDecrypted' /\ NoLateRejection'
<1> USE DEF ClientTypeOK
<1>1. \A t \in Tickets : packet[t] # None => packet'[t] = packet[t]
  BY PacketsStay
<1>2. \A k \in Callers : call[k] # Idle =>
        /\ call[k].ticket \in Tickets
        /\ packet'[call[k].ticket] = packet[call[k].ticket]
        /\ call[k].result = Expected(packet[call[k].ticket])
  BY <1>1, CallFields DEF ClientInv, CallInv, Undecided, GuardInv, OnlyRecomputedDecrypted
<1>3. \A t \in Tickets : decrypted[t] # 0 =>
        packet'[t] = packet[t] /\ <<t, Expected(packet[t])>> \in returned
  BY <1>1 DEF ClientInv, HistoryInv, GuardInv, NoLateRejection
<1>4. ASSUME \A k \in Callers : call'[k] = call[k] \/ call'[k] = Idle,
             UNCHANGED <<decrypted, returned>>
      PROVE  OnlyRecomputedDecrypted' /\ NoLateRejection'
  <2>1. OnlyRecomputedDecrypted'
    BY <1>2, <1>4 DEF OnlyRecomputedDecrypted, Expected
  <2>2. NoLateRejection'
    BY <1>3, <1>4 DEF NoLateRejection, Expected
  <2>3. QED
    BY <2>1, <2>2
<1>5. ASSUME NEW k \in Callers, PassInner(k)
      PROVE  OnlyRecomputedDecrypted' /\ NoLateRejection'
  <2>1. PICK r \in ResponsePacket :
          /\ \E x \in approvals : x.response = r
          /\ ConsumeTicket(k, gate[k].client, r)
    BY <1>5, GateFields DEF PassInner, GuardInv, GateInv
  <2>2. r.result = Expected(r.request)
    <3>1. PICK x \in approvals : x.response = r
      BY <2>1
    <3>2. r = ResponseTo(x.request)
      BY <3>1 DEF GuardInv, ReceiptsAreRight
    <3>3. r.request = x.request /\ r.result = Expected(x.request)
      BY <3>2 DEF ResponseTo
    <3>4. QED
      BY <3>3 DEF Expected
  <2>3. call' = [call EXCEPT ![k] = [client |-> gate[k].client, ticket |-> r.ticket,
                                     result |-> r.result]]
        /\ r.request = packet[r.ticket]
    BY <2>1 DEF ConsumeTicket, Accepts
  <2>4. UNCHANGED <<packet, decrypted, returned>>
    BY <2>1 DEF ConsumeTicket
  <2>5. OnlyRecomputedDecrypted'
    BY <2>2, <2>3, <2>4, <1>2 DEF OnlyRecomputedDecrypted, Expected
  <2>6. NoLateRejection'
    BY <2>4, <1>3 DEF NoLateRejection, Expected
  <2>7. QED
    BY <2>5, <2>6
<1>6. ASSUME NEW k \in Callers, DecryptAndCheck(k)
      PROVE  OnlyRecomputedDecrypted' /\ NoLateRejection'
  <2>1. PICK t \in Tickets : t = call[k].ticket /\ call[k].result = Expected(packet[t])
    BY <1>6, <1>2 DEF DecryptAndCheck
  <2>2. returned' = returned \cup {<<t, Expected(packet[t])>>}
    BY <1>6, <2>1 DEF DecryptAndCheck, Matches
  <2>3. UNCHANGED packet /\ \A u \in Tickets \ {t} : decrypted'[u] = decrypted[u]
    BY <1>6, <2>1 DEF DecryptAndCheck
  <2>4. NoLateRejection'
    BY <2>2, <2>3, <1>3 DEF NoLateRejection, Expected
  <2>5. OnlyRecomputedDecrypted'
    BY <1>6, <1>2 DEF DecryptAndCheck, OnlyRecomputedDecrypted, Expected
  <2>6. QED
    BY <2>4, <2>5
<1>7. ASSUME NEW c \in Clients, Operate(c) \/ Crash(c)
      PROVE  OnlyRecomputedDecrypted' /\ NoLateRejection'
  BY <1>7, <1>4 DEF Operate, Construct, PrepareIndex, BeginQuery, CancelPending,
                    ProtectState, Restore, Crash
<1>8. ASSUME NEW k \in Callers, RejectUndecodable(k)
      PROVE  OnlyRecomputedDecrypted' /\ NoLateRejection'
  BY <1>8, <1>4 DEF RejectUndecodable
<1>9. ASSUME UNCHANGED clientVars
      PROVE  OnlyRecomputedDecrypted' /\ NoLateRejection'
  BY <1>9, <1>4 DEF clientVars
<1>10. QED
  BY <1>5, <1>6, <1>7, <1>8, <1>9
     DEF GuardedNext, guardedVars, GuardedOperate, GuardedCrash, GuardedFinish, Finish,
         ApproveStart, ApproveSearch, ApproveReturn, VerifierRestart, CheckReceipt,
         RefuseInner

(* Proposals are compared and receipts signed for packets of their types.  *)
LEMMA GuardTypedStep ==
  ASSUME ServerTypeOK, OwnSetupInv, GuardedTypeOK, [GuardedNext]_guardedVars
  PROVE  /\ proposal' \in [Workers -> ResponsePacket \cup {None}]
         /\ approvals' \subseteq Receipt
<1> USE DEF GuardedTypeOK
<1>1. ASSUME NEW w \in Workers, ApproveReturn(w)
      PROVE  /\ proposal' \in [Workers -> ResponsePacket \cup {None}]
             /\ approvals' \subseteq Receipt
  <2>1. proposal' \in [Workers -> ResponsePacket \cup {None}]
    BY <1>1 DEF ApproveReturn
  <2>2. CASE search[w].at = "done" /\ Approves(search[w].query, proposal[w])
    <3>1. search[w].query \in QueryPacket
      BY <2>2, SearchFields DEF Resting
    <3>2. proposal[w] \in ResponsePacket
      BY <2>2, <3>1, ServerAssumption, AnswerAssumption
         DEF Approves, ResponseTo, ResponsePacket, QueryPacket, Result, Expected
    <3>3. [setup |-> ServerSetup, request |-> search[w].query, response |-> proposal[w]]
            \in Receipt
      BY <3>1, <3>2, ServerAssumption DEF Receipt
    <3>4. QED
      BY <1>1, <2>1, <3>3 DEF ApproveReturn
  <2>3. CASE ~ (search[w].at = "done" /\ Approves(search[w].query, proposal[w]))
    BY <1>1, <2>1, <2>3 DEF ApproveReturn
  <2>4. QED
    BY <2>2, <2>3
<1>2. QED
  BY <1>1 DEF GuardedNext, guardedVars, guardVars, ApproveStart, ApproveSearch,
     VerifierRestart, CheckReceipt, PassInner, RefuseInner, GuardedOperate, GuardedFinish,
     GuardedCrash

(* The guard's invariant, on top of those of the client and the server.    *)
THEOREM GuardInvariant == GuardedSpec => []GuardInv
<1>1. GuardedInit => GuardInv
  BY DEF GuardedInit, ClientInit, ServerInit, Resting, GuardInv, OwnSetupInv,
         ReceiptsAreRight, GateInv, OnlyRecomputedDecrypted, NoLateRejection
<1>2. /\ ClientTypeOK /\ ServerTypeOK /\ ClientInv /\ GateTyped /\ GuardInv
      /\ [ClientNext]_clientVars /\ [GuardedNext]_guardedVars
      => GuardInv'
  BY VerifierStep, GateStep, RecomputedStep DEF GuardInv
<1>3. ClientSpec => [][ClientNext]_clientVars
  BY PTL DEF ClientSpec
<1>4. QED
  BY <1>1, <1>2, <1>3, GuardedImplementsClient, GuardedImplementsServer,
     GateTypeCorrect, ClientTypeCorrect, ClientInvariant, ServerTypeCorrect, PTL
     DEF GuardedSpec

(* Every variable of client, verifier and guard keeps its type.            *)
THEOREM GuardedTypeCorrect == GuardedSpec => []GuardedTypeOK
<1> DEFINE Typed == /\ proposal \in [Workers -> ResponsePacket \cup {None}]
                    /\ approvals \subseteq Receipt
<1>1. GuardedInit => Typed
  BY DEF GuardedInit
<1>2. ClientTypeOK /\ ServerTypeOK /\ GateTyped /\ Typed => GuardedTypeOK
  BY DEF GateTyped, GuardedTypeOK
<1>3. ServerTypeOK /\ GuardInv /\ GuardedTypeOK /\ [GuardedNext]_guardedVars => Typed'
  BY GuardTypedStep DEF GuardInv
<1> HIDE DEF Typed
<1>4. QED
  BY <1>1, <1>2, <1>3, GuardedImplementsClient, GuardedImplementsServer, GateTypeCorrect,
     ClientTypeCorrect, ServerTypeCorrect, GuardInvariant, PTL DEF GuardedSpec

(* What a guarded client decrypts is the exact result of its own query ... *)
THEOREM OnlyRecomputedReachDecryption == GuardedSpec => []OnlyRecomputedDecrypted
  BY GuardInvariant, PTL DEF GuardInv

(* ... so no decision is ever taken on a decrypted wrong result: every     *)
(* decryption ends in an answer.                                           *)
THEOREM DecryptionsEndInAnswers == GuardedSpec => []NoLateRejection
  BY GuardInvariant, PTL DEF GuardInv

(* The guarantees of the inner client carry over.                          *)
THEOREM GuardedImplementsOneUse == GuardedSpec => ImplementsOneUse
  BY GuardedImplementsClient, ClientImplementsOneUse, PTL

-----------------------------------------------------------------------------

(* The steps of the owner's side leave the enclave alone, ...              *)
LEMMA OwnerLeavesEnclave == OwnerNext => UNCHANGED <<serverVars, enclaveVars>>
  BY DEF OwnerNext, OwnerOperate, BeginAttestation, AcceptAttestation, AttestedBegin,
         BeginExpires, AttestedFinish, AttestedDecode, HandshakeTimesOut, LeaseExpires,
         OwnerCrash

(* ... and the other way round.                                            *)
LEMMA EnclaveLeavesOwner == EnclaveNext => UNCHANGED <<clientVars, ownerVars>>
  BY DEF EnclaveNext, Register, Attest, AttestFails, SearchStart, SearchStep,
         SearchReturn, SessionExpires, Reboot

(* Every step is a step of the enclave's inner server or leaves it alone.  *)
THEOREM AttestedImplementsServer == AttestedSpec => ServerSpec
<1>1. AttestedInit => ServerInit
  BY DEF AttestedInit
<1>2. [AttestedNext]_attestedVars => [ServerNext]_serverVars
  <2> SUFFICES ASSUME [AttestedNext]_attestedVars PROVE [ServerNext]_serverVars
    OBVIOUS
  <2>1. CASE OwnerNext
    BY <2>1, OwnerLeavesEnclave
  <2>2. ASSUME NEW w \in Workers, NEW p \in QueryPacket, SearchStart(w, p)
        PROVE  ServerNext
    BY <2>2 DEF SearchStart, ServerNext
  <2>3. ASSUME NEW w \in Workers, SearchStep(w) \/ SearchReturn(w)
        PROVE  ServerNext
    BY <2>3 DEF SearchStep, SearchReturn, ServerNext, Proceed
  <2>4. ASSUME NEW y \in Keys, Reboot(y)
        PROVE  ServerNext
    BY <2>4 DEF Reboot, ServerNext
  <2>5. ASSUME \/ \E o \in Owners : Register(o)
               \/ \E n \in Nonces : Attest(n) \/ AttestFails(n)
               \/ SessionExpires
        PROVE  UNCHANGED serverVars
    BY <2>5 DEF Register, Attest, AttestFails, SessionExpires
  <2>6. CASE UNCHANGED attestedVars
    BY <2>6 DEF attestedVars
  <2>7. QED
    BY <2>1, <2>2, <2>3, <2>4, <2>5, <2>6 DEF AttestedNext, EnclaveNext
<1>3. QED
  BY <1>1, <1>2, PTL DEF AttestedSpec, ServerSpec

(* The enclave's own variables keep their types.                           *)
LEMMA EnclaveTypedStep ==
  ASSUME EnclaveTypeOK, ServerTypeOK, [AttestedNext]_attestedVars
  PROVE  EnclaveTypeOK'
<1> USE DEF EnclaveTypeOK
<1>1. CASE OwnerNext
  BY <1>1, OwnerLeavesEnclave DEF enclaveVars
<1>2. ASSUME NEW n \in Nonces, Attest(n)
      PROVE  EnclaveTypeOK'
  BY <1>2, ServerAssumption DEF Attest, MayAttest, Session
<1>3. ASSUME NEW w \in Workers, SearchReturn(w)
      PROVE  EnclaveTypeOK'
  <2>1. search[w].at = "done" => search[w].query \in QueryPacket
    BY SearchFields DEF Searching, Resting
  <2>2. ASSUME search[w].at = "done"
        PROVE  ResponseTo(search[w].query) \in ResponsePacket
    BY <2>1, <2>2, ServerAssumption, AnswerAssumption
       DEF ResponseTo, ResponsePacket, QueryPacket, Result, Expected
  <2>3. QED
    BY <1>3, <2>1, <2>2 DEF SearchReturn
<1>4. ASSUME \/ \E o \in Owners : Register(o)
             \/ \E n \in Nonces : AttestFails(n)
             \/ \E y \in Keys : Reboot(y)
      PROVE  EnclaveTypeOK'
  BY <1>4 DEF Register, AttestFails, Reboot
<1>5. ASSUME \/ \E w \in Workers, p \in QueryPacket : SearchStart(w, p)
             \/ \E w \in Workers : SearchStep(w)
             \/ SessionExpires
      PROVE  EnclaveTypeOK'
  BY <1>5 DEF SearchStart, SearchStep, SessionExpires, enclaveVars
<1>6. CASE UNCHANGED attestedVars
  BY <1>6 DEF attestedVars, enclaveVars
<1>7. QED
  BY <1>1, <1>2, <1>3, <1>4, <1>5, <1>6 DEF AttestedNext, EnclaveNext

LEMMA EnclaveTypeCorrect == AttestedSpec => []EnclaveTypeOK
<1>1. AttestedInit => EnclaveTypeOK
  BY DEF AttestedInit, EnclaveTypeOK
<1>2. QED
  BY <1>1, EnclaveTypedStep, AttestedImplementsServer, ServerTypeCorrect, PTL
     DEF AttestedSpec

(* Every step is a step of the inner client or leaves it alone, so what is *)
(* proved of VerifiedClient holds of attested clients.                     *)
THEOREM AttestedImplementsClient == AttestedSpec => ClientSpec
<1>1. AttestedInit => ClientInit
  BY DEF AttestedInit
<1>2. EnclaveTypeOK /\ [AttestedNext]_attestedVars => [ClientNext]_clientVars
  <2> SUFFICES ASSUME EnclaveTypeOK, [AttestedNext]_attestedVars
               PROVE  [ClientNext]_clientVars
    OBVIOUS
  <2>1. CASE EnclaveNext
    BY <2>1, EnclaveLeavesOwner
  <2>2. ASSUME NEW c \in Clients, OwnerOperate(c) \/ OwnerCrash(c)
        PROVE  ClientNext
    BY <2>2 DEF OwnerOperate, OwnerCrash, ClientNext, Operate
  <2>3. ASSUME NEW c \in Clients, NEW n \in Nonces, BeginAttestation(c, n)
        PROVE  ClientNext
    BY <2>3 DEF BeginAttestation, ClientNext, Operate
  <2>4. ASSUME NEW c \in Clients, NEW t \in Tickets, NEW q \in Queries,
               AttestedBegin(c, t, q) \/ BeginExpires(c, t, q)
        PROVE  ClientNext
    BY <2>4 DEF AttestedBegin, BeginExpires, ClientNext, Operate
  <2>5. ASSUME NEW c \in Clients, NEW k \in Callers, NEW r \in ResponsePacket,
               NEW x \in receipts, AttestedFinish(k, c, r, x)
        PROVE  ClientNext
    BY <2>5 DEF AttestedFinish, ClientNext
  <2>6. ASSUME NEW k \in Callers, AttestedDecode(k)
        PROVE  ClientNext
    BY <2>6 DEF AttestedDecode, ClientNext
  <2>7. ASSUME NEW c \in Clients,
               \/ \E e \in evidence : AcceptAttestation(c, e)
               \/ HandshakeTimesOut(c)
               \/ LeaseExpires(c)
        PROVE  UNCHANGED clientVars
    BY <2>7 DEF AcceptAttestation, HandshakeTimesOut, LeaseExpires
  <2>8. CASE UNCHANGED attestedVars
    BY <2>8 DEF attestedVars
  <2>9. QED
    BY <2>1, <2>2, <2>3, <2>4, <2>5, <2>6, <2>7, <2>8 DEF AttestedNext, OwnerNext
<1>3. QED
  BY <1>1, <1>2, EnclaveTypeCorrect, PTL DEF AttestedSpec, ClientSpec

(* The owner's own variables keep their types.                             *)
LEMMA OwnerTypedStep ==
  ASSUME OwnerTypeOK, EnclaveTypeOK, ClientTypeOK, [AttestedNext]_attestedVars
  PROVE  OwnerTypeOK'
<1> USE DEF OwnerTypeOK
<1>1. CASE EnclaveNext
  BY <1>1, EnclaveLeavesOwner DEF ownerVars
<1>2. ASSUME NEW c \in Clients, OwnerOperate(c)
      PROVE  OwnerTypeOK'
  BY <1>2 DEF OwnerOperate, ownerVars
<1>3. ASSUME NEW c \in Clients, NEW n \in Nonces, BeginAttestation(c, n)
      PROVE  OwnerTypeOK'
  BY <1>3 DEF BeginAttestation, ClientTypeOK
<1>4. ASSUME NEW c \in Clients, NEW e \in evidence, AcceptAttestation(c, e)
      PROVE  OwnerTypeOK'
  BY <1>4 DEF AcceptAttestation, EnclaveTypeOK
<1>5. ASSUME NEW c \in Clients, NEW t \in Tickets, NEW q \in Queries,
             AttestedBegin(c, t, q)
      PROVE  OwnerTypeOK'
  <2>1. setup[c] \in Setups /\ lease[c] \in Session
    BY <1>5 DEF AttestedBegin, BeginQuery, MayBegin, ClientTypeOK
  <2>2. QED
    BY <2>1, <1>5 DEF AttestedBegin, QueryPacket
<1>6. ASSUME NEW c \in Clients, NEW t \in Tickets, NEW q \in Queries,
             BeginExpires(c, t, q)
      PROVE  OwnerTypeOK'
  BY <1>6 DEF BeginExpires
<1>7. ASSUME NEW c \in Clients,
             \/ HandshakeTimesOut(c)
             \/ LeaseExpires(c)
             \/ OwnerCrash(c)
      PROVE  OwnerTypeOK'
  BY <1>7 DEF HandshakeTimesOut, LeaseExpires, OwnerCrash
<1>8. ASSUME \/ \E c \in Clients, k \in Callers, r \in ResponsePacket, x \in receipts :
                  AttestedFinish(k, c, r, x)
             \/ \E k \in Callers : AttestedDecode(k)
      PROVE  OwnerTypeOK'
  BY <1>8 DEF AttestedFinish, AttestedDecode, ownerVars
<1>9. CASE UNCHANGED attestedVars
  BY <1>9 DEF attestedVars, ownerVars
<1>10. QED
  BY <1>1, <1>2, <1>3, <1>4, <1>5, <1>6, <1>7, <1>8, <1>9 DEF AttestedNext, OwnerNext

(* The type invariant.                                                     *)
THEOREM AttestedTypeCorrect == AttestedSpec => []AttestedTypeOK
<1>1. AttestedInit => OwnerTypeOK
  BY DEF AttestedInit, OwnerTypeOK
<1>2. AttestedSpec => []OwnerTypeOK
  BY <1>1, OwnerTypedStep, EnclaveTypeCorrect, AttestedImplementsClient,
     ClientTypeCorrect, PTL DEF AttestedSpec
<1>3. QED
  BY <1>2, EnclaveTypeCorrect, AttestedImplementsClient, ClientTypeCorrect,
     AttestedImplementsServer, ServerTypeCorrect, PTL DEF AttestedTypeOK

-----------------------------------------------------------------------------

(* A packet that has been begun is never replaced.                         *)
LEMMA BegunPacketsStay ==
  ASSUME [ClientNext]_clientVars, ClientTypeOK, NEW t \in Tickets, packet[t] # None
  PROVE  packet'[t] = packet[t]
<1>1. ASSUME NEW c \in Clients, NEW u \in Tickets, NEW q \in Queries, BeginQuery(c, u, q)
      PROVE  packet'[t] = packet[t]
  BY <1>1 DEF BeginQuery, ClientTypeOK
<1>2. QED
  BY <1>1 DEF ClientNext, Operate, Finish, clientVars, Construct, PrepareIndex,
       CancelPending, ProtectState, Restore, Crash, ConsumeTicket,
       RejectUndecodable, DecryptAndCheck

(* The enclave's side of the invariant: a session is of the registered     *)
(* owner, a running search was authorised in it, and so is a receipt.      *)
LEMMA EnclaveStep ==
  ASSUME AttestedTypeOK, EnclaveInv, ReceiptsOfSession, [AttestedNext]_attestedVars
  PROVE  EnclaveInv' /\ ReceiptsOfSession'
<1> USE DEF AttestedTypeOK
<1>1. ASSUME requests \subseteq requests', UNCHANGED <<search, owner, session, receipts>>
      PROVE  EnclaveInv' /\ ReceiptsOfSession'
  BY <1>1 DEF EnclaveInv, ReceiptsOfSession
<1>2. CASE OwnerNext
  <2>1. UNCHANGED <<search, owner, session, receipts>>
    BY <1>2, OwnerLeavesEnclave DEF serverVars, enclaveVars
  <2>2. requests \subseteq requests'
    BY <1>2 DEF OwnerNext, OwnerOperate, BeginAttestation, AcceptAttestation,
         AttestedBegin, BeginExpires, AttestedFinish, AttestedDecode, HandshakeTimesOut,
         LeaseExpires, OwnerCrash, ownerVars
  <2>3. QED
    BY <1>1, <2>1, <2>2
<1>3. ASSUME NEW o \in Owners, Register(o)
      PROVE  EnclaveInv' /\ ReceiptsOfSession'
  <2>1. session = None
    <3>1. session # None => session.owner # None
      BY AttestedAssumption DEF EnclaveTypeOK, Session, Owners
    <3>2. QED
      BY <1>3, <3>1 DEF Register, EnclaveInv
  <2>2. EnclaveInv'
    BY <1>3, <2>1 DEF Register, EnclaveInv
  <2>3. ReceiptsOfSession'
    BY <1>3 DEF Register, ReceiptsOfSession, ownerVars
  <2>4. QED
    BY <2>2, <2>3
<1>4. ASSUME NEW n \in Nonces, Attest(n)
      PROVE  EnclaveInv' /\ ReceiptsOfSession'
  <2>1. session' = [setup |-> ServerSetup, owner |-> owner, nonce |-> n, key |-> key]
        /\ owner' = owner /\ LockFree
    BY <1>4 DEF Attest, MayAttest
  <2>2. \A w \in Workers : search'[w] = Resting
    BY <1>4, <2>1 DEF Attest, LockFree, serverVars
  <2>3. EnclaveInv'
    BY <2>1, <2>2 DEF EnclaveInv
  <2>4. ReceiptsOfSession'
    BY <1>4 DEF Attest, ReceiptsOfSession, ownerVars
  <2>5. QED
    BY <2>3, <2>4
<1>5. ASSUME NEW w \in Workers, NEW p \in QueryPacket, SearchStart(w, p)
      PROVE  EnclaveInv' /\ ReceiptsOfSession'
  <2>1. search' = [search EXCEPT ![w] = [at |-> "admitted", query |-> p]]
    BY <1>5 DEF SearchStart, Admit
  <2>2. UNCHANGED <<requests, owner, session, receipts>>
    BY <1>5 DEF SearchStart, ownerVars, enclaveVars
  <2>3. owner = Mine => [session |-> session, query |-> p] \in requests
    BY <1>5, AttestedAssumption DEF SearchStart, Authorised
  <2>4. \A v \in Workers \ {w} : search[v] = Resting
    BY <1>5 DEF SearchStart, LockFree
  <2>5. EnclaveInv'
    BY <2>1, <2>2, <2>3, <2>4 DEF EnclaveInv, ServerTypeOK
  <2>6. QED
    BY <2>2, <2>5 DEF ReceiptsOfSession
<1>6. ASSUME NEW w \in Workers, SearchStep(w)
      PROVE  EnclaveInv' /\ ReceiptsOfSession'
  <2>1. \A v \in Workers : search'[v] # Resting =>
          search[v] # Resting /\ search'[v].query = search[v].query
    <3>1. search[w].at # "rest"
      BY <1>6 DEF SearchStep, BurnTicket, Refuse, Evaluate, EvaluationFails
    <3>2. search[w] \in Searching
      BY <3>1, SearchFields
    <3>3. \/ search' = [search EXCEPT ![w].at = "burnt"]
          \/ search' = [search EXCEPT ![w].at = "failed"]
          \/ search' = [search EXCEPT ![w].at = "done"]
      BY <1>6 DEF SearchStep, BurnTicket, Refuse, Evaluate, EvaluationFails
    <3>4. QED
      BY <3>1, <3>2, <3>3 DEF Searching, ServerTypeOK, Resting
  <2>2. UNCHANGED <<requests, owner, session, receipts>>
    BY <1>6 DEF SearchStep, ownerVars, enclaveVars
  <2>3. QED
    BY <2>1, <2>2 DEF EnclaveInv, ReceiptsOfSession
<1>7. ASSUME NEW w \in Workers, SearchReturn(w)
      PROVE  EnclaveInv' /\ ReceiptsOfSession'
  <2>1. \A v \in Workers : search'[v] # Resting => search'[v] = search[v]
    BY <1>7 DEF SearchReturn, Release, ServerTypeOK
  <2>2. UNCHANGED <<requests, owner, session>>
    BY <1>7 DEF SearchReturn, ownerVars
  <2>3. EnclaveInv'
    BY <2>1, <2>2 DEF EnclaveInv
  <2>4. search[w] # Resting
    BY <1>7 DEF SearchReturn, Release, Resting
  <2>5. session # None /\ session.owner = Mine =>
          [session |-> session, query |-> search[w].query] \in requests
    BY <2>4 DEF EnclaveInv
  <2>6. ReceiptsOfSession'
    <3>1. ASSUME receipts' = receipts
          PROVE  ReceiptsOfSession'
      BY <3>1, <2>2 DEF ReceiptsOfSession
    <3>2. ASSUME session # None,
                 receipts' = receipts \cup
                   {[session |-> session, request |-> search[w].query,
                     response |-> ResponseTo(search[w].query)]}
          PROVE  ReceiptsOfSession'
      <4> SUFFICES ASSUME NEW x \in receipts'
                   PROVE  /\ x.response = ResponseTo(x.request)
                          /\ x.session.owner = Mine =>
                               [session |-> x.session, query |-> x.request] \in requests
        BY <2>2 DEF ReceiptsOfSession, ResponseTo, Expected
      <4>1. CASE x \in receipts
        BY <4>1 DEF ReceiptsOfSession
      <4>2. CASE x = [session |-> session, request |-> search[w].query,
                      response |-> ResponseTo(search[w].query)]
        BY <4>2, <3>2, <2>5
      <4>3. QED
        BY <3>2, <4>1, <4>2
    <3>3. QED
      BY <1>7, <3>1, <3>2 DEF SearchReturn
  <2>7. QED
    BY <2>3, <2>6
<1>8. ASSUME SessionExpires
      PROVE  EnclaveInv' /\ ReceiptsOfSession'
  BY <1>8 DEF SessionExpires, EnclaveInv, ReceiptsOfSession, ownerVars
<1>9. ASSUME NEW y \in Keys, Reboot(y)
      PROVE  EnclaveInv' /\ ReceiptsOfSession'
  BY <1>9 DEF Reboot, EnclaveInv, ReceiptsOfSession, ownerVars
<1>10. ASSUME NEW n \in Nonces, AttestFails(n)
      PROVE  EnclaveInv' /\ ReceiptsOfSession'
  BY <1>10, <1>1 DEF AttestFails, serverVars, ownerVars
<1>11. CASE UNCHANGED attestedVars
  BY <1>11, <1>1 DEF attestedVars, serverVars, ownerVars, enclaveVars
<1>12. QED
  BY <1>2, <1>3, <1>4, <1>5, <1>6, <1>7, <1>8, <1>9, <1>10, <1>11
     DEF AttestedNext, EnclaveNext

(* Requests are for packets that exist and stay.                           *)
LEMMA RequestsStep ==
  ASSUME AttestedTypeOK, ClientInv, RequestsInv, [AttestedNext]_attestedVars,
         [ClientNext]_clientVars
  PROVE  RequestsInv'
<1> USE DEF AttestedTypeOK
<1>1. \A q \in requests : /\ q.query.ticket \in Tickets
                          /\ packet[q.query.ticket] # None
                          /\ packet'[q.query.ticket] = q.query
  <2> SUFFICES ASSUME NEW q \in requests
               PROVE  /\ q.query.ticket \in Tickets
                      /\ packet[q.query.ticket] # None
                      /\ packet'[q.query.ticket] = q.query
    OBVIOUS
  <2>1. q.query \in QueryPacket
    BY DEF OwnerTypeOK
  <2>2. q.query.ticket \in Tickets /\ q.query # None
    BY <2>1, PacketIsNotNone DEF QueryPacket
  <2>3. QED
    BY <2>2, BegunPacketsStay DEF RequestsInv
<1>2. ASSUME NEW t \in Tickets, packet'[t] # None
      PROVE  packet'[t].ticket = t
  <2>1. CASE packet[t] # None
    BY <2>1, BegunPacketsStay DEF RequestsInv
  <2>2. CASE packet[t] = None
    <3>1. PICK c \in Clients, q \in Queries : BeginQuery(c, t, q)
      <4>1. \E c \in Clients, u \in Tickets, q \in Queries : BeginQuery(c, u, q)
        BY <1>2, <2>2
           DEF ClientNext, Operate, Finish, clientVars, Construct, PrepareIndex,
               CancelPending, ProtectState, Restore, Crash, ConsumeTicket,
               RejectUndecodable, DecryptAndCheck
      <4>2. QED
        BY <1>2, <2>2, <4>1 DEF BeginQuery, ClientTypeOK
    <3>2. QED
      BY <3>1 DEF BeginQuery, ClientTypeOK
  <2>3. QED
    BY <2>1, <2>2
<1>3. ASSUME NEW c \in Clients, NEW t \in Tickets, NEW q \in Queries,
             AttestedBegin(c, t, q)
      PROVE  RequestsInv'
  BY <1>1, <1>2, <1>3 DEF AttestedBegin, BeginQuery, RequestsInv, ClientTypeOK
<1>4. ASSUME requests' = requests
      PROVE  RequestsInv'
  BY <1>1, <1>2, <1>4 DEF RequestsInv
<1>5. CASE EnclaveNext
  BY <1>4, <1>5, EnclaveLeavesOwner DEF ownerVars
<1>6. CASE UNCHANGED attestedVars
  BY <1>4, <1>6 DEF attestedVars, ownerVars
<1>7. QED
  BY <1>3, <1>4, <1>5, <1>6
     DEF AttestedNext, OwnerNext, OwnerOperate, BeginAttestation, AcceptAttestation,
         BeginExpires, AttestedFinish, AttestedDecode, HandshakeTimesOut, LeaseExpires,
         OwnerCrash, ownerVars

-----------------------------------------------------------------------------

(* A client's work: what it waits for or decrypts has been begun.          *)
LEMMA WorkIsBegun ==
  ASSUME ClientTypeOK, ClientInv, NEW c \in Clients, NEW t \in Work(c)
  PROVE  t \in Tickets /\ packet[t] # None
<1>1. CASE t \in pending[c]
  BY <1>1 DEF ClientTypeOK, ClientInv, PendingInv, Undecided
<1>2. CASE \E k \in Callers : call[k].client = c /\ t = call[k].ticket
  <2>1. PICK k \in Callers : call[k].client = c /\ t = call[k].ticket
    BY <1>2
  <2>2. call[k] # Idle
    BY <2>1, ClientAssumption DEF Idle
  <2>3. QED
    BY <2>1, <2>2, CallFields DEF ClientInv, CallInv, Undecided
<1>3. QED
  BY <1>1, <1>2 DEF Work

(* Work only grows by begin_query of the same client.                      *)
LEMMA WorkGrows ==
  ASSUME ClientTypeOK, [ClientNext]_clientVars, NEW c \in Clients,
         NEW t \in Work(c)', t \notin Work(c)
  PROVE  t \in Tickets /\ \E q \in Queries : BeginQuery(c, t, q)
<1> USE DEF ClientTypeOK
<1>1. ASSUME pending'[c] \subseteq pending[c],
             \A k \in Callers : call'[k] = call[k] \/ call'[k] = Idle
      PROVE  FALSE
  BY <1>1, ClientAssumption DEF Work, Idle
<1>2. ASSUME NEW k \in Callers, NEW d \in Clients, NEW r \in ResponsePacket,
             ConsumeTicket(k, d, r)
      PROVE  FALSE
  <2>1. pending'[c] \subseteq pending[c]
    BY <1>2 DEF ConsumeTicket
  <2>2. \A j \in Callers \ {k} : call'[j] = call[j]
    BY <1>2 DEF ConsumeTicket
  <2>3. call'[k].client = c => call'[k].ticket \in pending[c]
    BY <1>2 DEF ConsumeTicket, Accepts
  <2>4. QED
    BY <2>1, <2>2, <2>3 DEF Work
<1>3. ASSUME NEW d \in Clients, NEW u \in Tickets, NEW q \in Queries, BeginQuery(d, u, q)
      PROVE  d = c /\ u = t
  BY <1>3 DEF BeginQuery, Work
<1>4. ASSUME NEW d \in Clients,
             \/ Construct(d)
             \/ \E s \in Setups : PrepareIndex(d, s)
             \/ CancelPending(d)
             \/ ProtectState(d)
             \/ \E v \in saved : Restore(d, v)
             \/ Crash(d)
      PROVE  FALSE
  BY <1>4, <1>1 DEF Construct, PrepareIndex, CancelPending, ProtectState, Restore, Crash
<1>5. ASSUME NEW k \in Callers, Finish(k)
      PROVE  FALSE
  BY <1>5, <1>1 DEF Finish, RejectUndecodable, DecryptAndCheck
<1>6. CASE UNCHANGED clientVars
  BY <1>6, <1>1 DEF clientVars
<1>7. QED
  BY <1>2, <1>3, <1>4, <1>5, <1>6 DEF ClientNext, Operate

(* What a step leaves of the owner's variables when it neither starts nor  *)
(* accepts a challenge nor begins a query.                                 *)
Winding ==
  /\ UNCHANGED <<issued, requests>>
  /\ \A c \in Clients : hello'[c] \in {hello[c], None} /\ lease'[c] \in {lease[c], None}
  /\ \A c \in Clients : Work(c)' \subseteq Work(c)

LEMMA WindingSteps ==
  ASSUME AttestedTypeOK, [ClientNext]_clientVars, [AttestedNext]_attestedVars,
         ~ \E c \in Clients, n \in Nonces : BeginAttestation(c, n),
         ~ \E c \in Clients, e \in evidence : AcceptAttestation(c, e),
         ~ \E c \in Clients, t \in Tickets, q \in Queries :
             AttestedBegin(c, t, q) \/ BeginExpires(c, t, q)
  PROVE  Winding
<1> USE DEF AttestedTypeOK, OwnerTypeOK
<1>1. ASSUME UNCHANGED packet
      PROVE  \A c \in Clients : Work(c)' \subseteq Work(c)
  <2>1. ~ \E c \in Clients, t \in Tickets, q \in Queries : BeginQuery(c, t, q)
    <3> SUFFICES ASSUME NEW c \in Clients, NEW t \in Tickets, NEW q \in Queries,
                        BeginQuery(c, t, q)
                 PROVE  FALSE
      OBVIOUS
    <3>1. setup[c] \in Setups /\ packet[t] = None
      BY DEF BeginQuery, MayBegin, ClientTypeOK
    <3>2. packet'[t] = [setup |-> setup[c], ticket |-> t, query |-> q]
      BY DEF BeginQuery, ClientTypeOK
    <3>3. packet'[t] # None
      BY <3>1, <3>2, PacketIsNotNone DEF QueryPacket
    <3>4. QED
      BY <1>1, <3>1, <3>3
  <2>2. QED
    BY <2>1, WorkGrows
<1>2. CASE EnclaveNext
  BY <1>1, <1>2, EnclaveLeavesOwner DEF clientVars, ownerVars, Winding
<1>3. CASE UNCHANGED attestedVars
  BY <1>1, <1>3 DEF attestedVars, clientVars, ownerVars, Winding
<1>4. ASSUME NEW c \in Clients,
             \/ OwnerOperate(c)
             \/ \E k \in Callers, r \in ResponsePacket, x \in receipts :
                  AttestedFinish(k, c, r, x)
      PROVE  Winding
  <2>1. UNCHANGED packet
    BY <1>4 DEF OwnerOperate, AttestedFinish, Construct, PrepareIndex, CancelPending,
                ProtectState, Restore, ConsumeTicket
  <2>2. QED
    BY <1>1, <1>4, <2>1 DEF OwnerOperate, AttestedFinish, ownerVars, Winding
<1>5. ASSUME NEW c \in Clients, HandshakeTimesOut(c) \/ LeaseExpires(c) \/ OwnerCrash(c)
      PROVE  Winding
  BY <1>1, <1>5
     DEF HandshakeTimesOut, LeaseExpires, OwnerCrash, Crash, clientVars, Winding
<1>6. ASSUME NEW k \in Callers, AttestedDecode(k)
      PROVE  Winding
  BY <1>1, <1>6
     DEF AttestedDecode, Finish, RejectUndecodable, DecryptAndCheck, ownerVars, Winding
<1>7. QED
  BY <1>2, <1>3, <1>4, <1>5, <1>6 DEF AttestedNext, OwnerNext

(* Challenges are never reused, ...                                        *)
LEMMA ChallengeStep ==
  ASSUME AttestedTypeOK, ChallengeInv, SessionsApart, [AttestedNext]_attestedVars,
         [ClientNext]_clientVars
  PROVE  ChallengeInv' /\ SessionsApart'
<1> USE DEF AttestedTypeOK, OwnerTypeOK
<1>1. ASSUME NEW c \in Clients, NEW n \in Nonces, BeginAttestation(c, n)
      PROVE  ChallengeInv' /\ SessionsApart'
  <2>1. /\ hello' = [hello EXCEPT ![c] = n]
        /\ lease' = [lease EXCEPT ![c] = None]
        /\ issued[n] = None
        /\ issued' = [issued EXCEPT ![n] = setup[c]]
        /\ setup[c] # None
    BY <1>1 DEF BeginAttestation
  <2>2. n # None
    BY AttestedAssumption
  <2>3. Work(c)' = {}
    BY <1>1 DEF BeginAttestation, CancelPending, GateFree, Work, ClientTypeOK
  <2>4. \A d \in Clients : Work(d)' \subseteq Work(d)
    BY <1>1 DEF BeginAttestation, CancelPending, Work, ClientTypeOK
  <2>5. \A d \in Clients : hello[d] # None => hello[d] # n /\ issued'[hello[d]] # None
    BY <2>1 DEF ChallengeInv
  <2>6. \A d \in Clients :
          lease[d] # None => lease[d].nonce # n /\ issued'[lease[d].nonce] # None
    BY <2>1 DEF ChallengeInv, Session
  <2>7. issued'[n] # None
    BY <2>1
  <2>8. ChallengeInv'
    BY <2>1, <2>2, <2>3, <2>4, <2>5, <2>6, <2>7 DEF ChallengeInv
  <2>9. SessionsApart'
    BY <2>1, <2>6 DEF SessionsApart
  <2>10. QED
    BY <2>8, <2>9
<1>2. ASSUME NEW c \in Clients, NEW e \in evidence, AcceptAttestation(c, e)
      PROVE  ChallengeInv' /\ SessionsApart'
  <2>1. /\ hello[c] # None
        /\ e.nonce = hello[c]
        /\ lease' = [lease EXCEPT ![c] = e]
        /\ hello' = [hello EXCEPT ![c] = None]
        /\ issued' = issued
    BY <1>2 DEF AcceptAttestation, FreshEvidence
  <2>2. \A d \in Clients : Work(d)' = Work(d)
    BY <1>2 DEF AcceptAttestation, clientVars, Work
  <2>3. ChallengeInv'
    BY <2>1, <2>2 DEF ChallengeInv
  <2>4. \A d \in Clients \ {c} : lease[d] # e /\ hello[d] # e.nonce
    BY <2>1, SessionAssumption DEF SessionsApart, ChallengeInv, EnclaveTypeOK
  <2>5. \A d \in Clients : lease[d] # None => lease[d].nonce # None
    BY AttestedAssumption DEF Session
  <2>6. SessionsApart'
    BY <2>1, <2>4, <2>5 DEF SessionsApart
  <2>7. QED
    BY <2>3, <2>6
<1>3. ASSUME NEW c \in Clients, NEW t \in Tickets, NEW q \in Queries,
             AttestedBegin(c, t, q) \/ BeginExpires(c, t, q)
      PROVE  ChallengeInv' /\ SessionsApart'
  <2>1. /\ lease[c] # None
        /\ UNCHANGED <<hello, issued>>
        /\ \A d \in Clients : lease'[d] \in {lease[d], None}
    BY <1>3 DEF AttestedBegin, BeginExpires
  <2>2. \A d \in Clients \ {c} : Work(d)' = Work(d)
    BY <1>3 DEF AttestedBegin, BeginExpires, BeginQuery, Work, ClientTypeOK
  <2>3. hello[c] = None
    BY <2>1 DEF ChallengeInv
  <2>4. ChallengeInv'
    BY <2>1, <2>2, <2>3 DEF ChallengeInv
  <2>5. SessionsApart'
    BY <2>1 DEF SessionsApart
  <2>6. QED
    BY <2>4, <2>5
<1>4. ASSUME Winding
      PROVE  ChallengeInv' /\ SessionsApart'
  BY <1>4 DEF Winding, ChallengeInv, SessionsApart
<1>5. QED
  BY <1>1, <1>2, <1>3, <1>4, WindingSteps

(* ... and what a client works on was asked in the session it has.         *)
LEMMA WorkStep ==
  ASSUME AttestedTypeOK, ClientInv, ChallengeInv, RequestsInv, RequestsInv', WorkOfSession,
         [AttestedNext]_attestedVars, [ClientNext]_clientVars
  PROVE  WorkOfSession'
<1> USE DEF AttestedTypeOK, OwnerTypeOK
<1>1. \A c \in Clients : \A t \in Work(c) : packet'[t] = packet[t]
  BY WorkIsBegun, BegunPacketsStay
<1>2. ASSUME NEW c \in Clients, NEW n \in Nonces, BeginAttestation(c, n)
      PROVE  WorkOfSession'
  <2>1. \A d \in Clients : Work(d)' \subseteq Work(d)
    BY <1>2 DEF BeginAttestation, CancelPending, Work, ClientTypeOK
  <2>2. requests' = requests /\ lease' = [lease EXCEPT ![c] = None]
    BY <1>2 DEF BeginAttestation
  <2>3. QED
    BY <1>1, <2>1, <2>2 DEF WorkOfSession
<1>3. ASSUME NEW c \in Clients, NEW e \in evidence, AcceptAttestation(c, e)
      PROVE  WorkOfSession'
  <2>1. Work(c) = {} /\ lease' = [lease EXCEPT ![c] = e]
    BY <1>3 DEF AcceptAttestation, ChallengeInv
  <2>2. requests' = requests /\ packet' = packet
    BY <1>3 DEF AcceptAttestation, clientVars
  <2>3. \A d \in Clients : Work(d)' = Work(d)
    BY <1>3 DEF AcceptAttestation, clientVars, Work
  <2>4. QED
    BY <2>1, <2>2, <2>3 DEF WorkOfSession
<1>4. ASSUME NEW c \in Clients, NEW t \in Tickets, NEW q \in Queries,
             AttestedBegin(c, t, q) \/ BeginExpires(c, t, q)
      PROVE  WorkOfSession'
  <2>1. BeginQuery(c, t, q) /\ packet[t] = None
    BY <1>4 DEF AttestedBegin, BeginExpires, BeginQuery
  <2>2. \A d \in Clients : \A u \in Work(d)' : u \in Work(d) \/ (d = c /\ u = t)
    BY <2>1 DEF BeginQuery, Work, ClientTypeOK
  <2>3. \A d \in Clients : lease'[d] # None => lease'[d] = lease[d]
    BY <1>4 DEF AttestedBegin, BeginExpires
  <2>4. \A r \in requests' : r \in requests \/ (r.session = lease[c] /\ r.query.ticket = t)
    BY <1>4 DEF AttestedBegin, BeginExpires
  <2>5. \A r \in requests : r.query.ticket # t
    <3>1. \A r \in requests : r.query \in QueryPacket
      OBVIOUS
    <3>2. QED
      BY <2>1, <3>1, PacketIsNotNone DEF RequestsInv
  <2>6. SUFFICES ASSUME NEW d \in Clients, lease'[d] # None, NEW u \in Work(d)',
                        NEW r \in requests', r.query = packet'[u]
                 PROVE  r.session = lease'[d]
    BY DEF WorkOfSession
  <2>7. u \in Tickets /\ r.query.ticket = u
    <3>1. u \in Tickets
      BY <2>2, WorkIsBegun
    <3>2. packet'[u] # None
      <4>1. CASE u \in Work(d)
        BY <4>1, <1>1, WorkIsBegun
      <4>2. CASE u = t
        <5>1. setup[c] \in Setups
          BY <2>1 DEF BeginQuery, MayBegin, ClientTypeOK
        <5>2. packet'[t] = [setup |-> setup[c], ticket |-> t, query |-> q]
          BY <2>1 DEF BeginQuery, ClientTypeOK
        <5>3. QED
          BY <4>2, <5>1, <5>2, PacketIsNotNone DEF QueryPacket
      <4>3. QED
        BY <2>2, <4>1, <4>2
    <3>3. QED
      BY <3>1, <3>2, <2>6 DEF RequestsInv
  <2>8. CASE u = t
    <3>1. r.session = lease[c]
      BY <2>4, <2>5, <2>7, <2>8
    <3>2. u \notin Work(d)
      BY <2>1, <2>8, WorkIsBegun
    <3>3. QED
      BY <2>2, <2>3, <2>6, <3>1, <3>2
  <2>9. CASE u # t
    <3>1. u \in Work(d) /\ r \in requests
      BY <2>2, <2>4, <2>7, <2>9
    <3>2. QED
      BY <1>1, <2>3, <2>6, <3>1 DEF WorkOfSession
  <2>10. QED
    BY <2>8, <2>9
<1>5. ASSUME Winding
      PROVE  WorkOfSession'
  BY <1>1, <1>5 DEF Winding, WorkOfSession
<1>6. QED
  BY <1>2, <1>3, <1>4, <1>5, WindingSteps

(* What is decrypted is the result that the enclave's receipt names.       *)
LEMMA DecryptedStep ==
  ASSUME AttestedTypeOK, ClientInv, ReceiptsOfSession, OnlyEnclaveDecrypted,
         [AttestedNext]_attestedVars, [ClientNext]_clientVars
  PROVE  OnlyEnclaveDecrypted'
<1> USE DEF AttestedTypeOK, ClientTypeOK
<1>1. \A k \in Callers : call[k] # Idle =>
        /\ call[k].ticket \in Tickets
        /\ packet'[call[k].ticket] = packet[call[k].ticket]
        /\ call[k].result = Expected(packet[call[k].ticket])
  BY CallFields, BegunPacketsStay
     DEF ClientInv, CallInv, Undecided, OnlyEnclaveDecrypted
<1>2. ASSUME \A k \in Callers : call'[k] = call[k] \/ call'[k] = Idle
      PROVE  OnlyEnclaveDecrypted'
  BY <1>1, <1>2 DEF OnlyEnclaveDecrypted, Expected
<1>3. ASSUME NEW k \in Callers, NEW c \in Clients, NEW r \in ResponsePacket,
             NEW x \in receipts, AttestedFinish(k, c, r, x)
      PROVE  OnlyEnclaveDecrypted'
  <2>1. /\ call' = [call EXCEPT ![k] = [client |-> c, ticket |-> x.response.ticket,
                                        result |-> x.response.result]]
        /\ x.response.request = packet[x.response.ticket]
        /\ packet' = packet
    <3>1. x.response = r
      BY <1>3 DEF AttestedFinish, ReceiptCovers
    <3>2. QED
      BY <1>3, <3>1 DEF AttestedFinish, ConsumeTicket, Accepts
  <2>2. x.response.result = Expected(x.response.request)
    <3>1. x.response = ResponseTo(x.request)
      BY DEF ReceiptsOfSession
    <3>2. x.response.request = x.request /\ x.response.result = Expected(x.request)
      BY <3>1 DEF ResponseTo
    <3>3. QED
      BY <3>2 DEF Expected
  <2>3. QED
    BY <1>1, <2>1, <2>2 DEF OnlyEnclaveDecrypted, Expected
<1>4. CASE EnclaveNext
  BY <1>2, <1>4, EnclaveLeavesOwner DEF clientVars
<1>5. CASE UNCHANGED attestedVars
  BY <1>2, <1>5 DEF attestedVars, clientVars
<1>6. ASSUME NEW c \in Clients,
             \/ OwnerOperate(c)
             \/ OwnerCrash(c)
             \/ \E n \in Nonces : BeginAttestation(c, n)
             \/ \E e \in evidence : AcceptAttestation(c, e)
             \/ \E t \in Tickets, q \in Queries : AttestedBegin(c, t, q) \/ BeginExpires(c, t, q)
             \/ HandshakeTimesOut(c)
             \/ LeaseExpires(c)
      PROVE  OnlyEnclaveDecrypted'
  BY <1>2, <1>6
     DEF OwnerOperate, OwnerCrash, BeginAttestation, AcceptAttestation, AttestedBegin,
         BeginExpires, HandshakeTimesOut, LeaseExpires, clientVars, Construct,
         PrepareIndex, BeginQuery, CancelPending, ProtectState, Restore, Crash
<1>7. ASSUME NEW k \in Callers, AttestedDecode(k)
      PROVE  OnlyEnclaveDecrypted'
  BY <1>2, <1>7 DEF AttestedDecode, Finish, RejectUndecodable, DecryptAndCheck
<1>8. QED
  BY <1>3, <1>4, <1>5, <1>6, <1>7 DEF AttestedNext, OwnerNext

(* The invariant of attested sessions.                                     *)
THEOREM AttestedInvariant == AttestedSpec => []AttestedInv
<1>1. AttestedInit => AttestedInv
  BY ClientAssumption
     DEF AttestedInit, ClientInit, ServerInit, AttestedInv, EnclaveInv, RequestsInv,
         ChallengeInv, ReceiptsOfSession, OnlyEnclaveDecrypted, WorkOfSession, SessionsApart
<1>2. /\ AttestedTypeOK /\ ClientInv /\ AttestedInv
      /\ [ClientNext]_clientVars /\ [AttestedNext]_attestedVars
      => AttestedInv'
  BY EnclaveStep, RequestsStep, ChallengeStep, WorkStep, DecryptedStep DEF AttestedInv
<1>3. ClientSpec => [][ClientNext]_clientVars
  BY PTL DEF ClientSpec
<1>4. QED
  BY <1>1, <1>2, <1>3, AttestedTypeCorrect, AttestedImplementsClient, ClientInvariant, PTL
     DEF AttestedSpec

(* Only what an enclave has computed for the very query is decrypted.      *)
THEOREM OnlyEnclaveResultsDecrypted == AttestedSpec => []OnlyEnclaveDecrypted
  BY AttestedInvariant, PTL DEF AttestedInv

(* A client works on nothing that was asked in another session.            *)
THEOREM WorkBelongsToSession == AttestedSpec => []WorkOfSession
  BY AttestedInvariant, PTL DEF AttestedInv

(* A receipt names the session its request was authorised in.              *)
THEOREM ReceiptsNameTheirSession == AttestedSpec => []ReceiptsOfSession
  BY AttestedInvariant, PTL DEF AttestedInv

(* No two objects share a session, no lost session is accepted again.      *)
THEOREM SessionsStayApart == AttestedSpec => []SessionsApart
  BY AttestedInvariant, PTL DEF AttestedInv

(* The guarantees of the inner client and server carry over: in particular *)
(* a ticket is evaluated once in a boot, whatever sessions are renewed.    *)
THEOREM AttestedImplementsOneUse ==
  AttestedSpec => ImplementsOneUse /\ []OneEvaluation /\ []EvaluationBudget
  BY AttestedImplementsClient, ClientImplementsOneUse, AttestedImplementsServer,
     AtMostOneEvaluation, EvaluationsWithinBudget, PTL
=============================================================================
