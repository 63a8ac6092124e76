--------------------------- MODULE GuardedSession ---------------------------
(***************************************************************************)
(* BFVGuardedClient and BFVPublicVerifier (hamming/bfv_guarded.py): a      *)
(* client that decrypts only what its own verifier has recomputed and      *)
(* signed.  The client composes VerifiedClient, the verifier composes      *)
(* VerifiedServer.  The evaluator is not trusted and not modelled as an    *)
(* actor: it holds the authentication key, so it may have any query        *)
(* recomputed, propose any response for it, and hand the client any        *)
(* response with any receipt.                                              *)
(***************************************************************************)
EXTENDS VerifiedClient, VerifiedServer

VARIABLES
  proposal,   \* proposal[w]: the response that approve call w is to compare
  approvals,  \* the receipts the verifier has signed
  gate        \* gate[k]: the client and response whose receipt caller k has checked

guardVars == <<proposal, approvals, gate>>

guardedVars == <<clientVars, serverVars, guardVars>>

(* What a receipt says: MAGIC, CIRCUIT, setup digest, H(query), H(response)*)
Receipt == [setup : Setups, request : QueryPacket, response : ResponsePacket]

Open == [client |-> None, response |-> None]

Checked == [client : Clients, response : ResponsePacket]

GuardedTypeOK ==
  /\ ClientTypeOK
  /\ ServerTypeOK
  /\ proposal \in [Workers -> ResponsePacket \cup {None}]
  /\ approvals \subseteq Receipt
  /\ gate \in [Callers -> Checked \cup {Open}]

GuardedInit ==
  /\ ClientInit
  /\ ServerInit
  /\ proposal = [w \in Workers |-> None]
  /\ approvals = {}
  /\ gate = [k \in Callers |-> Open]

(* approve calls self._server.search(query) first, whatever is proposed.   *)
ApproveStart(w, p, r) ==
  /\ Admit(w, p)
  /\ proposal' = [proposal EXCEPT ![w] = r]
  /\ UNCHANGED <<clientVars, approvals, gate>>

ApproveSearch(w) ==
  /\ BurnTicket(w) \/ Refuse(w) \/ Evaluate(w) \/ EvaluationFails(w)
  /\ UNCHANGED <<clientVars, guardVars>>

(* The search has returned: sign if the proposal is, byte for byte, the    *)
(* recomputed response.                                                    *)
(* Mutant: the proposal is compared in everything but its result.          *)
ApprovesHeader(p, r) == r.setup = ServerSetup /\ r.ticket = p.ticket /\ r.request = p

Approves(p, r) == r = ResponseTo(p)

ApproveReturn(w) ==
  LET p == search[w].query
  IN /\ Release(w)
     /\ approvals' =
          IF search[w].at = "done" /\ Approves(p, proposal[w])
          THEN approvals \cup
                 {[setup |-> ServerSetup, request |-> p, response |-> proposal[w]]}
          ELSE approvals
     /\ proposal' = [proposal EXCEPT ![w] = None]
     /\ UNCHANGED <<clientVars, gate>>

VerifierRestart ==
  /\ Restart
  /\ proposal' = [w \in Workers |-> None]
  /\ UNCHANGED <<clientVars, approvals, gate>>

(* The first half of finish_query: the receipt names this setup, this      *)
(* response and a query that is pending now, and the verifier signed it.   *)
(* Mutant: the signature is not verified.                                  *)
SignedByAnyone(x) == TRUE

Signed(x) == x \in approvals

(* Mutant: the receipt is bound to the request and not to the response.    *)
ReceiptBindsRequest(c, r, x) == x.setup = setup[c] /\ x.request = r.request

ReceiptBinds(c, r, x) == x.setup = setup[c] /\ x.response = r

RequestPending(c, x) == \E t \in pending[c] : packet[t] = x.request

CheckReceipt(k, c, r, x) ==
  /\ gate[k] = Open
  /\ call[k] = Idle
  /\ phase[c] = "ready"
  /\ ReceiptBinds(c, r, x)
  /\ RequestPending(c, x)
  /\ Signed(x)
  /\ gate' = [gate EXCEPT ![k] = [client |-> c, response |-> r]]
  /\ UNCHANGED <<clientVars, serverVars, proposal, approvals>>

(* The second half calls the inner finish_query, after other threads may   *)
(* have finished or cancelled the same query: it consumes the ticket ...   *)
PassInner(k) ==
  /\ gate[k] # Open
  /\ ConsumeTicket(k, gate[k].client, gate[k].response)
  /\ gate' = [gate EXCEPT ![k] = Open]
  /\ UNCHANGED <<serverVars, proposal, approvals>>

(* ... or refuses.                                                         *)
RefuseInner(k) ==
  /\ gate[k] # Open
  /\ ~Accepts(gate[k].client, gate[k].response)
  /\ gate' = [gate EXCEPT ![k] = Open]
  /\ UNCHANGED <<clientVars, serverVars, proposal, approvals>>

(* The other operations go straight to the inner session.                  *)
GuardedOperate(c) == Operate(c) /\ UNCHANGED <<serverVars, guardVars>>

GuardedFinish(k) == Finish(k) /\ UNCHANGED <<serverVars, guardVars>>

GuardedCrash(c) ==
  /\ Crash(c)
  /\ gate' = [k \in Callers |-> IF gate[k].client = c THEN Open ELSE gate[k]]
  /\ UNCHANGED <<serverVars, proposal, approvals>>

GuardedNext ==
  \/ \E w \in Workers, p \in QueryPacket, r \in ResponsePacket : ApproveStart(w, p, r)
  \/ \E w \in Workers : ApproveSearch(w) \/ ApproveReturn(w)
  \/ VerifierRestart
  \/ \E c \in Clients : GuardedOperate(c) \/ GuardedCrash(c)
  \/ \E k \in Callers, c \in Clients, r \in ResponsePacket, x \in Receipt :
       CheckReceipt(k, c, r, x)
  \/ \E k \in Callers : PassInner(k) \/ RefuseInner(k) \/ GuardedFinish(k)

GuardedSpec == GuardedInit /\ [][GuardedNext]_guardedVars

-----------------------------------------------------------------------------

(* No response reaches private decryption unless it is the exact result of *)
(* the exact query begun with its ticket, so the acceptance of a guarded   *)
(* response never depends on a secret: the check after decryption cannot   *)
(* fail any more ("A bad receipt never reaches private decryption or       *)
(* plaintext checking").                                                   *)
OnlyRecomputedDecrypted == \A k \in Callers : call[k] # Idle =>
  call[k].result = Expected(packet[call[k].ticket])

(* Every decryption ends in an answer.                                     *)
NoLateRejection == \A t \in Tickets : decrypted[t] # 0 =>
  <<t, Expected(packet[t])>> \in returned

(* Why these hold: the verifier signs for whoever asks, but nothing other  *)
(* than the right response to a query of its own setup; ...                *)
ReceiptsAreRight == \A x \in approvals :
  /\ x.setup = ServerSetup /\ x.request.setup = ServerSetup
  /\ x.response = ResponseTo(x.request)

(* ... a response that waits between the two halves of finish_query has a  *)
(* receipt, even when its query has meanwhile been finished or cancelled;  *)
GateInv == \A k \in Callers : gate[k] # Open =>
  \E x \in approvals : x.response = gate[k].response

(* ... and a search past the replay set is for the verifier's own setup.   *)
OwnSetupInv == \A w \in Workers :
  search[w].at \in {"burnt", "done"} => search[w].query.setup = ServerSetup

(* The inductive invariant of the proofs, on top of ClientInv.             *)
GuardInv == /\ OwnSetupInv /\ ReceiptsAreRight /\ GateInv
            /\ OnlyRecomputedDecrypted /\ NoLateRejection
=============================================================================
