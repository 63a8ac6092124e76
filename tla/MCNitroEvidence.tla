--------------------------- MODULE MCNitroEvidence ---------------------------
(***************************************************************************)
(* The evidence of an enclave, in two sizes, and the NSM device it comes   *)
(* from: the clocks and leases with the documents of one enclave, or for a *)
(* shorter time, without searches, all documents that anyone can show; or the device.  What   *)
(* does not run stays in its initial state.                                *)
(***************************************************************************)
EXTENDS NitroEvidence, NitroNSM, TLC

VARIABLE running   \* "times", "documents" or "device"

MCCert(s, i, c, u) == [subject |-> s, issuer |-> i, ca |-> c, until |-> u]

MCRoot == MCCert("aws", "aws", TRUE, 15)
MCRegion == MCCert("region", "aws", TRUE, 5)
MCLeaf == MCCert("nsm", "region", FALSE, 6)

(* The chain of the NSM, a chain of the host, and the host's certificates  *)
(* hung below those of AWS.                                                *)
MCOwnChain == <<MCRoot, MCRegion, MCLeaf>>
MCChains == {
  MCOwnChain,
  <<MCCert("host", "host", TRUE, 15), MCCert("mine", "host", FALSE, 15)>>,
  <<MCRoot, MCCert("mine", "host", FALSE, 15)>>,
  <<MCRoot, MCRegion, MCLeaf, MCCert("mine", "nsm", FALSE, 15)>>}
MCHostKeys == {"host", "mine"}

(* The application is the same, and only an optional pin tells them apart. *)
MCPins == [i \in {0, 1, 2, 4} |-> "image"]
MCForeignPcrs == {[MCPins EXCEPT ![4] = "other"], [i \in {0, 1, 2} |-> "image"]}

MCDrifts == {-1, 0, 2}

MCSymmetry == Permutations(Nonces) \cup Permutations(Threads)

-----------------------------------------------------------------------------

Init ==
  /\ running \in {"times", "documents", "device"}
  /\ NitroInit
  /\ running = "device" => drift = 0
  /\ NSMInit

(* Bounds of the two sizes.                                                *)
OwnDocuments ==
  /\ \A d \in evidence' : d.pcrs = OwnPcrs
  /\ accept'.at # "rest" => accept'.doc \in evidence'
NoSearches == mono' <= 2 /\ search' = None

Next ==
  /\ UNCHANGED running
  /\ \/ running = "times" /\ NitroNext /\ OwnDocuments /\ UNCHANGED nsmVars
     \/ running = "documents" /\ NitroNext /\ NoSearches /\ UNCHANGED nsmVars
     \/ running = "device" /\ NSMNext /\ UNCHANGED nitroVars

Spec == Init /\ [][Next]_<<running, nitroVars, nsmVars>>
=============================================================================
