------------------------------ MODULE MCKernels ------------------------------
(***************************************************************************)
(* Six machines of arithmetic, one of them in each behaviour: the native   *)
(* kernels of BFV, the packed products of its Python evaluator, and        *)
(* Paillier.  The others stay in an initial state of theirs.               *)
(***************************************************************************)
EXTENDS DigitSums, ExactRescaling, MixedRadix, PackedWire, KroneckerPacking, PaillierHamming

VARIABLE running   \* the machine of this behaviour

Machines == {"sums", "rescaling", "radix", "wire", "packing", "paillier"}

(* Digits and keys are as large as can be.                                 *)
MCOperands == {-1}

MCTransformPrimes == <<31, 29, 23, 19, 17>>
MCRadixPrimes == <<31, 29, 23>>

(* Quotients at both ends of the range of a tensor, and around zero.       *)
MCQuotients == {-3588, -3587, -1, 0, 1, 3586}

(* Zero, one, the largest coefficient and one with many bits.              *)
MCSamples == {0, 1, -1, 21845}

(* All coefficients the largest, and a single one.                         *)
MCKeyPolys == {[i \in 0 .. 3 |-> 508], [i \in 0 .. 3 |-> IF i = 3 THEN 508 ELSE 0]}

(* Every polynomial of three coefficients: none, one in the middle and one *)
(* of the largest digits, so that lanes one bit narrower are too narrow.   *)
MCPolys == [0 .. 3 -> {0, 254, 503}]

(* All vectors up to the shortest key; beyond it a few that fill a chunk   *)
(* or leave it nearly empty.                                               *)
MCVectors(e) ==
  IF e <= 3 THEN [1 .. e -> {0, 1}]
  ELSE {[d \in 1 .. e |-> 0], [d \in 1 .. e |-> 1],
        [d \in 1 .. e |-> IF d = e THEN 1 ELSE 0], [d \in 1 .. e |-> IF d > 2 THEN 1 ELSE 0]}

-----------------------------------------------------------------------------

(* Inputs of the machines that do not run.                                 *)
SumsRest == prime = 31 /\ fast = FALSE /\ digit = 0 /\ accum = 0 /\ total = 0
RescaleRest ==
  /\ step = "normalize" /\ value = 0 /\ modulus = 2
  /\ terms = <<>> /\ alpha = 0 /\ rounded = 0 /\ quotient = <<>> /\ rescaled = <<>>
RadixRest == coefficient = 0 /\ loop = "garner" /\ digits = <<>> /\ words = <<>>
WireRest ==
  /\ side = "export" /\ q = 5 /\ poly = [i \in Index |-> 0] /\ data = [size |-> 0, bits |-> {}]
  /\ packed = [k \in PackedWords |-> {}] /\ received = poly /\ next = 0
PackingRest ==
  /\ switched = [i \in Coefficients |-> 0]
  /\ switchKey = [d \in 1 .. KeyDigits |-> <<[i \in 0 .. 3 |-> 508], [i \in 0 .. 3 |-> 508]>>]
  /\ digitsDone = 0 /\ sums = <<Zero, Zero>> /\ output = <<>>
PaillierRest ==
  /\ scheme = "paillier" /\ keyPair = (CHOOSE k \in PaillierKeys(3) : TRUE)
  /\ embedLen = 0 /\ first = <<>> /\ second = <<>> /\ phase = "keys"
  /\ ct1 = <<>> /\ ct2 = <<>> /\ response = <<>> /\ distance = 0

Init ==
  /\ running \in Machines
  /\ IF running = "paillier" THEN PaillierInit ELSE PaillierRest
  /\ IF running = "packing" THEN PackingInit ELSE PackingRest
  /\ IF running = "wire" THEN WireInit ELSE WireRest
  /\ IF running = "sums" THEN SumsInit ELSE SumsRest
  /\ IF running = "radix" THEN RadixInit ELSE RadixRest
  /\ IF running = "rescaling" THEN RescaleInit ELSE RescaleRest

Others(machine) ==
  /\ running = machine
  /\ UNCHANGED running
  /\ machine # "sums" => UNCHANGED vars
  /\ machine # "rescaling" => UNCHANGED rescaleVars
  /\ machine # "radix" => UNCHANGED radixVars
  /\ machine # "wire" => UNCHANGED wireVars
  /\ machine # "packing" => UNCHANGED packingVars
  /\ machine # "paillier" => UNCHANGED paillierVars

Next ==
  \/ Others("sums") /\ SumsNext
  \/ Others("rescaling") /\ RescaleNext
  \/ Others("radix") /\ RadixNext
  \/ Others("wire") /\ WireNext
  \/ Others("packing") /\ PackingNext
  \/ Others("paillier") /\ PaillierNext

Spec ==
  Init /\ [][Next]_<<running, vars, rescaleVars, radixVars, wireVars, packingVars, paillierVars>>
=============================================================================
