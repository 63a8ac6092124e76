-------------------------- MODULE MCPrivateDecoder --------------------------
(***************************************************************************)
(* The native private decoder, and the transforms of the server whose      *)
(* responses it decodes: the calls of the decoder's threads, what one      *)
(* decoding computes, or one transform.  The others stay in an initial     *)
(* state of theirs.                                                        *)
(***************************************************************************)
EXTENDS PrivateDecoder, PrivateDecoding, PrimeTransform

VARIABLE running   \* "calls", "arithmetic" or "transform"

(* Dense, sparse and signed keys, and one byte that is no coefficient.     *)
MCSecrets == {
  [i \in 0 .. 7 |-> 1],
  [i \in 0 .. 7 |-> 255],
  [i \in 0 .. 7 |-> IF i = 0 THEN 1 ELSE 255],
  [i \in 0 .. 7 |-> <<0, 1, 255, 1, 0, 0, 255, 1>>[i + 1]],
  [i \in 0 .. 7 |-> IF i = 5 THEN 2 ELSE 1]}

(* Coefficients at both ends of the range, and in between; every fourth of *)
(* q once lies next to a boundary of rounding; and four of which the sum,  *)
(* 30240, has residues 2002 and 16: further apart than the smaller prime.  *)
MCCoefficients == {
  [i \in 0 .. 7 |-> 0],
  [i \in 0 .. 7 |-> Divisor - 1],
  [i \in 0 .. 7 |-> IF i % 2 = 0 THEN Divisor - 1 ELSE 0],
  [i \in 0 .. 7 |-> (i * 4099 + 77) % Divisor],
  [i \in 0 .. 7 |-> IF i < 4 THEN 7560 ELSE 0],
  [i \in 0 .. 7 |-> (Divisor \div 34) * (2 * i + 1) + (i % 2)]}

MCCiphertexts == [c0 : MCCoefficients, c1 : MCCoefficients]

(* Constants, single coefficients and full polynomials, the largest        *)
(* coefficient counted back from p.                                        *)
MCPolynomials == {
  [i \in 0 .. 7 |-> -1],
  [i \in 0 .. 7 |-> IF i = 7 THEN -1 ELSE 0],
  [i \in 0 .. 7 |-> IF i % 2 = 0 THEN -1 ELSE 0],
  [i \in 0 .. 7 |-> i * i + 3]}

-----------------------------------------------------------------------------

ArithmeticRest ==
  /\ key = Nobody /\ cipher = Nobody /\ progress = "idle"
  /\ decoderSpectra = <<>> /\ product = <<>> /\ lifted = <<>> /\ plaintext = <<>>

TransformRest ==
  /\ plan = NewPlan("plain", PlainModulus)
  /\ subject = [i \in Positions |-> 0] /\ factor = subject /\ values = subject
  /\ pass = FirstPass("plain") /\ length = RingDegree

Init ==
  /\ running \in {"calls", "arithmetic", "transform"}
  /\ IF running = "arithmetic" THEN DecodingInit ELSE ArithmeticRest
  /\ IF running = "transform" THEN TransformInit ELSE TransformRest
  /\ DecoderInit

Next ==
  /\ UNCHANGED running
  /\ \/ running = "calls" /\ DecoderNext /\ UNCHANGED <<decodingVars, transformVars>>
     \/ running = "arithmetic" /\ DecodingNext /\ UNCHANGED <<decoderVars, transformVars>>
     \/ running = "transform" /\ TransformNext /\ UNCHANGED <<decoderVars, decodingVars>>

(* Fairness as in FairDecoderSpec; without calls no step of it is enabled. *)
Spec ==
  /\ Init /\ [][Next]_<<running, decoderVars, decodingVars, transformVars>>
  /\ \A t \in DecoderThreads : WF_decoderVars(Step(t))

-----------------------------------------------------------------------------

(* The native code computes what the Python scheme would.  The slots of a  *)
(* decoding are those it decrypts and decodes, for any ciphertext at all;  *)
(* on the way to them the product with the secret is lifted with its sign, *)
(* and no long division is cut short.  The mask of the native server, for  *)
(* so many vectors of a width, is the plaintext the client would encode.   *)
AgreesWithScheme ==
  /\ running = "arithmetic" =>
       /\ DecodingTypeOK
       /\ ProductsLifted
       /\ DivisionsExact
       /\ DecodesAsScheme
  /\ running = "transform" => MasksAreEncoded
=============================================================================
