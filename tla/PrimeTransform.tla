--------------------------- MODULE PrimeTransform ---------------------------
(***************************************************************************)
(* The number-theoretic transform of the native kernels (PrimeNTT of       *)
(* _cpu_ext/rns_ntt.h) in its three forms: plain keeps every value below   *)
(* p, lazy keeps values below 2p or 4p between the stages, and fused also  *)
(* folds the negacyclic twist and 1/N into the roots of the stages.  One   *)
(* step is one pass over the values.  A run multiplies two polynomials, or *)
(* turns the slots of a mask (HammingServer of _cpu_ext/bfv_server.h) into *)
(* a plaintext.                                                            *)
(***************************************************************************)
EXTENDS WordArithmetic, FiniteSetsExt, TLC

CONSTANTS RingDegree,     \* N
          NttPrimes,         \* moduli of the transforms
          PlainModulus,   \* t: the modulus of the transform of masks
          Polynomials,    \* with coefficients counted from the modulus
          PaddedLengths   \* padded embedding lengths of the servers

(* A negative coefficient counts back from the modulus.                    *)
ASSUME TransformAssumption ==
  /\ RingDegree \in {2^i : i \in 2 .. 15}
  /\ \A prime \in NttPrimes \cup {PlainModulus} : Fits(prime) /\ prime % (2 * RingDegree) = 1
  /\ \A f \in Polynomials : f \in [0 .. RingDegree - 1 -> Int]
  /\ \A padded \in PaddedLengths : padded \in Nat \ {0} /\ RingDegree % (2 * padded) = 0

Positions == 0 .. RingDegree - 1
LogN == CHOOSE l \in 0 .. 15 : 2^l = RingDegree

(* f[0] + ... + f[n - 1]                                                   *)
SumBelow(f, n) ==
  LET sum[k \in 0 .. n] == IF k = 0 THEN 0 ELSE sum[k - 1] + f[k - 1]
  IN  sum[n]

BitReversed(i) ==
  SumBelow([b \in 0 .. LogN - 1 |-> ((i \div 2^b) % 2) * 2^(LogN - 1 - b)], LogN)

VARIABLES plan,      \* the transform: form, modulus and roots
          subject,   \* what is transformed
          factor,    \* the other polynomial of the product
          pass,        \* the pass that comes next
          length,    \* length of the blocks of its butterflies
          values
transformVars == <<plan, subject, factor, pass, length, values>>

Prime == plan.p
Twice == 2 * Prime

(* An N-th root of -1, the first one found.                                *)
RootOf(c, prime) == PowerMod(c, (prime - 1) \div (2 * RingDegree), prime)
Candidates(prime) ==
  {c \in 2 .. prime - 1 : PowerMod(RootOf(c, prime), RingDegree, prime) = prime - 1}
Psi(prime) == RootOf(Min(Candidates(prime)), prime)

(* The moduli are prime: the search for a root ends, and power_mod finds   *)
(* the inverse of N.                                                       *)
ASSUME RootsAssumption ==
  \A prime \in NttPrimes \cup {PlainModulus} :
    /\ Candidates(prime) # {}
    /\ (Invert(RingDegree % prime, prime) * RingDegree) % prime = 1

(* Mutant: 1/N is left out of the last butterfly.                          *)
FusedPlanMutant(prime) ==
  LET psi == Psi(prime)
      Root(i) == PowerMod(psi, BitReversed(i), prime)
      Back(i) == PowerMod(Invert(psi, prime), BitReversed(i), prime)
      n == Invert(RingDegree % prime, prime)
  IN  [form |-> "fused", p |-> prime,
       roots |-> [i \in Positions |-> Multiplier(Root(i), prime)],
       inverses |-> [i \in Positions |-> Multiplier(Back(i), prime)],
       scale |-> Multiplier(n, prime),
       last |-> Multiplier(Back(1), prime)]

FusedPlan(prime) ==
  LET psi == Psi(prime)
      Root(i) == PowerMod(psi, BitReversed(i), prime)
      Back(i) == PowerMod(Invert(psi, prime), BitReversed(i), prime)
      n == Invert(RingDegree % prime, prime)
  IN  [form |-> "fused", p |-> prime,
       roots |-> [i \in Positions |-> Multiplier(Root(i), prime)],
       inverses |-> [i \in Positions |-> Multiplier(Back(i), prime)],
       scale |-> Multiplier(n, prime),
       last |-> Multiplier((Back(1) * n) % prime, prime)]

TwistedPlan(form, prime) ==
  LET psi == Psi(prime)
      omega == (psi * psi) % prime
      n == Invert(RingDegree % prime, prime)
      Power(b, i) == Multiplier(PowerMod(b, i, prime), prime)
      Half == 0 .. RingDegree \div 2 - 1
  IN  [form |-> form, p |-> prime,
       roots |-> [i \in Half |-> Power(omega, i)],
       inverses |-> [i \in Half |-> Power(Invert(omega, prime), i)],
       twists |-> [i \in Positions |-> Power(psi, i)],
       scales |-> [i \in Positions |->
         Multiplier((n * PowerMod(Invert(psi, prime), i, prime)) % prime, prime)]]

NewPlan(form, prime) ==
  IF form = "fused" THEN FusedPlan(prime) ELSE TwistedPlan(form, prime)

PlanTimes(m, x) == IF plan.form = "plain" THEN Multiply(m, x, Prime) ELSE MultiplyLazy(m, x, Prime)

(* remainder(): Barrett in the fast forms, the division of C otherwise.    *)
PlanRemainder(x) == IF plan.form = "plain" THEN x % Prime ELSE Reduce(x, Prime)

(* The two ends of the butterfly of position i, and its place in a block.  *)
First(i) == (i - (i % length)) + ((i % length) % (length \div 2))
InHalf(i) == (i % length) % (length \div 2)
IsFirst(i) == i % length < length \div 2

-----------------------------------------------------------------------------

(* The odd powers of psi at which a form evaluates, in the order of the    *)
(* values, and a polynomial at them.                                       *)
Evaluations(f, prime) ==
  LET psi == Psi(prime)
  IN  [i \in Positions |->
        SumBelow([k \in Positions |->
          f[k] * PowerMod(psi, (k * (2 * BitReversed(i) + 1)) % (2 * RingDegree), prime)],
          RingDegree) % prime]

(* Mutant: the second row begins one lane early.                           *)
MaskEvaluationsMutant(count, lanes) ==
  LET Power(lane) == PowerMod(3, lane, 2 * RingDegree)
      Position(row, lane) ==
        ((IF row = 1 THEN 2 * RingDegree - Power(lane) ELSE Power(lane)) - 1) \div 2
  IN  [i \in Positions |->
        IF \E row \in {0, 1}, lane \in 0 .. lanes - 1 :
             row * (lanes - 1) + lane < count /\ BitReversed(Position(row, lane)) = i
        THEN 1 ELSE 0]

(* HammingServer::mask: the slots of the first count vectors.              *)
MaskEvaluations(count, lanes) ==
  LET Power(lane) == PowerMod(3, lane, 2 * RingDegree)
      Position(row, lane) ==
        ((IF row = 1 THEN 2 * RingDegree - Power(lane) ELSE Power(lane)) - 1) \div 2
  IN  [i \in Positions |->
        IF \E row \in {0, 1}, lane \in 0 .. lanes - 1 :
             row * lanes + lane < count /\ BitReversed(Position(row, lane)) = i
        THEN 1 ELSE 0]

MaskLanes(padded) == RingDegree \div (2 * padded)

-----------------------------------------------------------------------------

FirstPass(form) == IF form = "fused" THEN "forward" ELSE "twist"

InitProduct ==
  \E form \in {"plain", "lazy", "fused"}, prime \in NttPrimes, f, g \in Polynomials :
    /\ plan = NewPlan(form, prime)
    /\ subject = [i \in Positions |-> f[i] % prime]
    /\ factor = [i \in Positions |-> g[i] % prime]
    /\ pass = FirstPass(form)
    /\ length = RingDegree
    /\ values = subject

InitMask ==
  \E form \in {"plain", "lazy"}, padded \in PaddedLengths :
    \E count \in 1 .. 2 * MaskLanes(padded) :
      /\ plan = NewPlan(form, PlainModulus)
      /\ subject = [count |-> count, lanes |-> MaskLanes(padded)]
      /\ factor = <<>>
      /\ pass = "inverse"
      /\ length = 2
      /\ values = MaskEvaluations(count, MaskLanes(padded))

TransformInit == InitProduct \/ InitMask

(* forward: the negacyclic twist.                                          *)
Twist ==
  /\ pass = "twist"
  /\ values' = [i \in Positions |-> PlanTimes(plan.twists[i], values[i])]
  /\ pass' = "forward"
  /\ UNCHANGED <<plan, subject, factor, length>>

(* forward, of the plain and lazy forms: butterflies in frequency.         *)
ForwardPass ==
  LET bound == IF plan.form = "plain" THEN Prime ELSE Twice
  IN  [i \in Positions |->
        LET a == values[First(i)]
            b == values[First(i) + length \div 2]
        IN  IF IsFirst(i) THEN Below(a + b, bound)
            ELSE PlanTimes(plan.roots[InHalf(i) * (RingDegree \div length)], a + bound - b)]

(* forward_fused: one root for every block.                                *)
ForwardFused ==
  [i \in Positions |->
    LET u == Below(values[First(i)], Twice)
        v == MultiplyLazy(plan.roots[RingDegree \div length + i \div length],
                          values[First(i) + length \div 2], Prime)
    IN  (IF IsFirst(i) THEN u + v ELSE u + Twice - v) % B]

ForwardStage ==
  /\ pass = "forward"
  /\ values' = IF plan.form = "fused" THEN ForwardFused ELSE ForwardPass
  /\ length' = length \div 2
  /\ pass' = IF length > 2 THEN "forward" ELSE "reduce"
  /\ UNCHANGED <<plan, subject, factor>>

Canonical(x) ==
  CASE plan.form = "plain" -> x
    [] plan.form = "lazy" -> Below(x, Prime)
    [] plan.form = "fused" -> Below(Below(x, Twice), Prime)

Canonicalize ==
  /\ pass = "reduce"
  /\ values' = [i \in Positions |-> Canonical(values[i])]
  /\ pass' = "product"
  /\ UNCHANGED <<plan, subject, factor, length>>

PointwiseProduct ==
  /\ pass = "product"
  /\ LET evaluated == Evaluations(factor, Prime)
     IN  values' = [i \in Positions |-> PlanRemainder(values[i] * evaluated[i])]
  /\ length' = 2
  /\ pass' = "inverse"
  /\ UNCHANGED <<plan, subject, factor>>

-----------------------------------------------------------------------------

(* inverse, of the plain and lazy forms: butterflies in time.              *)
InversePass ==
  LET bound == IF plan.form = "plain" THEN Prime ELSE Twice
      Settle(x) == IF plan.form = "plain" THEN Below(x, Prime) ELSE x
  IN  [i \in Positions |->
        LET a == Below(values[First(i)], bound)
            b == PlanTimes(plan.inverses[InHalf(i) * (RingDegree \div length)],
                       values[First(i) + length \div 2])
        IN  Settle((IF IsFirst(i) THEN a + b ELSE a + bound - b) % B)]

(* inverse_fused *)
InverseFused ==
  [i \in Positions |->
    LET u == values[First(i)]
        v == values[First(i) + length \div 2]
    IN  IF IsFirst(i) THEN Below(u + v, Twice)
        ELSE MultiplyLazy(plan.inverses[RingDegree \div length + i \div length], u + Twice - v, Prime)]

(* The pass of the longest blocks is left to Finish in the fused form.     *)
InverseStage ==
  /\ pass = "inverse"
  /\ values' = IF plan.form = "fused" THEN InverseFused ELSE InversePass
  /\ length' = 2 * length
  /\ pass' = IF 2 * length < (IF plan.form = "fused" THEN RingDegree ELSE 2 * RingDegree)
           THEN "inverse" ELSE "finish"
  /\ UNCHANGED <<plan, subject, factor>>

LastFused ==
  [i \in Positions |->
    LET u == values[First(i)]
        v == values[First(i) + length \div 2]
    IN  IF IsFirst(i) THEN Multiply(plan.scale, u + v, Prime)
        ELSE Multiply(plan.last, u + Twice - v, Prime)]

FinishInverse ==
  /\ pass = "finish"
  /\ values' = IF plan.form = "fused" THEN LastFused
               ELSE [i \in Positions |-> Multiply(plan.scales[i], values[i], Prime)]
  /\ pass' = "done"
  /\ UNCHANGED <<plan, subject, factor, length>>

TransformNext ==
  \/ Twist \/ ForwardStage \/ Canonicalize \/ PointwiseProduct \/ InverseStage \/ FinishInverse

TransformSpec == TransformInit /\ [][TransformNext]_transformVars

-----------------------------------------------------------------------------

IsMask == factor = <<>>

(* The fixed factors of a transform are below the modulus, as their        *)
(* multiplication requires.                                                *)
Factors ==
  Range(plan.roots) \cup Range(plan.inverses) \cup
    (IF plan.form = "fused" THEN {plan.scale, plan.last}
     ELSE Range(plan.twists) \cup Range(plan.scales))

PlanTypeOK == \A m \in Factors : m.value \in 0 .. Prime - 1 /\ m.quotient \in Words

(* What the next pass relies on: p in the plain form, 2p after a lazy      *)
(* forward or a fused inverse pass, 4p after a fused forward or a lazy     *)
(* inverse pass; transformed and final values are below p.                 *)
Bound ==
  IF plan.form = "plain" \/ pass \in {"product", "done"} THEN Prime
  ELSE IF (plan.form = "fused") = (pass \in {"forward", "reduce"}) THEN 4 * Prime
  ELSE Twice

RingProductModP(f, g) ==
  [k \in Positions |->
    SumBelow([i \in Positions |->
      IF i <= k THEN f[i] * g[k - i] ELSE - (f[i] * g[RingDegree + k - i])], RingDegree) % Prime]

Batches == INSTANCE Batching

(* The plaintext that the Python client encodes from slots: one in count   *)
(* leading lanes of the two rows.                                          *)
EncodedMask ==
  LET half == RingDegree \div 2
      Lane(s) == (s - 1) % half
      Row(s) == (s - 1) \div half
      Selected(s) == Lane(s) < subject.lanes /\ Row(s) * subject.lanes + Lane(s) < subject.count
  IN  Batches!BatchEncode([s \in 1 .. RingDegree |-> IF Selected(s) THEN 1 ELSE 0])

(* However late values are reduced, they stay below the bound of the next  *)
(* pass, and words do not wrap.  All three forms evaluate at the same odd  *)
(* powers of psi in the same bit-reversed order, so keys, digits and masks *)
(* of one form agree with each other.  There and back gives the product    *)
(* modulo X^N + 1 and p.                                                   *)
TransformsAreExact ==
  /\ \A i \in Positions : values[i] \in 0 .. Bound - 1
  /\ pass = "product" => values = Evaluations(subject, Prime)
  /\ pass = "done" => PlanTypeOK /\ (~ IsMask => values = RingProductModP(subject, factor))

(* The mask that the native server builds from its evaluations, for so     *)
(* many vectors of a width, is the plaintext the client would encode.      *)
MasksAreEncoded == pass = "done" /\ IsMask => values = EncodedMask
=============================================================================
