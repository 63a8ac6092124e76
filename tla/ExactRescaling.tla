--------------------------- MODULE ExactRescaling ---------------------------
(***************************************************************************)
(* Exact rounding on residues (ExactRNSBase and RNSScale of _cpu_ext/      *)
(* rns_scale.h, Ring::decode_mod_q of _cpu_ext/rns_ntt.h).  A product of   *)
(* two ciphertexts is known by its residues modulo primes; it is scaled by *)
(* t / Q and rounded without ever being put together.  What the residues   *)
(* alone do not show is how often the modulus has to be subtracted: sums   *)
(* of fixed-point fractions bound that number, and the exact comparison is *)
(* made only when the bounds disagree.                                     *)
(*                                                                         *)
(* A base is a set of positions in TransformPrimes; residues are functions *)
(* on it.  The fixed arrays of words of the exact comparison are integers. *)
(***************************************************************************)
EXTENDS WordArithmetic, Sequences, FiniteSetsExt

CONSTANTS TensorDegree,        \* N
          TransformPrimes,   \* the primes, largest first
          ResidueCount,      \* how many of them make up Q
          PlainModuli,       \* values of t
          Quotients,         \* quotients by Q of the products to be scaled
          SwitchModuli,      \* moduli of rings whose q is no product of primes
          SwitchCount        \* how many primes such a ring decodes from

P == TransformPrimes
QBase == 1 .. ResidueCount

(* The sum of a function on a base, and the product of the primes.         *)
Total(f) ==
  LET sum[j \in 0 .. Len(P)] ==
        IF j = 0 THEN 0 ELSE sum[j - 1] + (IF j \in DOMAIN f THEN f[j] ELSE 0)
  IN  sum[Len(P)]

Product(base) ==
  LET product[j \in 0 .. Len(P)] ==
        IF j = 0 THEN 1 ELSE product[j - 1] * (IF j \in base THEN P[j] ELSE 1)
  IN  product[Len(P)]

Q == Product(QBase)

(* The largest product of a tensor, and the primes it needs.               *)
TensorBound == 2 * TensorDegree * (Q - 1) * (Q - 1)
PrimeCount(bound) == Min({c \in 1 .. Len(P) : Product(1 .. c) > 2 * bound})
BBase == ResidueCount + 1 .. PrimeCount(TensorBound)

(* The constructors refuse anything else.                                  *)
ASSUME RescalingAssumption ==
  /\ B % 2 = 0 /\ TensorDegree \in Nat \ {0} /\ P \in Seq(Nat) /\ Quotients \subseteq Int
  /\ \A j \in 1 .. Len(P) : Fits(P[j]) /\ 32 * P[j] > B
  /\ ResidueCount \in 1 .. 8 /\ ResidueCount <= Len(P) /\ Cardinality(BBase) <= 17
  /\ \A t \in PlainModuli : t \in Nat /\ t >= 2 /\ t < Q /\ 16 * t < B
  /\ Product(1 .. Len(P)) > 2 * TensorBound
  /\ Product(BBase) > 2 * (TensorBound \div Q + 1)
  /\ SwitchCount \in 1 .. Len(P) /\ SwitchModuli \subseteq Nat \ {0}

Partial(base, j) == Product(base \ {j})
Weight(base, j) == Invert(Partial(base, j) % P[j], P[j])

(* The moduli are different primes, for which power_mod finds inverses.    *)
Undoes(x, y, p) == x \in 0 .. p - 1 /\ (x * y) % p = 1
ASSUME CoprimeAssumption ==
  /\ \A base \in {QBase, BBase, 1 .. SwitchCount} :
       \A j \in base : Undoes(Weight(base, j), Partial(base, j), P[j])
  /\ \A k \in BBase : Undoes(Invert(Q % P[k], P[k]), Q, P[k])

(* The Chinese remainder terms of the residues, the integer they stand for *)
(* up to a multiple of the product, and a lower bound of that integer over *)
(* the product, in units of 1 / 2^64.                                      *)
Terms(base, residues) ==
  [j \in base |-> Multiply(Multiplier(Weight(base, j), P[j]), residues[j], P[j])]

Sum(base, terms) == Total([j \in base |-> terms[j] * Partial(base, j)])

FractionSum(base, terms) == Total([j \in base |-> Fraction(terms[j], P[j])])

(* Mutant: the lower bound of the fraction is trusted.                     *)
AlphaMutant(base, terms, centered) ==
  (FractionSum(base, terms) + (IF centered THEN B \div 2 ELSE 0)) \div B

(* normalize: how often the product is subtracted, so that what is left    *)
(* lies in [0, M), or in [-M/2, M/2) when it is centered.                  *)
Alpha(base, terms, centered) ==
  LET bias == IF centered THEN B \div 2 ELSE 0
      fraction == FractionSum(base, terms)
      low == (fraction + bias) \div B
      certain == low = (fraction + Cardinality(base) + bias) \div B
      reached == IF centered THEN 2 * Sum(base, terms) >= Product(base) * (2 * low + 1)
                 ELSE Sum(base, terms) >= Product(base) * (low + 1)
  IN  IF ~ certain /\ reached THEN low + 1 ELSE low

(* convert: the same integer modulo another prime.                         *)
Convert(base, terms, alpha, k) ==
  LET residue == Reduce(Total([j \in base |-> terms[j] * (Partial(base, j) % P[k])]), P[k])
      correction == Multiply(Multiplier(Product(base) % P[k], P[k]), alpha, P[k])
  IN  Below(residue + P[k] - correction, P[k])

(* round_fraction: round(t * r / M) of the integer r in [0, M).            *)
RoundFraction(base, terms, alpha, t) ==
  LET divided == [j \in base |-> Divide(t * terms[j], P[j])]
      whole == Total([j \in base |-> divided[j].quotient])
      fraction == Total([j \in base |-> Fraction(divided[j].remainder, P[j])])
      rounded == whole + ((fraction + B \div 2) \div B)
      certain == (fraction + B \div 2) \div B = (fraction + Cardinality(base) + B \div 2) \div B
      reached == (2 * t) * Sum(base, terms) >= Product(base) * ((2 * rounded + 1) % B)
  IN  ((IF ~ certain /\ reached THEN rounded + 1 ELSE rounded) - t * alpha) % B

-----------------------------------------------------------------------------

VARIABLES value,     \* the integer whose residues are given (history)
          modulus,   \* t, or the modulus of the ring that decodes
          step,        \* the step that comes next
          terms, alpha,
          rounded,   \* the scaled remainder by Q
          quotient,  \* residues of the quotient by Q
          rescaled
rescaleVars == <<value, modulus, step, terms, alpha, rounded, quotient, rescaled>>

Residues(base) == [j \in base |-> value % P[j]]

Products ==
  {k * Q + r : k \in Quotients, r \in 0 .. Q - 1} \cap (- TensorBound .. TensorBound)

Centered(base) == - ((Product(base) - 1) \div 2) .. (Product(base) - 1) \div 2

RescaleInit ==
  /\ \/ step = "normalize" /\ value \in Products /\ modulus \in PlainModuli
     \/ step = "decode" /\ value \in Centered(1 .. SwitchCount) /\ modulus \in SwitchModuli
  /\ terms = <<>> /\ alpha = 0 /\ rounded = 0 /\ quotient = <<>> /\ rescaled = <<>>

(* RNSScale::scale, one coefficient: z = Q * k + r, 0 <= r < Q.            *)
NormalizeRemainder ==
  /\ step = "normalize"
  /\ terms' = Terms(QBase, Residues(QBase))
  /\ alpha' = Alpha(QBase, terms', FALSE)
  /\ step' = "convert"
  /\ UNCHANGED <<value, modulus, rounded, quotient, rescaled>>

ConvertRemainder ==
  /\ step = "convert"
  /\ rounded' = RoundFraction(QBase, terms, alpha, modulus)
  /\ quotient' = [k \in BBase |->
       LET residue == (value % P[k]) + P[k] - Convert(QBase, terms, alpha, k)
       IN  Multiply(Multiplier(Invert(Q % P[k], P[k]), P[k]), residue, P[k])]
  /\ step' = "quotient"
  /\ UNCHANGED <<value, modulus, terms, alpha, rescaled>>

NormalizeQuotient ==
  /\ step = "quotient"
  /\ terms' = Terms(BBase, quotient)
  /\ alpha' = Alpha(BBase, terms', TRUE)
  /\ step' = "combine"
  /\ UNCHANGED <<value, modulus, rounded, quotient, rescaled>>

(* t * k + round(t * r / Q)                                                *)
Combine ==
  /\ step = "combine"
  /\ rescaled' = [j \in QBase |->
       Below(Multiply(Multiplier(modulus % P[j], P[j]), Convert(BBase, terms, alpha, j), P[j])
               + Below(rounded, P[j]), P[j])]
  /\ step' = "scaled"
  /\ UNCHANGED <<value, modulus, terms, alpha, rounded, quotient>>

(* decode_mod_q, one coefficient: a centered integer modulo q, of which    *)
(* only the residues modulo the primes are known.                          *)
DecodeModQ(base, residues, q) ==
  LET y == Terms(base, residues)
      fraction == FractionSum(base, y)
      nearest == (fraction + B \div 2) \div B
      certain == nearest = (fraction + Cardinality(base) + B \div 2) \div B
      exact == Total([j \in base |-> (residues[j] * Weight(base, j)) * Partial(base, j)])
                 % Product(base)
  IN  (IF certain
       THEN Total([j \in base |-> y[j] * (Partial(base, j) % q)])
              - (Product(base) % q) * nearest
       ELSE IF exact > Product(base) \div 2 THEN exact - Product(base) ELSE exact) % q

DecodeCoefficient ==
  /\ step = "decode"
  /\ rescaled' = <<DecodeModQ(1 .. SwitchCount, Residues(1 .. SwitchCount), modulus)>>
  /\ step' = "decoded"
  /\ UNCHANGED <<value, modulus, terms, alpha, rounded, quotient>>

RescaleNext ==
  \/ NormalizeRemainder \/ ConvertRemainder \/ NormalizeQuotient \/ Combine \/ DecodeCoefficient

RescaleSpec == RescaleInit /\ [][RescaleNext]_rescaleVars

-----------------------------------------------------------------------------

(* Terms, residues and the scaled remainder are in the ranges of the words *)
(* they are kept in; a remainder scaled by t is at most t.                 *)
RescaleTypeOK ==
  /\ \A j \in DOMAIN terms : terms[j] \in 0 .. P[j] - 1
  /\ \A j \in DOMAIN quotient : quotient[j] \in 0 .. P[j] - 1
  /\ rounded \in 0 .. modulus
  /\ step = "scaled" => \A j \in QBase : rescaled[j] \in 0 .. P[j] - 1

(* The certified number of subtractions is exact, however close the bounds *)
(* come to a boundary: terms and alpha stand for the remainder by Q, and   *)
(* then for the signed quotient by Q.  Scaling gives the residues of       *)
(* round(t * z / Q), which the reference computes with big integers, and a *)
(* ring whose q is no product of primes decodes a centered integer to its  *)
(* residue modulo q.                                                       *)
RescalingIsExact ==
  /\ RescaleTypeOK
  /\ step = "convert" => Sum(QBase, terms) - alpha * Q = value % Q
  /\ step = "combine" => Sum(BBase, terms) - alpha * Product(BBase) = value \div Q
  /\ step = "scaled" =>
       \A j \in QBase : rescaled[j] = ((2 * modulus * value + Q) \div (2 * Q)) % P[j]
  /\ step = "decoded" => rescaled[1] = value % modulus
=============================================================================
