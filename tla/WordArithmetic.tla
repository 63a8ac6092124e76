--------------------------- MODULE WordArithmetic ---------------------------
(***************************************************************************)
(* Arithmetic of machine words in the native BFV kernels (_cpu_ext/        *)
(* rns_ntt.h): multiplication by a fixed factor (Shoup), reduction of a    *)
(* double word (Barrett), and the fixed-point fraction y/p.  A word is a   *)
(* number below WordBase, and every operation on words wraps.              *)
(***************************************************************************)
EXTENDS Integers

CONSTANT WordBase     \* 2^64 in the code

ASSUME WordAssumption == WordBase \in Nat /\ WordBase > 0

B == WordBase
Words == 0 .. B - 1
Wide == 0 .. B * B - 1

(* The primes of the kernels leave four bits of a word free.               *)
Fits(p) == p \in Nat /\ p > 1 /\ 16 * p < B

(* power_mod                                                               *)
PowerMod(value, exponent, p) ==
  LET r[e \in 0 .. exponent] ==
        IF e = 0 THEN 1
        ELSE LET root == r[e \div 2]
             IN  (((root * root) % p) * (IF e % 2 = 1 THEN value ELSE 1)) % p
  IN  r[exponent]

Invert(value, p) == PowerMod(value, p - 2, p)

(* One conditional subtraction.                                            *)
Below(x, bound) == IF x >= bound THEN x - bound ELSE x

-----------------------------------------------------------------------------

(* A fixed factor with its quotient by p.                                  *)
Multiplier(value, p) == [value |-> value, quotient |-> (value * B) \div p]

MultiplyLazy(m, input, p) ==
  LET estimate == (input * m.quotient) \div B
  IN  (input * m.value - estimate * p) % B

Multiply(m, input, p) ==
  LET remainder == MultiplyLazy(m, input, p)
  IN  IF remainder >= p THEN remainder - p ELSE remainder

-----------------------------------------------------------------------------

(* floor(2^128 / p), which is floor((2^128 - 1) / p) for an odd p.         *)
Reciprocal(p) == (B * B - 1) \div p

(* The low word of floor(value * Reciprocal(p) / 2^128), from the products *)
(* of the words.                                                           *)
Quotient(value, p) ==
  LET low == value % B
      high == value \div B
      p00 == low * (Reciprocal(p) % B)
      p01 == low * (Reciprocal(p) \div B)
      p10 == high * (Reciprocal(p) % B)
      middle == (p00 \div B) + (p01 % B) + (p10 % B)
  IN  (high * (Reciprocal(p) \div B) + (p01 \div B) + (p10 \div B) + (middle \div B)) % B

Rest(value, p) == (value - Quotient(value, p) * p) % B

(* Mutant: the middle products are dropped from the quotient.              *)
ReduceMutant(value, p) ==
  LET remainder == (value - (((value \div B) * (Reciprocal(p) \div B)) % B) * p) % B
  IN  IF remainder >= p THEN remainder - p ELSE remainder

Reduce(value, p) ==
  IF Rest(value, p) >= p THEN Rest(value, p) - p ELSE Rest(value, p)

Divide(value, p) ==
  IF Rest(value, p) >= p
  THEN [quotient |-> (Quotient(value, p) + 1) % B, remainder |-> Rest(value, p) - p]
  ELSE [quotient |-> Quotient(value, p), remainder |-> Rest(value, p)]

(* floor(y * 2^64 / p) of a y below p.                                     *)
Fraction(y, p) ==
  LET low == (y * (Reciprocal(p) \div B) + ((y * (Reciprocal(p) % B)) \div B)) % B
  IN  IF (- low * p) % B >= p THEN (low + 1) % B ELSE low
=============================================================================
