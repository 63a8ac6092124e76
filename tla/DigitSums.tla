----------------------------- MODULE DigitSums ------------------------------
(***************************************************************************)
(* The dot product of gadget digits with a switching key modulo one prime  *)
(* (SwitchKey::apply_digits of _cpu_ext/rns_ntt.h).  Products of two words *)
(* are summed in a double word and reduced after every 256th digit, so     *)
(* that a gadget of up to 512 digits cannot overflow it.                   *)
(***************************************************************************)
EXTENDS WordArithmetic

CONSTANTS Primes,       \* moduli of the transforms
          Operands,     \* digits and key values, counted from the prime
          MaxDigits     \* most digits of a gadget: 512 in the code

ASSUME DigitsAssumption ==
  /\ \A p \in Primes : Fits(p) /\ p % 2 = 1
  /\ Operands \subseteq Int
  /\ MaxDigits \in Nat

BatchSize == 256

VARIABLES prime,    \* modulus of the transform
          fast,     \* whether the transform reduces with Barrett
          digit,    \* digits summed so far
          accum,    \* the double word
          total     \* the sum modulo the prime (history)
vars == <<prime, fast, digit, accum, total>>

Remainder(x) == IF fast THEN Reduce(x, prime) ELSE x % prime

Settled(sum, count) == IF count % BatchSize = 0 THEN Remainder(sum) ELSE sum

SumsInit ==
  /\ prime \in Primes
  /\ fast \in BOOLEAN
  /\ digit = 0
  /\ accum = 0
  /\ total = 0

(* One digit: transformed digits and keys are any values below the prime.  *)
Accumulate(x, y) ==
  /\ digit < MaxDigits
  /\ digit' = digit + 1
  /\ accum' = Settled((accum + x * y) % (B * B), digit + 1)
  /\ total' = (total + x * y) % prime
  /\ UNCHANGED <<prime, fast>>

SumsNext == \E i, j \in Operands : Accumulate(i % prime, j % prime)

SumsSpec == SumsInit /\ [][SumsNext]_vars

-----------------------------------------------------------------------------

SumsTypeOK ==
  /\ prime \in Primes
  /\ fast \in BOOLEAN
  /\ digit \in 0 .. MaxDigits
  /\ accum \in Wide
  /\ total \in 0 .. prime - 1

(* The largest sum of a batch, after the remainder of the batches before.  *)
Room == (digit % BatchSize) * ((prime - 1) * (prime - 1)) + (prime - 1)

(* The double word never wraps: one more product of any two values fits.   *)
NeverWraps == accum <= Room /\ accum + (prime - 1) * (prime - 1) < B * B

(* However many digits a gadget has, the reduced sum is exact.             *)
SumIsExact == Remainder(accum) = total
=============================================================================
