------------------------------ MODULE NoiseBounds ------------------------------
(***************************************************************************)
(* The noise bounds of hamming/bfv_assurance.py: of v in                   *)
(* phase(c) = floor(Q / t) * m + v (mod Q), for every coefficient, through *)
(* the circuit of a search over vectors of a given padded width.           *)
(*                                                                         *)
(* The code's sums of fractions are rounded up at their end; here the      *)
(* integer parts are added, then the fractions of Q with the one half.     *)
(***************************************************************************)
EXTENDS BFVArithmetic

n == RingDegree
Q == Modulus

Remainder(q) == q % t

SwitchNoise == n * Digits * (2 ^ DigitBits - 1) * Eta

(* Mutant: the error of the first component is forgotten.                  *)
EncryptedNoiseMutant == 2 * n * Eta

(* e_pk * u + e0 + e1 * s                                                  *)
EncryptedNoise == (2 * n + 1) * Eta

DifferenceNoise == 2 * EncryptedNoise + Remainder(Q)

(* The integer k in phase = delta * m + v + Q * k; n + 1 of it is whole.   *)
Lift(noise) == n + 1 + ((Delta(Q) * (t - 1) + noise - (n + 1) + Q - 1) \div Q)

MessageProduct == n * (t - 1) * (t - 1)

MessageCarry == (MessageProduct + t - 1 + t - 1) \div t

(* The rounding of x / 2, of an odd x, and of a fraction, together.        *)
UpFromHalf(rest, q) == (rest \div q) + (IF rest % q <= q \div 2 THEN 1 ELSE 2)

(* A product of two ciphertexts with this noise, before it is relinearized. *)
ProductNoise(noise) ==
  LET scaled == Wide(Delta(Q), Remainder(Q) * MessageProduct, Q)
  IN  Remainder(Q) * MessageCarry + 2 * n * (t - 1) * noise
      + 2 * t * n * noise * Lift(noise) + 2 * Remainder(Q) * n * (t - 1) * Lift(noise)
      + scaled.quo + ((1 + n + n * n) \div 2)
      + UpFromHalf(scaled.rem + t * n * noise * noise, Q)

SquaredNoise == ProductNoise(DifferenceNoise) + SwitchNoise

(* After so many rounds of the sum over dimensions.                        *)
SummedNoise[rounds \in 0 .. 14] ==
  IF rounds = 0 THEN SquaredNoise
  ELSE 2 * SummedNoise[rounds - 1] + SwitchNoise + 2 * Remainder(Q)

(* By a plaintext, such as a mask.                                         *)
MaskedNoise(noise) == n * (t - 1) * noise + Remainder(Q) * MessageCarry

TileNoise(width) == MaskedNoise(SummedNoise[CHOOSE rounds \in 0 .. 14 : 2 ^ rounds = width])

MergedNoise(width, tiles) ==
  tiles * TileNoise(width) + (tiles - 1) * (SwitchNoise + 2 * Remainder(Q))

(* Switched from modulus q to a smaller target; the components contribute  *)
(* (n + 1) / 2 or, if there are three, more.                               *)
SwitchedNoise(noise, parts, target, q) ==
  LET scaled == Wide(noise, target, q)
      rounding == IF parts = 2 THEN n + 1 ELSE 1 + n + n * n
  IN  scaled.quo + (t - 1) + (rounding \div 2) + UpFromHalf(scaled.rem, q)

CompactedNoise(width, tiles, target) ==
  SwitchedNoise(MergedNoise(width, tiles), 2, target, Q)

(* 2 * (t * noise + (q mod t) * (t - 1)) < q                               *)
WithinMargin(noise, q) == noise <= ((q - 1) \div 2 - Remainder(q) * (t - 1)) \div t

(* sufficient, with responses at a target smaller than Q.                  *)
Sufficient(width, tiles, target) ==
  /\ WithinMargin(MergedNoise(width, tiles), Q)
  /\ WithinMargin(CompactedNoise(width, tiles, target), target)
=============================================================================
