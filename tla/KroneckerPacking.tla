-------------------------- MODULE KroneckerPacking --------------------------
(***************************************************************************)
(* Products of polynomials by products of big integers: the reference's    *)
(* _poly_product (bfv/scheme.py) and the packed switching key of the       *)
(* optimized Python evaluator (_PackedSwitchKey of bfv/evaluator.py).  A   *)
(* polynomial is packed into one integer, its coefficients in lanes of the *)
(* same number of bits, and X^N = -1 is a subtraction of the upper half.   *)
(* That is exact only while no lane carries into the next or borrows from  *)
(* it.                                                                     *)
(*                                                                         *)
(* A big integer is the function of its digits to the base 2^Width, that   *)
(* is of its lanes, and carries and borrows move from lane to lane.        *)
(***************************************************************************)
EXTENDS Integers, FiniteSetsExt

CONSTANTS PackedDegree,     \* N
          Modulus,        \* q
          LaneDigitBits,     \* bits of a digit
          KeyPolys,       \* polynomials of keys
          Polys           \* polynomials that are switched

Coefficients == 0 .. PackedDegree - 1

ASSUME KroneckerAssumption ==
  /\ PackedDegree \in Nat \ {0} /\ Modulus \in Nat \ {0} /\ LaneDigitBits \in Nat \ {0}
  /\ KeyPolys \cup Polys \subseteq [Coefficients -> 0 .. Modulus - 1]

(* 1 << b                                                                  *)
ShiftedOne[b \in Nat] == IF b = 0 THEN 1 ELSE 2 * ShiftedOne[b - 1]

BitCount(x) ==
  CHOOSE l \in 0 .. x : x < ShiftedOne[l] /\ (l = 0 \/ ShiftedOne[l - 1] <= x)
KeyDigits == (BitCount(Modulus) + LaneDigitBits - 1) \div LaneDigitBits

(* f[0] + ... + f[n - 1]                                                   *)
SumTo(f, n) ==
  LET sum[k \in 0 .. n] == IF k = 0 THEN 0 ELSE sum[k - 1] + f[k - 1]
  IN  sum[n]

(* Mutant: no guard bit, lanes one bit narrower.                           *)
WidthMutant == BitCount(Modulus) + LaneDigitBits + BitCount(PackedDegree * KeyDigits)

(* compile: room for every sum of products, and a guard bit.               *)
Width == BitCount(Modulus) + LaneDigitBits + BitCount(PackedDegree * KeyDigits) + 1

(* Lanes of an integer that was computed lane by lane.                     *)
Lanes == 0 .. 2 * PackedDegree
Carried(v, width) ==
  LET base == ShiftedOne[width]
      carry[i \in 0 .. 2 * PackedDegree + 1] ==
        IF i = 0 THEN 0 ELSE (v[i - 1] + carry[i - 1]) \div base
  IN  [i \in Lanes |-> (v[i] + carry[i]) % base]

Pack(f) == [i \in Lanes |-> IF i < PackedDegree THEN f[i] ELSE 0]

LaneProduct(v, w) ==
  [k \in Lanes |-> SumTo([i \in 0 .. k |-> v[i] * w[k - i]], k + 1)]

(* gmpy2.unpack: the lanes up to the last one that is not zero.            *)
Unpacked(v) ==
  LET used == Max({0} \cup {i + 1 : i \in {k \in Lanes : v[k] # 0}})
  IN  [i \in 0 .. used - 1 |-> v[i]]

-----------------------------------------------------------------------------

MaxLength(f) == Max({BitCount(f[i]) : i \in Coefficients})

ProductWidth(f, g) == MaxLength(f) + MaxLength(g) + BitCount(PackedDegree)

(* _poly_product: signed coefficients, folded after they are unpacked.     *)
PolyProduct(f, g) ==
  LET lanes == Unpacked(Carried(LaneProduct(Pack(f), Pack(g)), ProductWidth(f, g)))
      At(i) == IF i \in DOMAIN lanes THEN lanes[i] ELSE 0
  IN  [i \in Coefficients |-> At(i) - At(i + PackedDegree)]

-----------------------------------------------------------------------------

VARIABLES switched,      \* what is switched
          switchKey,       \* pairs of polynomials, one for every digit
          digitsDone,     \* digits done
          sums,     \* the two sums, as lanes
          output
packingVars == <<switched, switchKey, digitsDone, sums, output>>

Zero == [i \in Lanes |-> 0]

PackingInit ==
  /\ switched \in Polys
  /\ switchKey \in [1 .. KeyDigits -> KeyPolys \X KeyPolys]
  /\ digitsDone = 0
  /\ sums = <<Zero, Zero>>
  /\ output = <<>>

(* Digit d, from 0, of every coefficient that is switched.                 *)
KeyDigit(d) ==
  [i \in Coefficients |->
    (switched[i] \div ShiftedOne[d * LaneDigitBits]) % ShiftedOne[LaneDigitBits]]

(* apply, one digit: accum += digits * key, for both components.           *)
AccumulateDigit ==
  /\ digitsDone < KeyDigits
  /\ LET digits == Pack(KeyDigit(digitsDone))
     IN  sums' = [c \in {1, 2} |->
           LET product == LaneProduct(digits, Pack(switchKey[digitsDone + 1][c]))
           IN  Carried([i \in Lanes |-> sums[c][i] + product[i]], Width)]
  /\ digitsDone' = digitsDone + 1
  /\ UNCHANGED <<switched, switchKey, output>>

BiasCoefficient == ShiftedOne[Width - 1]

(* finish: the lower half minus the rest, plus a bias in every lane.       *)
Folded(v) ==
  Carried([i \in Lanes |->
    IF i < PackedDegree THEN v[i] - v[i + PackedDegree] + BiasCoefficient
    ELSE IF i = PackedDegree THEN - v[2 * PackedDegree] ELSE 0], Width)

FinishSwitch ==
  /\ digitsDone = KeyDigits
  /\ output = <<>>
  /\ output' = [c \in {1, 2} |->
       LET lanes == Unpacked(Folded(sums[c]))
       IN  [i \in DOMAIN lanes |-> (lanes[i] - BiasCoefficient) % Modulus]]
  /\ UNCHANGED <<switched, switchKey, digitsDone, sums>>

PackingNext == AccumulateDigit \/ FinishSwitch

PackingSpec == PackingInit /\ [][PackingNext]_packingVars

-----------------------------------------------------------------------------

(* The coefficients of f * g modulo X^N + 1, not reduced.                  *)
Convolution(f, g) ==
  [k \in Coefficients |->
    SumTo([i \in Coefficients |->
             IF i <= k THEN f[i] * g[k - i] ELSE - (f[i] * g[PackedDegree + k - i])], PackedDegree)]

(* The sum of the digits times their keys in the ring, digit by digit, as  *)
(* the reference computes it.                                              *)
Reference(c, count) ==
  [k \in Coefficients |->
    SumTo([d \in 0 .. count - 1 |-> Convolution(KeyDigit(d), switchKey[d + 1][c])[k]], count)]

(* Folding and unpacking give the N coefficients of the switched           *)
(* polynomial, for the zero polynomial too: no lane has run into the next. *)
(* And the reference product, whose lanes are as narrow as the             *)
(* coefficients of its factors allow, keeps every coefficient and its      *)
(* sign, which rounding needs before they are reduced.                     *)
PackedProductsAreExact ==
  output # <<>> =>
    /\ \A c \in {1, 2} : output[c] = [i \in Coefficients |-> Reference(c, KeyDigits)[i] % Modulus]
    /\ PolyProduct(switched, switched) = Convolution(switched, switched)
    /\ \A c \in {1, 2} :
         PolyProduct(switched, switchKey[1][c]) = Convolution(switched, switchKey[1][c])
=============================================================================
