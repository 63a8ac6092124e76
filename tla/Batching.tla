------------------------------ MODULE Batching ------------------------------
(***************************************************************************)
(* The plaintext ring of BFV and its batching (bfv/scheme.py).  Slots are  *)
(* the values of a polynomial modulo X^N + 1 and t at the odd powers of a  *)
(* 2N-th root of unity, found with a radix-2 transform.                    *)
(*                                                                         *)
(* A polynomial is a function from 0 .. N - 1 to its coefficients.         *)
(***************************************************************************)
EXTENDS Integers, Sequences, FiniteSetsExt, SequencesExt

CONSTANTS RingDegree,     \* N
          PlainModulus    \* t

(* validate_parameters, of N and t.                                        *)
ASSUME BatchAssumption ==
  /\ RingDegree \in {2^i : i \in 3 .. 15}
  /\ PlainModulus >= 3
  /\ \A d \in 2 .. PlainModulus - 1 : PlainModulus % d # 0
  /\ PlainModulus % (2 * RingDegree) = 1

Index == 0 .. RingDegree - 1
t == PlainModulus

(* f itself.  TLC computes a function that is combined with the empty one  *)
(* and otherwise would compute its values again at every use.              *)
Table(f) == f @@ <<>>

(* pow(base, e, t).                                                        *)
Pow(base, e) ==
  LET p[i \in 0 .. e] == IF i = 0 THEN 1 ELSE (p[i - 1] * base) % t IN p[e]

Reciprocals == Table([a \in 1 .. t - 1 |-> CHOOSE b \in 1 .. t - 1 : (a * b) % t = 1])

-----------------------------------------------------------------------------

(* _ntt                                                                    *)

(* The next index in bit-reversed order: the carry runs from the top bit   *)
(* down to the first clear bit b.                                          *)
NextReversed(j) ==
  LET b == Max({p \in {2^i : i \in 0 .. 14} : p < RingDegree /\ (j \div p) % 2 = 0})
  IN  j - (RingDegree - 2 * b) + b

Reversed[i \in Index] == IF i = 0 THEN 0 ELSE NextReversed(Reversed[i - 1])

(* One pass of butterflies on blocks of the given length.                  *)
Stage(v, length, root) ==
  LET half == length \div 2
      stride == Pow(root, RingDegree \div length)
  IN  Table([i \in Index |->
        LET offset == (i % length) % half
            first == i - (i % length) + offset
            w == v[first + half] * Pow(stride, offset)
        IN  (IF i % length < half THEN v[first] + w ELSE v[first] - w) % t])

Lengths == SetToSortSeq({2^i : i \in 1 .. 15} \cap 2 .. RingDegree, <)

Ntt(v, root) ==
  FoldLeft(LAMBDA r, length : Stage(r, length, root), [i \in Index |-> v[Reversed[i]]], Lengths)

(* _batch_plan: psi is the first power with psi^N = -1; ...                *)
Psi ==
  LET Candidate(c) == Pow(c, (t - 1) \div (2 * RingDegree))
      c == Min({d \in 2 .. t - 1 : Pow(Candidate(d), RingDegree) = t - 1})
  IN  Candidate(c)

Root == (Psi * Psi) % t

Twists == Table([i \in Index |-> Pow(Psi, i)])

(* 3^i modulo 2N.                                                          *)
Exponent[i \in 0 .. RingDegree] ==
  IF i = 0 THEN 1 ELSE (3 * Exponent[i - 1]) % (2 * RingDegree)

(* ... slot s is the value at psi^(3^s), in the second row at its inverse. *)
Order == Table([s \in Index |->
  LET half == RingDegree \div 2
      e == Exponent[s % half]
  IN  ((IF s < half THEN e ELSE (- e) % (2 * RingDegree)) - 1) \div 2])

BatchEncode(v) ==
  LET at == Table([i \in Index |->
              LET s == CHOOSE s \in Index : Order[s] = i IN IF s < Len(v) THEN v[s + 1] ELSE 0])
      c == Ntt(at, Reciprocals[Root])
  IN  Table([i \in Index |->
        (((c[i] * Reciprocals[RingDegree % t]) % t) * Reciprocals[Twists[i]]) % t])

BatchDecode(p) ==
  LET at == Ntt(Table([i \in Index |-> (p[i] * Twists[i]) % t]), Root)
  IN  Table([s \in Index |-> at[Order[s]]])

-----------------------------------------------------------------------------

(* rotate_rows: the exponent of a step.                                    *)
RotationExponent(step) == Exponent[step % (RingDegree \div 2)]

-----------------------------------------------------------------------------

(* What batching promises to those who use BFV on vectors: sums and        *)
(* products are slot by slot, empty slots are zero, and a rotation moves   *)
(* both rows to the left.                                                  *)
Filled(v) == [s \in Index |-> IF s < Len(v) THEN v[s + 1] ELSE 0]

SlotSum(a, b) == [s \in Index |-> (a[s] + b[s]) % t]

SlotProduct(a, b) == [s \in Index |-> (a[s] * b[s]) % t]

SlotRotation(a, step) ==
  LET half == RingDegree \div 2
  IN  [s \in Index |-> a[(s \div half) * half + (((s % half) + step) % half)]]
=============================================================================
