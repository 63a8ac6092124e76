---------------------------- MODULE BFVArithmetic ----------------------------
(***************************************************************************)
(* The arithmetic of BFV (bfv/scheme.py), exactly: keys, encryption,       *)
(* decryption and the operations of the server, on the coefficients of the *)
(* polynomials.  Randomness is a parameter.  What the operations refuse is *)
(* in Evaluation.                                                          *)
(*                                                                         *)
(* The code's integers have any size and those of a model do not, so a     *)
(* product of two residues is kept as quotient and remainder by q, and the *)
(* sum of such products modulo q * q: scale-and-round needs no more.       *)
(***************************************************************************)
EXTENDS Batching

CONSTANTS CoeffBits,    \* coeff_modulus_bits
          DigitBits,    \* decomposition_bits
          Eta,          \* error_eta
          Primes        \* _coefficient_modulus, by bits

(* validate_parameters, within the width of the model's integers.          *)
ASSUME ArithmeticAssumption ==
  /\ \E b \in 1 .. 22 : 2 ^ b > PlainModulus /\ b + 8 <= CoeffBits
  /\ DigitBits \in 1 .. CoeffBits
  /\ Eta \in 1 .. 64
  /\ CoeffBits \in DOMAIN Primes
  /\ DOMAIN Primes \subseteq {14, 16, 18, 20, 22, 24, 26, 28, 30}

IsPrime(p) == \A d \in 2 .. 32768 : d * d <= p => p % d # 0

(* The largest prime of so many bits, among the odd numbers down from the  *)
(* largest.                                                                *)
LargestPrime(bits) ==
  LET top == (2 ^ (bits - 1) - 1) + 2 ^ (bits - 1)
  IN  top - Min({k \in 0 .. 200 : k % 2 = 0 /\ IsPrime(top - k)})

ASSUME PrimesAssumption == \A bits \in DOMAIN Primes : Primes[bits] = LargestPrime(bits)

-----------------------------------------------------------------------------

(* Integers                                                                *)

AddMod(a, b, q) == IF a >= q - b THEN a - (q - b) ELSE a + b

Negated(a, q) == IF a = 0 THEN 0 ELSE q - a

(* x and y as quotient and remainder by q, quotients modulo q.             *)
AddWide(x, y, q) ==
  [quo |-> AddMod(AddMod(x.quo, y.quo, q), IF x.rem >= q - y.rem THEN 1 ELSE 0, q),
   rem |-> AddMod(x.rem, y.rem, q)]

NegatedWide(x, q) ==
  IF x.rem = 0 THEN [quo |-> Negated(x.quo, q), rem |-> 0]
  ELSE [quo |-> q - 1 - x.quo, rem |-> q - x.rem]

ZeroWide == [quo |-> 0, rem |-> 0]

(* The root of the power of two above a modulus.                           *)
Radix == Table([q \in {Primes[bits] : bits \in DOMAIN Primes} |->
  2 ^ ((CHOOSE bits \in DOMAIN Primes : Primes[bits] = q) \div 2)])

(* high * B^2 + low as quotient and remainder by q = B^2 - gap.            *)
Carried(high, low, gap, B, q) ==
  LET carry == (high \div B) * gap
      rest == (carry \div B) * gap + (carry % B) * B + (high % B) * gap
  IN  AddWide([quo |-> high + (carry \div B), rem |-> 0],
              AddWide([quo |-> low \div q, rem |-> low % q],
                      [quo |-> rest \div q, rem |-> rest % q], q), q)

(* a * b, in limbs, from the middle one.                                   *)
FromMiddle(a, b, middle, B, q) ==
  Carried((a \div B) * (b \div B) + (middle \div B), (middle % B) * B + (a % B) * (b % B),
          B * B - q, B, q)

(* a * b for a, b < q.                                                     *)
Wide(a, b, q) ==
  LET B == Radix[q] IN FromMiddle(a, b, (a \div B) * (b % B) + (a % B) * (b \div B), B, q)

(* _round_div of a wide value by q: q is odd, so there are no ties.        *)
RoundWide(x, q) == x.quo + (IF x.rem >= q - x.rem THEN 1 ELSE 0)

-----------------------------------------------------------------------------

(* Polynomials                                                             *)

(* _poly_product: over the integers, then X^N = -1.                        *)
WideProduct(p, r, q) ==
  Table([k \in Index |->
    FoldSet(LAMBDA i, acc :
              AddWide(acc, IF i <= k THEN Wide(p[i], r[k - i], q)
                           ELSE NegatedWide(Wide(p[i], r[RingDegree + k - i], q), q), q),
            ZeroWide, {i \in Index : p[i] # 0})])

(* _ring_product                                                           *)
Product(p, r, q) == LET w == WideProduct(p, r, q) IN Table([i \in Index |-> w[i].rem])

Sum(p, r, q) == Table([i \in Index |-> AddMod(p[i], r[i], q)])

Difference(p, r, q) == Table([i \in Index |-> AddMod(p[i], Negated(r[i], q), q)])

(* X^g for X, modulo q.                                                    *)
Substitute(p, g, q) ==
  Table([k \in Index |->
    LET i == CHOOSE j \in Index : (j * g) % RingDegree = k
    IN  IF (i * g) % (2 * RingDegree) < RingDegree THEN p[i] ELSE Negated(p[i], q)])

(* A polynomial of small, signed coefficients modulo q.                    *)
Reduced(p, q) == Table([i \in Index |-> IF p[i] < 0 THEN q + p[i] ELSE p[i]])

-----------------------------------------------------------------------------

(* Keys                                                                    *)

Modulus == Primes[CoeffBits]

(* floor(q / t)                                                            *)
Delta(q) == q \div PlainModulus

Digits == (CoeffBits + DigitBits - 1) \div DigitBits

(* switch_key: an encryption of source * 2^shift under s for each digit;   *)
(* sample[d] is [a, e].                                                    *)
SwitchKey(source, s, sample) ==
  Table([d \in 1 .. Digits |->
    LET shifted == Table([i \in Index |-> Wide(source[i], 2 ^ ((d - 1) * DigitBits), Modulus).rem])
        masked == Difference(shifted, Product(sample[d].a, s, Modulus), Modulus)
    IN  [b |-> Sum(masked, Reduced(sample[d].e, Modulus), Modulus), a |-> sample[d].a]])

(* key_gen, with the exponents that rotations are requested for; r is the  *)
(* randomness [s, a, e, switch], switch by exponent and 0 for              *)
(* relinearization.                                                        *)
KeyGen(r, exponents) ==
  LET s == Reduced(r.s, Modulus)
  IN  [pk |-> [b |-> Difference(Reduced(r.e, Modulus), Product(r.a, s, Modulus), Modulus),
               a |-> r.a,
               relin |-> SwitchKey(Product(s, s, Modulus), s, r.switch[0]),
               galois |-> Table([g \in exponents \ {1} |->
                                  SwitchKey(Substitute(s, g, Modulus), s, r.switch[g])])],
       sk |-> r.s]

-----------------------------------------------------------------------------

(* Ciphertexts: [parts, modulus], parts a sequence of two or three         *)
(* polynomials.                                                            *)

Cipher(parts, q) == [parts |-> Table(parts), modulus |-> q]

(* Canonical coefficients, as validate_ciphertext demands them.            *)
Canonical(c) ==
  /\ PlainModulus < c.modulus /\ c.modulus <= Modulus
  /\ Len(c.parts) \in {2, 3}
  /\ \A k \in DOMAIN c.parts : \A i \in Index : 0 <= c.parts[k][i] /\ c.parts[k][i] < c.modulus

(* delta * m, modulo q.                                                    *)
Scaled(m, q) == Table([i \in Index |-> Delta(q) * m[i]])

(* encrypt, with randomness r = [u, e0, e1].                               *)
Encrypt(m, pk, r) ==
  LET q == Modulus
      u == Reduced(r.u, q)
  IN  Cipher(<<Sum(Sum(Product(pk.b, u, q), Reduced(r.e0, q), q), Scaled(m, q), q),
               Sum(Product(pk.a, u, q), Reduced(r.e1, q), q)>>, q)

(* _phase: c0 + c1 * s + c2 * s^2, by Horner.                              *)
Phase(c, sk) ==
  LET s == Reduced(sk, c.modulus)
  IN  FoldLeft(LAMBDA acc, p : Sum(Product(acc, s, c.modulus), p, c.modulus),
               Last(c.parts), Reverse(Front(c.parts)))

Decrypt(c, sk) ==
  LET phase == Phase(c, sk)
  IN  Table([i \in Index |-> RoundWide(Wide(phase[i], t, c.modulus), c.modulus) % t])

Add(c, d) == Cipher([k \in DOMAIN c.parts |-> Sum(c.parts[k], d.parts[k], c.modulus)], c.modulus)

Subtract(c, d) ==
  Cipher([k \in DOMAIN c.parts |-> Difference(c.parts[k], d.parts[k], c.modulus)], c.modulus)

(* add_plain: scaled for the modulus that the ciphertext has now.          *)
AddPlain(c, m) == Cipher([c.parts EXCEPT ![1] = Sum(@, Scaled(m, c.modulus), c.modulus)], c.modulus)

MultiplyByPlain(c, m) ==
  Cipher([k \in DOMAIN c.parts |-> Product(c.parts[k], m, c.modulus)], c.modulus)

(* _switch: the digits of p times the parts of a key.                      *)
Switch(p, key) ==
  LET Digit(d) == Table([i \in Index |-> (p[i] \div (2 ^ ((d - 1) * DigitBits))) % (2 ^ DigitBits)])
      Dot(part(_)) ==
        FoldLeft(LAMBDA acc, d : Sum(acc, Product(Digit(d), part(key[d]), Modulus), Modulus),
                               [i \in Index |-> 0], [d \in DOMAIN key |-> d])
  IN  <<Dot(LAMBDA k : k.b), Dot(LAMBDA k : k.a)>>

Relinearize(c, pk) ==
  IF Len(c.parts) = 2 THEN c
  ELSE LET k == Switch(c.parts[3], pk.relin)
       IN  Cipher(<<Sum(c.parts[1], k[1], Modulus), Sum(c.parts[2], k[2], Modulus)>>, Modulus)

(* The tensor product over the integers.                                   *)
Tensor(c, d) ==
  LET q == Modulus
      low == WideProduct(c.parts[1], d.parts[2], q)
      high == IF c = d THEN low ELSE WideProduct(c.parts[2], d.parts[1], q)
  IN  <<WideProduct(c.parts[1], d.parts[1], q),
        Table([i \in Index |-> AddWide(low[i], high[i], q)]),
        WideProduct(c.parts[2], d.parts[2], q)>>

(* multiply with relinearize=False: the tensor product scaled by t / q.    *)
MultiplyRaw(c, d) ==
  LET q == Modulus
      tensor == Tensor(c, d)
      Rescaled(w) ==
        Table([i \in Index |->
          AddMod(Wide(w[i].quo, t, q).rem, RoundWide(Wide(w[i].rem, t, q), q), q)])
  IN  Cipher([k \in 1 .. 3 |-> Rescaled(tensor[k])], q)

Multiply(c, d, pk) == Relinearize(MultiplyRaw(c, d), pk)

(* rotate_rows, with the automorphism of both parts and one key switch.    *)
Rotate(c, step, pk) ==
  LET g == RotationExponent(step)
      k == Switch(Substitute(c.parts[2], g, Modulus), pk.galois[g])
  IN  IF g = 1 THEN c
      ELSE Cipher(<<Sum(Substitute(c.parts[1], g, Modulus), k[1], Modulus), k[2]>>, Modulus)

(* modulus_switch: the modulus of so many bits, but never a larger one.    *)
ModulusSwitch(c, bits) ==
  LET target == Primes[bits]
      Rescaled(p) ==
        Table([i \in Index |-> RoundWide(Wide(p[i], target, c.modulus), c.modulus) % target])
  IN  IF target >= c.modulus THEN c
      ELSE Cipher([k \in DOMAIN c.parts |-> Rescaled(c.parts[k])], target)

-----------------------------------------------------------------------------

(* Noise                                                                   *)

Distance(a, q) == IF a <= q \div 2 THEN a ELSE q - a

(* The largest coefficient of phase - delta * m, centered.                 *)
Noise(c, m, sk) ==
  LET rest == Difference(Phase(c, sk), Scaled(m, c.modulus), c.modulus)
  IN  Max({Distance(rest[i], c.modulus) : i \in Index})
=============================================================================
