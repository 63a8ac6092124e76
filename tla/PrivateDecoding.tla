--------------------------- MODULE PrivateDecoding ---------------------------
(***************************************************************************)
(* What the native private decoder computes (bfv/_cpu_ext/                 *)
(* private_decoder.h): c1 * s modulo two word-sized primes, lifted to a    *)
(* signed integer, added to c0, divided by q with the remainder rounded to *)
(* a plaintext, and the plaintext evaluated into slots.  Secret data meets *)
(* masked subtraction and long division of a public length only.  When the *)
(* key may be used is in PrivateDecoder.                                   *)
(***************************************************************************)
EXTENDS WordArithmetic, Sequences, FiniteSets, FiniteSetsExt, SequencesExt, TLC

CONSTANTS DecoderDegree,    \* n_
          SlotModulus,      \* t_
          Divisor,          \* q_: the modulus of the ciphertexts
          FirstPrime, SecondPrime,
          DegreeBits, ModulusBits, PlainBits,   \* 15, 50 and 30 in the code
          Secrets,          \* key bytes
          Ciphertexts       \* pairs of polynomials [c0, c1]

(* checked_n, and the parameters of the three transforms.                  *)
ASSUME DecodingAssumption ==
  /\ DecoderDegree \in {2^i : i \in 3 .. DegreeBits}
  /\ SlotModulus \in 3 .. 2^PlainBits - 1
  /\ Divisor \in SlotModulus + 1 .. 2^ModulusBits - 1
  /\ 4 * 2^ModulusBits <= B
  /\ B < 32 * SecondPrime /\ SecondPrime < FirstPrime /\ 16 * FirstPrime < B
  /\ \A p \in {SlotModulus, FirstPrime, SecondPrime} : p % (2 * DecoderDegree) = 1

(* Key bytes are unsigned, coefficients of a ciphertext canonical.         *)
ASSUME InputAssumption ==
  /\ \A s \in Secrets : s \in [0 .. DecoderDegree - 1 -> 0 .. 255]
  /\ \A c \in Ciphertexts :
       /\ c.c0 \in [0 .. DecoderDegree - 1 -> 0 .. Divisor - 1]
       /\ c.c1 \in [0 .. DecoderDegree - 1 -> 0 .. Divisor - 1]

Index == 0 .. DecoderDegree - 1
Half == DecoderDegree \div 2

(* The function itself, with its values computed once.                     *)
Table(f) == f @@ <<>>

Normalize(x, p) == IF x >= p THEN x - p ELSE x

-----------------------------------------------------------------------------

(* Long division of the low bits of x by p, the quotient a word.           *)
FixedDivide(x, p, bits) ==
  LET Step(acc, i) ==
        LET shifted == (2 * acc.remainder + ((x \div 2^i) % 2)) % B
            subtract == shifted >= p
        IN  [remainder |-> IF subtract THEN shifted - p ELSE shifted,
             quotient |-> (2 * acc.quotient + (IF subtract THEN 1 ELSE 0)) % B]
  IN  FoldLeft(LAMBDA acc, k : Step(acc, bits - k), [remainder |-> 0, quotient |-> 0],
               [k \in 1 .. bits |-> k])

(* FixedNTT *)

FixedPsi(p) ==
  LET Root(c) == PowerMod(c, (p - 1) \div (2 * DecoderDegree), p)
  IN  Root(Min({c \in 2 .. p - 1 : PowerMod(Root(c), DecoderDegree, p) = p - 1}))

Lengths == SetToSortSeq({2^i : i \in 1 .. 15} \cap 2 .. DecoderDegree, <)

Reversal ==
  LET Bit(i, b) == (i \div 2^b) % 2
  IN  Table([i \in Index |->
        MapThenSumSet(LAMBDA b : Bit(i, b) * (Half \div 2^b), 0 .. Len(Lengths) - 1)])

Plan(p) ==
  LET psi == FixedPsi(p)
      back == Invert(psi, p)
      Twist(i) == Multiplier(PowerMod(psi, i, p), p)
      Untwist(i) == Multiplier((PowerMod(back, i, p) * Invert(DecoderDegree, p)) % p, p)
      Roots(root) ==
        Table([k \in DOMAIN Lengths |->
          LET step == PowerMod((root * root) % p, DecoderDegree \div Lengths[k], p)
          IN  Table([j \in 0 .. (Lengths[k] \div 2) - 1 |-> Multiplier(PowerMod(step, j, p), p)])])
  IN  [p |-> p, twist |-> Table([i \in Index |-> Twist(i)]),
       untwist |-> Table([i \in Index |-> Untwist(i)]),
       forward |-> Roots(psi), inverse |-> Roots(back)]

Plans == Table([p \in {FirstPrime, SecondPrime, SlotModulus} |-> Plan(p)])

(* The butterflies of the blocks of one length.                            *)
Pass(data, length, roots, p) ==
  Table([i \in Index |->
    LET j == (i % length) % (length \div 2)
        first == (i - (i % length)) + j
        v == Multiply(roots[j], data[first + length \div 2], p)
    IN  IF i = first THEN Normalize(data[first] + v, p) ELSE Normalize(data[first] + p - v, p)])

Transform(data, roots, p) ==
  FoldLeft(LAMBDA d, k : Pass(d, Lengths[k], roots[k], p),
           Table([i \in Index |-> data[Reversal[i]]]), [k \in DOMAIN Lengths |-> k])

Forward(data, p) ==
  Transform(Table([i \in Index |-> Multiply(Plans[p].twist[i], data[i], p)]), Plans[p].forward, p)

Backward(data, p) ==
  LET d == Transform(data, Plans[p].inverse, p)
  IN  Table([i \in Index |-> Multiply(Plans[p].untwist[i], d[i], p)])

-----------------------------------------------------------------------------

VARIABLES key,          \* the bytes the decoder is constructed from
          cipher,       \* what decode is called with
          progress,           \* what comes next
          decoderSpectra,      \* spectra_, by prime
          product,      \* the first 2 * n_ words of work, by prime
          lifted,       \* signed_value
          plaintext     \* the last n_ words of work, at the end in slot order
decodingVars == <<key, cipher, progress, decoderSpectra, product, lifted, plaintext>>

Zero == [i \in Index |-> 0]

DecodingInit ==
  /\ key \in Secrets
  /\ cipher \in Ciphertexts
  /\ progress = "construct"
  /\ decoderSpectra = <<>> /\ product = <<>>
  /\ lifted = Zero /\ plaintext = Zero

IsTernary(value) == value \in {0, 1, 255}

(* A key byte modulo p.                                                    *)
Residue(value, p) == CASE value = 1 -> 1 [] value = 255 -> p - 1 [] OTHER -> 0

Refuse ==
  /\ progress = "construct"
  /\ \E i \in Index : ~ IsTernary(key[i])
  /\ progress' = "refused"
  /\ UNCHANGED <<key, cipher, decoderSpectra, product, lifted, plaintext>>

Construct ==
  /\ progress = "construct"
  /\ \A i \in Index : IsTernary(key[i])
  /\ decoderSpectra' = [p \in {FirstPrime, SecondPrime} |->
                   Forward([i \in Index |-> Residue(key[i], p)], p)]
  /\ progress' = "convolve"
  /\ UNCHANGED <<key, cipher, product, lifted, plaintext>>

(* c1 * s modulo one prime; the factors are the public spectrum of c1,     *)
(* whose coefficients may exceed the prime and are reduced by the twist.   *)
Convolve(p) ==
  /\ progress = "convolve"
  /\ p \notin DOMAIN product
  /\ p = SecondPrime => FirstPrime \in DOMAIN product
  /\ LET public == Forward(cipher.c1, p)
         At(i) == Multiply(Multiplier(public[i], p), decoderSpectra[p][i], p)
     IN  product' = product @@ (p :> Backward([i \in Index |-> At(i)], p))
  /\ progress' = IF p = SecondPrime THEN "lift" ELSE "convolve"
  /\ UNCHANGED <<key, cipher, decoderSpectra, lifted, plaintext>>

(* The integer of least size with the residues a and b, from their         *)
(* difference modulo the second prime, an unsigned word; the top bit of    *)
(* half - value in two words says that it is negative.                     *)
SignedFrom(a, difference) ==
  LET k == Multiply(Multiplier(Invert(FirstPrime % SecondPrime, SecondPrime), SecondPrime),
                    difference, SecondPrime)
      value == a + FirstPrime * k
      all == FirstPrime * SecondPrime
  IN  IF value > all \div 2 THEN value - all ELSE value

(* Mutant: the residue of the larger prime is not reduced first.           *)
SignedMutant(a, b) == SignedFrom(a, Normalize((b + SecondPrime - a) % B, SecondPrime))

Signed(a, b) ==
  SignedFrom(a, Normalize((b + SecondPrime - Normalize(a, SecondPrime)) % B, SecondPrime))

Lift ==
  /\ progress = "lift"
  /\ lifted' = [i \in Index |-> Signed(product[FirstPrime][i], product[SecondPrime][i])]
  /\ progress' = "round"
  /\ UNCHANGED <<key, cipher, decoderSpectra, product, plaintext>>

(* Mutant: one bit fewer.                                                  *)
PhaseOfMutant(value, c) ==
  FixedDivide(value + DecoderDegree * Divisor + c, Divisor, DegreeBits + ModulusBits).remainder

PhaseOf(value, c) ==
  FixedDivide(value + DecoderDegree * Divisor + c, Divisor, DegreeBits + ModulusBits + 2).remainder

Message(phase) ==
  Normalize(FixedDivide(2 * SlotModulus * phase + Divisor, 2 * Divisor,
                        PlainBits + ModulusBits + 2).quotient, SlotModulus)

Round ==
  /\ progress = "round"
  /\ plaintext' = [i \in Index |-> Message(PhaseOf(lifted[i], cipher.c0[i]))]
  /\ progress' = "evaluate"
  /\ UNCHANGED <<key, cipher, decoderSpectra, product, lifted>>

(* The position of a slot: a power of 3, and its inverse in the other row. *)
Position(s) ==
  LET exponent == PowerMod(3, s % Half, 2 * DecoderDegree)
  IN  ((IF s < Half THEN exponent ELSE 2 * DecoderDegree - exponent) - 1) \div 2

Evaluate ==
  /\ progress = "evaluate"
  /\ LET values == Forward(plaintext, SlotModulus)
     IN  plaintext' = [s \in Index |-> values[Position(s)]]
  /\ progress' = "done"
  /\ UNCHANGED <<key, cipher, decoderSpectra, product, lifted>>

DecodingNext == Refuse \/ Construct \/ (\E p \in {FirstPrime, SecondPrime} : Convolve(p))
          \/ Lift \/ Round \/ Evaluate

DecodingSpec == DecodingInit /\ [][DecodingNext]_decodingVars

-----------------------------------------------------------------------------

(* Every value that is combined with the secret is a residue of its prime, *)
(* as the single masked subtraction needs, and a decoder holds spectra     *)
(* only of a ternary key.                                                  *)
DecodingTypeOK ==
  /\ DOMAIN product \subseteq DOMAIN decoderSpectra
  /\ \A p \in DOMAIN decoderSpectra : decoderSpectra[p] \in [Index -> 0 .. p - 1]
  /\ \A p \in DOMAIN product : product[p] \in [Index -> 0 .. p - 1]
  /\ plaintext \in [Index -> 0 .. SlotModulus - 1]
  /\ decoderSpectra # <<>> => \A i \in Index : IsTernary(key[i])

(* A key byte as the number it stands for.                                 *)
Ternary == [i \in Index |-> IF key[i] = 255 THEN -1 ELSE key[i]]

(* The two residues determine the coefficient of c1 * s over the integers: *)
(* it is lifted with its sign and its size, up to N * (q - 1) either way.  *)
ProductsLifted ==
  progress \in {"round", "evaluate", "done"} =>
    lifted = [k \in Index |->
      MapThenSumSet(LAMBDA i : IF i <= k THEN cipher.c1[i] * Ternary[k - i]
                               ELSE - cipher.c1[i] * Ternary[DecoderDegree + k - i], Index)]

(* The long divisions are long enough: the phase is c0 + c1 * s modulo q,  *)
(* and its rounding is exact, for every lifted value.                      *)
DivisionsExact ==
  progress = "evaluate" =>
    plaintext = [i \in Index |->
      ((2 * SlotModulus * ((lifted[i] + cipher.c0[i]) % Divisor) + Divisor) \div (2 * Divisor))
        % SlotModulus]

(* The slots are those that the Python scheme decrypts and decodes, for    *)
(* any ciphertext at all, decryptable or not.                              *)
Scheme == INSTANCE BFVArithmetic WITH
  RingDegree <- DecoderDegree, PlainModulus <- SlotModulus,
  CoeffBits <- ModulusBits, DigitBits <- ModulusBits, Eta <- 1, Primes <- (ModulusBits :> Divisor)

DecodesAsScheme ==
  progress = "done" =>
    plaintext = Scheme!BatchDecode(
      Scheme!Decrypt(Scheme!Cipher(<<cipher.c0, cipher.c1>>, Divisor), Ternary))
=============================================================================
