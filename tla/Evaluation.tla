------------------------------ MODULE Evaluation ------------------------------
(***************************************************************************)
(* What BFV and its evaluator accept (bfv/scheme.py, bfv/evaluator.py):    *)
(* any legal sequence of operations on one result, with exact arithmetic,  *)
(* the operands of two keys, ciphertexts of two and three components, and  *)
(* two moduli.  An operation that is refused changes nothing.              *)
(***************************************************************************)
EXTENDS NoiseBounds

CONSTANTS Owners,         \* key identities
          Keys,           \* randomness of the keys, by owner
          GaloisExponents,      \* Galois keys, by owner
          Relinearizers,  \* owners who publish a relinearization key
          Fresh,          \* a sequence of [owner, slots, randomness]: fresh ciphertexts
          Plaintexts,     \* slot vectors of plaintext operands
          Steps,          \* rotations asked for
          TargetBits,     \* modulus_bits asked for
          MaxOps          \* bound on the operations of a behaviour

ASSUME EvaluationAssumption ==
  /\ DOMAIN Keys = Owners /\ DOMAIN GaloisExponents = Owners
  /\ Relinearizers \subseteq Owners
  /\ \A f \in DOMAIN Fresh : Fresh[f].owner \in Owners
  /\ MaxOps \in Nat

VARIABLES keyPairs,  \* by owner
          fresh,     \* [x, slots, noise]: ciphertexts, what they hold, the bound
          result,    \* [key, cipher]
          expected,   \* the slots it should hold
          bound,     \* on its noise; Q for no bound
          ops        \* operations so far

evalVars == <<keyPairs, fresh, result, expected, bound, ops>>

Pk(o) == keyPairs[o].pk

-----------------------------------------------------------------------------

(* Checks                                                                  *)

(* validate_ciphertext, BFVEvaluator._validate, for the holder of o's key. *)
Valid(x, o) == x.key = o /\ Canonical(x.cipher)

(* _pair                                                                   *)
Pair(x, y, o) ==
  /\ Valid(x, o) /\ Valid(y, o)
  /\ x.cipher.modulus = y.cipher.modulus
  /\ Len(x.cipher.parts) = Len(y.cipher.parts)

(* Mutant: rotations at any modulus.                                       *)
AtOriginalMutant(x) == Len(x.cipher.parts) = 2

(* "requires two components at the original modulus"                       *)
AtOriginal(x) == x.cipher.modulus = Q /\ Len(x.cipher.parts) = 2

(* relinearize returns a ciphertext of two components as it is.            *)
CanRelinearize(x, o) ==
  \/ Len(x.cipher.parts) = 2
  \/ x.cipher.modulus = Q /\ o \in Relinearizers

CanRotate(x, step, o) == AtOriginal(x) /\ RotationExponent(step) \in GaloisExponents[o] \cup {1}

BitLength(k) == CHOOSE b \in 1 .. 31 : k \div 2 ^ (b - 1) = 1

CanSwitch(x, bits) == BitLength(t) + 8 <= bits /\ bits <= BitLength(x.cipher.modulus)

-----------------------------------------------------------------------------

(* The wire: header and packed polynomials.  An integer does not have its  *)
(* leading zeros, and unpacking puts them back.                            *)

Magic == 1480738390

PackPoly(p) == [i \in 1 .. Max({0} \cup {k + 1 : k \in {j \in Index : p[j] # 0}}) |-> p[i - 1]]

UnpackPoly(packed) ==
  [i \in Index |-> IF i < Len(packed) THEN packed[i + 1] ELSE 0]

ToInts(x) ==
  [header |-> <<Magic, 1, RingDegree, x.cipher.modulus, x.key, Len(x.cipher.parts)>>,
   packed |-> [k \in DOMAIN x.cipher.parts |-> PackPoly(x.cipher.parts[k])]]

(* _read_ciphertext_wire: the framing and the modulus, before any unpacking. *)
Readable(wire, o) ==
  /\ Len(wire.packed) \in {2, 3}
  /\ wire.header = <<Magic, 1, RingDegree, wire.header[4], o, Len(wire.packed)>>
  /\ PlainModulus < wire.header[4] /\ wire.header[4] <= Q

FromInts(wire, o) ==
  [key |-> o, cipher |-> Cipher([k \in DOMAIN wire.packed |-> UnpackPoly(wire.packed[k])],
                                wire.header[4])]

(* deserialize_secret_key: a ternary polynomial that leaves small errors.   *)
SecretAccepted(s, o) ==
  LET rest == Sum(Product(Pk(o).a, Reduced(s, Q), Q), Pk(o).b, Q)
  IN  \A i \in Index : Distance(rest[i], Q) <= Eta

-----------------------------------------------------------------------------

Encrypted(f) ==
  [key |-> f.owner, cipher |-> Encrypt(BatchEncode(f.slots), Pk(f.owner), f.randomness)]

(* Sums that exceed the modulus bound nothing.                             *)
Capped(noise) == IF noise >= Q THEN Q ELSE noise

EvalInit ==
  /\ keyPairs = [o \in Owners |-> KeyGen(Keys[o], GaloisExponents[o])]
  /\ fresh = [f \in DOMAIN Fresh |->
               [x |-> Encrypted(Fresh[f]), slots |-> Filled(Fresh[f].slots),
                noise |-> EncryptedNoise]]
  /\ \E f \in DOMAIN fresh : result = fresh[f].x /\ expected = fresh[f].slots
  /\ bound = EncryptedNoise
  /\ ops = 0

Becomes(cipher, slots, noise) ==
  /\ ops < MaxOps
  /\ ops' = ops + 1
  /\ UNCHANGED <<keyPairs, fresh>>
  /\ result' = [key |-> result.key, cipher |-> cipher]
  /\ expected' = slots
  /\ bound' = IF bound = Q THEN Q ELSE Capped(noise)

(* The operands of the holder o of a public key: the result and itself, or *)
(* a fresh ciphertext, which may be another owner's.                       *)
Operands ==
  {[x |-> result, slots |-> expected, noise |-> bound]}
    \cup {fresh[f] : f \in DOMAIN fresh}

AddBy(o, d) ==
  /\ Pair(result, d.x, o)
  /\ Becomes(Add(result.cipher, d.x.cipher), SlotSum(expected, d.slots),
             bound + d.noise + Remainder(result.cipher.modulus))

SubtractBy(o, d) ==
  /\ Pair(result, d.x, o)
  /\ Becomes(Subtract(result.cipher, d.x.cipher),
             [s \in Index |-> (expected[s] - d.slots[s]) % t],
             bound + d.noise + Remainder(result.cipher.modulus))

(* multiply, with relinearize=False and, in the evaluator, without.        *)
MultiplyBy(o, d, relinearize) ==
  /\ Pair(result, d.x, o)
  /\ AtOriginal(result)
  /\ relinearize => o \in Relinearizers
  /\ LET product == MultiplyRaw(result.cipher, d.x.cipher)
         noise == Max({bound, d.noise})
     IN  Becomes(IF relinearize THEN Relinearize(product, Pk(o)) ELSE product,
                 SlotProduct(expected, d.slots),
                 IF noise > 1000 THEN Q
                 ELSE ProductNoise(noise) + (IF relinearize THEN SwitchNoise ELSE 0))

AddPlainBy(o, v) ==
  /\ Valid(result, o)
  /\ Becomes(AddPlain(result.cipher, BatchEncode(v)), SlotSum(expected, Filled(v)),
             bound + Remainder(result.cipher.modulus))

MultiplyPlainBy(o, v) ==
  /\ Valid(result, o)
  /\ Becomes(MultiplyByPlain(result.cipher, BatchEncode(v)), SlotProduct(expected, Filled(v)),
             IF bound > 1000000 THEN Q
             ELSE n * (t - 1) * bound + Remainder(result.cipher.modulus) * MessageCarry)

RelinearizeBy(o) ==
  /\ Valid(result, o)
  /\ CanRelinearize(result, o)
  /\ Becomes(Relinearize(result.cipher, Pk(o)), expected,
             bound + (IF Len(result.cipher.parts) = 2 THEN 0 ELSE SwitchNoise))

RotateBy(o, step) ==
  /\ Valid(result, o)
  /\ CanRotate(result, step, o)
  /\ Becomes(Rotate(result.cipher, step, Pk(o)), SlotRotation(expected, step),
             bound + SwitchNoise + Remainder(Q))

SwitchModulusBy(o, bits) ==
  /\ Valid(result, o)
  /\ CanSwitch(result, bits)
  /\ LET switched == ModulusSwitch(result.cipher, bits)
     IN  Becomes(switched, expected,
                 IF switched.modulus = result.cipher.modulus THEN bound
                 ELSE SwitchedNoise(bound, Len(switched.parts), switched.modulus,
                                    result.cipher.modulus))

(* Written and read back by the holder of o's key.                         *)
Transfer(o) ==
  LET wire == ToInts(result)
      read == FromInts(wire, o)
  IN  /\ Readable(wire, o)
      /\ Valid(read, o)
      /\ Becomes(read.cipher, expected, bound)

EvalNext ==
  \E o \in Owners :
    \/ \E d \in Operands :
         \/ AddBy(o, d) \/ SubtractBy(o, d)
         \/ \E relinearize \in BOOLEAN : MultiplyBy(o, d, relinearize)
    \/ \E v \in Plaintexts : AddPlainBy(o, v) \/ MultiplyPlainBy(o, v)
    \/ RelinearizeBy(o)
    \/ \E step \in Steps : RotateBy(o, step)
    \/ \E bits \in TargetBits : SwitchModulusBy(o, bits)
    \/ Transfer(o)

EvalSpec == EvalInit /\ [][EvalNext]_evalVars

-----------------------------------------------------------------------------

Sk == keyPairs[result.key].sk

(* Results are ciphertexts that every later operation accepts or refuses   *)
(* for what it is: canonical coefficients at one of the moduli.            *)
EvalTypeOK ==
  /\ result.key \in Owners
  /\ Canonical(result.cipher)
  /\ result.cipher.modulus \in {Primes[bits] : bits \in DOMAIN Primes}
  /\ bound \in 0 .. Q

(* Whatever sequence of operations was accepted, the noise of the result   *)
(* is within the sum of what they may add: no accepted operation mixes     *)
(* keys or moduli, loses a component, or switches keys at a modulus that   *)
(* the evaluation keys were not made for.                                  *)
AcceptedIsSound ==
  bound < Q =>
    Noise(result.cipher, BatchEncode([i \in 1 .. RingDegree |-> expected[i - 1]]), Sk) <= bound

(* "Arithmetic is exact modulo the plaintext modulus while noise permits": *)
(* within the margin, the owner decrypts the slots that were asked for,    *)
(* from two components or three, at either modulus.                        *)
ExactWhileNoisePermits ==
  WithinMargin(bound, result.cipher.modulus) =>
    BatchDecode(Decrypt(result.cipher, Sk)) = [s \in Index |-> expected[s]]

(* A ciphertext is read as it was written, and under no other key.         *)
WireIsExact == \A o \in Owners :
  LET wire == ToInts(result)
  IN  IF Readable(wire, o) THEN FromInts(wire, o) = result ELSE o # result.key

(* A secret key file is taken with its public key and no other ternary     *)
(* polynomial is: the check against the public sample accepts errors of    *)
(* either sign and nothing larger than a key can have.                     *)
SecretBelongsToKey ==
  ops = 0 => \A s \in [Index -> -1 .. 1] : SecretAccepted(s, result.key) <=> s = Sk
=============================================================================
