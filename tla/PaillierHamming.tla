--------------------------- MODULE PaillierHamming ---------------------------
(***************************************************************************)
(* Paillier and Paillier-Lookup on small primes with the exact arithmetic  *)
(* of the code: key generation, encryption, the server's addition and the  *)
(* decoding of a distance from the sum of two padded vectors.              *)
(***************************************************************************)
EXTENDS Integers, Sequences, FiniteSetsExt, SequencesExt

CONSTANTS KeyLens,         \* key_len: the bits of each prime
          AlphaLens,       \* alpha_len, for Paillier-Lookup
          MaxEmbedLen,     \* bound on the embedding dimension
          Vectors(_),      \* the vectors tried for a dimension
          Randoms,         \* the random r tried
          MsgBits,         \* MSG_BITS, the width of a table index
          NoiseMultiples   \* NOISE_MULTIPLES

ASSUME PaillierAssumption ==
  /\ KeyLens \subseteq 2..5      \* n^2 must stay below 2^20, see MulMod
  /\ Randoms \subseteq Nat \ {0}
  /\ MsgBits \in 1..8 /\ NoiseMultiples \in Nat \ {0}

VARIABLES scheme,     \* "paillier" or "lookup"
          keyPair,        \* the key pair with its tables, as a record
          embedLen, first, second,   \* the two vectors to compare
          phase, ct1, ct2, response, distance

paillierVars == <<scheme, keyPair, embedLen, first, second, phase, ct1, ct2, response, distance>>
setup == <<scheme, keyPair, embedLen, first, second>>

----------------------------------------------------------------------------
(* Arithmetic *)

\* a * b % m for m up to 2^20, by halves of b so that TLC's integers hold it.
MulMod(a, b, m) == ((((a * (b \div 1024)) % m) * 1024) + (a * (b % 1024))) % m

PowMod(b, e, m) ==
  LET f[k \in 0..e] ==
        IF k = 0 THEN 1 % m
        ELSE LET h == f[k \div 2]
                 s == MulMod(h, h, m)
             IN  IF k % 2 = 0 THEN s ELSE MulMod(s, b % m, m)
  IN  f[e]

Invertible(a, m) == \E x \in 0..(m - 1) : (a * x) % m = 1
ModularInverse(a, m) == CHOOSE x \in 0..(m - 1) : (a * x) % m = 1
GCD(a, b) == Max({d \in 1..b : a % d = 0 /\ b % d = 0})
LCM(a, b) == (a * b) \div GCD(a, b)
PrimesOf(bits) ==
  {p \in (2^(bits - 1))..((2^bits) - 1) : p > 2 /\ \A d \in 2..(p - 1) : p % d # 0}

----------------------------------------------------------------------------
(* Key generation *)

\* Paillier.key_gen, for two different primes whose phi has an inverse.
PaillierKeys(keyLen) ==
  {[keyLen |-> keyLen, n |-> p * q, g |-> 1 + p * q,
    phi |-> (p - 1) * (q - 1), inv |-> ModularInverse((p - 1) * (q - 1), p * q)] :
   <<p, q>> \in {pq \in PrimesOf(keyLen) \X PrimesOf(keyLen) :
                 pq[1] # pq[2] /\ Invertible((pq[1] - 1) * (pq[2] - 1), pq[1] * pq[2])}}

\* gen_dsa_params_custom: a prime p = k*q + 1 with an even k, and an element
\* of order q.
DsaParams(pBits, qBits) ==
  UNION {{<<pq[1], pq[2], PowMod(h, (pq[1] - 1) \div pq[2], pq[1])>> : h \in 2..(pq[1] - 2)} :
           pq \in {x \in PrimesOf(pBits) \X PrimesOf(qBits) : x[1] % (2 * x[2]) = 1}}
    \ {<<p, q, 1>> : p \in PrimesOf(pBits), q \in PrimesOf(qBits)}

Lift(g, p) == (g * (1 + p)) % (p * p)

CrtPair(a1, m1, a2, m2) ==
  a1 + (m1 * MulMod((a2 - a1) % m2, ModularInverse(m1 % m2, m2), m2))

MessageChunks(keyLen) == (keyLen * 2 + MsgBits - 1) \div MsgBits

GTable(g, n, keyLen) ==
  [i \in 0..(MessageChunks(keyLen) - 1) |->
    LET base == PowMod(g, 2^(MsgBits * i), n * n)
    IN  [j \in 0..((2^MsgBits) - 1) |-> PowMod(base, j, n * n)]]

L(x, n) == (x - 1) \div n

LookupKey(keyLen, d1, d2) ==
  LET p == d1[1]  q == d2[1]  n == p * q
      g == CrtPair(Lift(d1[3], p), p * p, Lift(d2[3], q), q * q)
      a == LCM(d1[2], d2[2])
  IN  [keyLen |-> keyLen, n |-> n, g |-> g, gN |-> PowMod(g, n, n * n), a |-> a,
       gAInv |-> ModularInverse(L(PowMod(g, a, n * n), n), n),
       gTable |-> GTable(g, n, keyLen)]

\* PaillierLookup.key_gen, which tries again unless g has the order it needs.
LookupKeys(keyLen, alphaLen) ==
  LET bits == Min({keyLen, alphaLen})
      pairs == DsaParams(keyLen, bits \div 2) \X
               DsaParams(keyLen, bits - (bits \div 2))
      keys == {LookupKey(keyLen, d[1], d[2]) : d \in {e \in pairs : e[1][1] # e[2][1]}}
  IN  {k \in keys : /\ PowMod(k.g, k.n * k.a, k.n * k.n) = 1
                    /\ k.gN # 1}

----------------------------------------------------------------------------
(* Encryption, addition, decryption *)
CipherMul(a, b) == MulMod(a, b, keyPair.n * keyPair.n)

\* The random factors an encryption may end with: r^n, or a product of
\* NoiseMultiples entries of the noise table.
Noises ==
  IF scheme = "paillier"
  THEN {PowMod(r, keyPair.n, keyPair.n * keyPair.n) : r \in {x \in Randoms : GCD(x, keyPair.n) = 1}}
  ELSE {FoldLeft(CipherMul, 1, [i \in 1..NoiseMultiples |->
                                 PowMod(keyPair.gN, rs[i], keyPair.n * keyPair.n)]) :
        rs \in [1..NoiseMultiples -> {x \in Randoms : GCD(x, keyPair.n) = 1}]}

\* g^m from the table, one factor per chunk of the message.
TableProduct(m) ==
  FoldLeft(CipherMul, 1,
           [i \in 1..MessageChunks(keyPair.keyLen) |->
             keyPair.gTable[i - 1][(m \div 2^(MsgBits * (i - 1))) % 2^MsgBits]])

MessageFactor(m) ==
  IF scheme = "paillier" THEN PowMod(keyPair.g, m, keyPair.n * keyPair.n) ELSE TableProduct(m)

Decrypt(c) ==
  IF scheme = "paillier"
  THEN MulMod(L(PowMod(c, keyPair.phi, keyPair.n * keyPair.n), keyPair.n), keyPair.inv, keyPair.n)
  ELSE MulMod(L(PowMod(c, keyPair.a, keyPair.n * keyPair.n), keyPair.n), keyPair.gAInv, keyPair.n)

----------------------------------------------------------------------------
(* The vectors: one "0b" pair of bits per dimension, key_len pairs per chunk *)
ChunkLen == keyPair.keyLen * 2
ChunkNum ==
  IF embedLen > keyPair.keyLen
  THEN ((2 * embedLen) \div ChunkLen) + (IF (2 * embedLen) % ChunkLen # 0 THEN 1 ELSE 0)
  ELSE 1

\* The binary number of a string of pairs with the dimension in the lower bit.
Padded(bits) == FoldLeft(LAMBDA acc, b : 4 * acc + b, 0, bits)

Chunks(v) ==
  [i \in 1..ChunkNum |->
    Padded(SubSeq(v, (i - 1) * keyPair.keyLen + 1, Min({i * keyPair.keyLen, embedLen})))]

\* Mutant: the even positions are counted.
OddDigitsMutant(value) ==
  Cardinality({i \in 0..(keyPair.keyLen - 1) : (value \div (2 * 4^i)) % 2 = 1})
\* The odd positions of a chunk that was written with ChunkLen digits.
OddDigits(value) ==
  Cardinality({i \in 0..(keyPair.keyLen - 1) : (value \div 4^i) % 2 = 1})

PaillierInit ==
  /\ \E k \in KeyLens :
       \/ scheme = "paillier" /\ keyPair \in PaillierKeys(k)
       \/ scheme = "lookup" /\ \E al \in AlphaLens : keyPair \in LookupKeys(k, al)
  /\ embedLen = 0 /\ first = <<>> /\ second = <<>>
  /\ phase = "keys"
  /\ ct1 = <<>> /\ ct2 = <<>> /\ response = <<>> /\ distance = 0

\* The constructor of the client with a dimension, and two vectors of it.
Construct ==
  /\ phase = "keys"
  /\ embedLen' \in 1..MaxEmbedLen
  /\ first' \in Vectors(embedLen') /\ second' \in Vectors(embedLen')
  /\ phase' = "ready"
  /\ UNCHANGED <<scheme, keyPair, ct1, ct2, response, distance>>

\* encrypt: each chunk in turn, or an error at one that is no plaintext.
Encryptions(v) ==
  LET m == Chunks(v)
  IN  {[i \in 1..ChunkNum |-> CipherMul(MessageFactor(m[i]), noise[i])] :
       noise \in [1..ChunkNum -> Noises]}

IsPlaintext(m) == m >= 0 /\ m < keyPair.n
Encryptable(v) == \A i \in 1..ChunkNum : IsPlaintext(Chunks(v)[i])

EncryptFirst ==
  /\ phase = "ready" /\ Encryptable(first)
  /\ ct1' \in Encryptions(first)
  /\ phase' = "one"
  /\ UNCHANGED <<setup, ct2, response, distance>>

EncryptSecond ==
  /\ phase = "one" /\ Encryptable(second)
  /\ ct2' \in Encryptions(second)
  /\ phase' = "both"
  /\ UNCHANGED <<setup, ct1, response, distance>>

EncryptFails ==
  /\ \/ phase = "ready" /\ ~Encryptable(first)
     \/ phase = "one" /\ ~Encryptable(second)
  /\ phase' = "error"
  /\ UNCHANGED <<setup, ct1, ct2, response, distance>>

\* encode_hamming_server.
AddChunks(a, b) == [i \in DOMAIN a |-> CipherMul(a[i], b[i])]
Evaluate ==
  /\ phase = "both"
  /\ response' = AddChunks(ct1, ct2)
  /\ phase' = "evaluated"
  /\ UNCHANGED <<setup, ct1, ct2, distance>>

\* decode_hamming_client.
DecodeDistance ==
  /\ phase = "evaluated"
  /\ distance' = FoldLeft(LAMBDA acc, c : acc + OddDigits(Decrypt(c)), 0, response)
  /\ phase' = "decoded"
  /\ UNCHANGED <<setup, ct1, ct2, response>>

PaillierNext ==
  Construct \/ EncryptFirst \/ EncryptSecond \/ EncryptFails \/ Evaluate \/ DecodeDistance

PaillierSpec == PaillierInit /\ [][PaillierNext]_paillierVars

----------------------------------------------------------------------------
Distance == Cardinality({d \in 1..embedLen : first[d] # second[d]})

\* Encryption, addition and decryption under either scheme, with any
\* randomness, the table of every chunk and the short exponent of the lookup:
\* a distance is wrong only if the sum of a chunk passed the modulus, and an
\* encryption fails only on a chunk that is no plaintext.  For dimensions
\* below key_len that never happens.
WrongOnlyIfWrapped ==
  (\/ embedLen < keyPair.keyLen
   \/ \A i \in 1..ChunkNum : Chunks(first)[i] + Chunks(second)[i] < keyPair.n)
    => /\ phase = "decoded" => distance = Distance
       /\ phase # "error"
=============================================================================
