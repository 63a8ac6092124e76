-------------------------- MODULE ArithmeticProofs --------------------------
(***************************************************************************)
(* The arithmetic of the encrypted search, from integers up: the words and *)
(* digit sums of the kernels are exact for every word size, every modulus  *)
(* that leaves four bits of a word free and any number of digits; gadget   *)
(* digits are those of the number that the residues stand for, for any     *)
(* list of primes; products of polynomials by big integers are exact, no   *)
(* lane running into the next; and the packed layout puts every Hamming    *)
(* distance where the client looks for it, for every ring, dimension,      *)
(* query and index.                                                        *)
(***************************************************************************)
EXTENDS DigitSums, PackedHamming, PackedWire, MixedRadix, KroneckerPacking, FiniteSetTheorems,
        SequenceTheorems, TLAPS

(* Integers: products, quotients and remainders.                           *)
LEMMA TimesSign ==
  ASSUME NEW a \in Int, NEW b \in Int, a >= 0, b >= 0
  PROVE  a * b >= 0
  OBVIOUS

LEMMA TimesMonotone ==
  ASSUME NEW a \in Int, NEW b \in Int, NEW c \in Int, a <= b, c >= 0
  PROVE  a * c <= b * c
<1>1. (b - a) * c >= 0
  BY TimesSign
<1>2. QED
  BY <1>1

LEMMA TimesStrict ==
  ASSUME NEW a \in Int, NEW b \in Int, NEW c \in Int, a < b, c > 0
  PROVE  a * c < b * c
<1>1. (b - a - 1) * c >= 0
  BY TimesSign
<1>2. QED
  BY <1>1

(* A common positive factor can be taken out of an inequality.             *)
LEMMA TimesCancel ==
  ASSUME NEW a \in Int, NEW b \in Int, NEW c \in Int, c > 0, a * c < b * c
  PROVE  a < b
<1>1. a >= b => a * c >= b * c
  BY TimesMonotone
<1>2. a * c \in Int /\ b * c \in Int
  OBVIOUS
<1>3. QED
  BY <1>1, <1>2

LEMMA DivMod ==
  ASSUME NEW a \in Int, NEW b \in Int, b > 0
  PROVE  /\ a \div b \in Int /\ a % b \in Int
         /\ a = (a \div b) * b + (a % b)
         /\ 0 <= a % b /\ a % b < b
  OBVIOUS

(* A quotient and a remainder in range are the only ones.                  *)
LEMMA DivModUnique ==
  ASSUME NEW b \in Int, b > 0, NEW k \in Int, NEW r \in Int, 0 <= r, r < b
  PROVE  (k * b + r) \div b = k /\ (k * b + r) % b = r
<1> DEFINE a == k * b + r
<1> DEFINE d == a \div b
<1> DEFINE m == a % b
<1>1. a \in Int /\ k * b \in Int
  OBVIOUS
<1>2. d \in Int /\ m \in Int /\ a = d * b + m /\ 0 <= m /\ m < b
  BY <1>1, DivMod
<1>3. d * b \in Int
  BY <1>2
<1> HIDE DEF d, m
<1>4. k * b < (d + 1) * b
  BY <1>1, <1>2, <1>3
<1>5. d * b < (k + 1) * b
  BY <1>1, <1>2, <1>3
<1>6. k < d + 1
  BY <1>2, <1>4, TimesCancel
<1>7. d < k + 1
  BY <1>2, <1>5, TimesCancel
<1>8. d = k
  BY <1>2, <1>6, <1>7
<1>9. m = r
  BY <1>1, <1>2, <1>8
<1>10. QED
  BY <1>8, <1>9 DEF d, m

(* Multiples of the modulus do not change a remainder.                     *)
LEMMA ModShift ==
  ASSUME NEW a \in Int, NEW k \in Int, NEW b \in Int, b > 0
  PROVE  (a + k * b) % b = a % b
<1> DEFINE d == a \div b
<1> DEFINE m == a % b
<1>1. d \in Int /\ m \in Int /\ a = d * b + m /\ 0 <= m /\ m < b
  BY DivMod
<1> HIDE DEF d, m
<1>2. a + k * b = (d + k) * b + m
  BY <1>1
<1>3. d + k \in Int
  BY <1>1
<1>4. ((d + k) * b + m) % b = m
  BY <1>1, <1>3, DivModUnique
<1>5. QED
  BY <1>2, <1>4 DEF m

(* Words in range are their own remainders.                                *)
LEMMA ModSmall ==
  ASSUME NEW a \in Int, NEW b \in Int, b > 0, 0 <= a, a < b
  PROVE  a % b = a
<1>1. (0 * b + a) % b = a
  BY DivModUnique
<1>2. QED
  BY <1>1

(* A remainder may be taken of the terms of a sum first.                   *)
LEMMA ModAdd ==
  ASSUME NEW a \in Int, NEW c \in Int, NEW b \in Int, b > 0
  PROVE  ((a % b) + c) % b = (a + c) % b
<1> DEFINE d == a \div b
<1> DEFINE m == a % b
<1>1. d \in Int /\ m \in Int /\ a = d * b + m
  BY DivMod
<1> HIDE DEF d, m
<1>2. a + c = (m + c) + d * b
  BY <1>1
<1>3. m + c \in Int
  BY <1>1
<1>4. ((m + c) + d * b) % b = (m + c) % b
  BY <1>1, <1>3, ModShift
<1>5. QED
  BY <1>2, <1>4 DEF m

(* Induction over the natural numbers, as a statement about sets.  A number*)
(* outside S would have all its predecessors outside S too, and taking one *)
(* from each would map them into fewer than they are.                      *)
LEMMA SetInduction ==
  ASSUME NEW S, 0 \in S, \A n \in Nat : n \in S => n + 1 \in S
  PROVE  \A n \in Nat : n \in S
<1> SUFFICES ASSUME NEW n \in Nat, n \notin S PROVE FALSE
  OBVIOUS
<1> DEFINE T == {x \in 0 .. n : x \notin S}
          R == T \ {n}
          f == [x \in T |-> x - 1]
<1>1. IsFiniteSet(T) /\ Cardinality(T) \in Nat
  <2>1. IsFiniteSet(0 .. n)
    BY FS_Interval
  <2>2. T \subseteq 0 .. n
    OBVIOUS
  <2> QED BY <2>1, <2>2, FS_Subset, FS_CardinalityType
<1>2. n \in T
  OBVIOUS
<1>3. IsFiniteSet(R) /\ Cardinality(R) = Cardinality(T) - 1
  BY <1>1, <1>2, FS_RemoveElement
<1>4. f \in Injection(T, R)
  <2>1. \A x \in T : x - 1 \in R
    <3> SUFFICES ASSUME NEW x \in T PROVE x - 1 \in R
      OBVIOUS
    <3>1. x \in Nat /\ x # 0
      OBVIOUS
    <3>2. x - 1 \in Nat /\ (x - 1) + 1 = x
      BY <3>1
    <3>3. x - 1 \notin S
      BY <3>2
    <3> QED BY <3>1, <3>2, <3>3
  <2> QED BY <2>1 DEF Injection, IsInjective
<1>5. Cardinality(T) <= Cardinality(R)
  BY <1>1, <1>3, <1>4, FS_Injection DEF ExistsInjection
<1> QED BY <1>1, <1>3, <1>5

(* A quotient that is rounded up.                                          *)
LEMMA CeilIs ==
  ASSUME NEW a \in Nat, NEW b \in Nat, b > 0
  PROVE  /\ CeilDiv(a, b) \in Nat
         /\ (CeilDiv(a, b) - 1) * b < a /\ a <= CeilDiv(a, b) * b
<1> DEFINE k == (a + b - 1) \div b
          r == (a + b - 1) % b
<1>1. k \in Int /\ r \in Int /\ a + b - 1 = k * b + r /\ 0 <= r /\ r < b
  BY DivMod
<1> HIDE DEF k, r
<1>2. k * b \in Int
  BY <1>1
<1>3. -1 * b < k * b
  BY <1>1, <1>2
<1>4. -1 < k
  BY <1>1, <1>3, TimesCancel
<1>5. (k - 1) * b = k * b - b
  BY <1>1
<1>6. (k - 1) * b < a /\ a <= k * b
  BY <1>1, <1>2, <1>5
<1> QED BY <1>1, <1>4, <1>6 DEF CeilDiv, k

LEMMA CeilUnique ==
  ASSUME NEW a \in Nat, NEW b \in Nat, b > 0, NEW k \in Int,
         (k - 1) * b < a, a <= k * b
  PROVE  CeilDiv(a, b) = k
<1> DEFINE c == CeilDiv(a, b)
<1>1. c \in Nat /\ (c - 1) * b < a /\ a <= c * b
  BY CeilIs
<1> HIDE DEF c
<1>2. (c - 1) * b < k * b /\ (k - 1) * b < c * b
  BY <1>1
<1>3. c - 1 < k /\ k - 1 < c
  BY <1>1, <1>2, TimesCancel
<1> QED BY <1>1, <1>3 DEF c

-----------------------------------------------------------------------------

(* Powers of two, as a table.                                              *)
Two == [i \in 0 .. 16 |-> 2^i]

LEMMA TwoTo == ASSUME NEW i \in 0 .. 16 PROVE Two[i] = 2^i
  BY DEF Two

LEMMA TwoValues ==
  /\ Two[0] = 1
  /\ Two[1] = 2
  /\ Two[2] = 4
  /\ Two[3] = 8
  /\ Two[4] = 16
  /\ Two[5] = 32
  /\ Two[6] = 64
  /\ Two[7] = 128
  /\ Two[8] = 256
  /\ Two[9] = 512
  /\ Two[10] = 1024
  /\ Two[11] = 2048
  /\ Two[12] = 4096
  /\ Two[13] = 8192
  /\ Two[14] = 16384
  /\ Two[15] = 32768
  /\ Two[16] = 65536
<1>0. Two[0] = 1
  BY DEF Two
<1>1. Two[1] = 2
  BY DEF Two
<1>2. Two[2] = 4
  BY DEF Two
<1>3. Two[3] = 8
  BY DEF Two
<1>4. Two[4] = 16
  BY DEF Two
<1>5. Two[5] = 32
  BY DEF Two
<1>6. Two[6] = 64
  BY DEF Two
<1>7. Two[7] = 128
  BY DEF Two
<1>8. Two[8] = 256
  BY DEF Two
<1>9. Two[9] = 512
  BY DEF Two
<1>10. Two[10] = 1024
  BY DEF Two
<1>11. Two[11] = 2048
  BY DEF Two
<1>12. Two[12] = 4096
  BY DEF Two
<1>13. Two[13] = 8192
  BY DEF Two
<1>14. Two[14] = 16384
  BY DEF Two
<1>15. Two[15] = 32768
  BY DEF Two
<1>16. Two[16] = 65536
  BY DEF Two
<1> QED BY <1>0, <1>1, <1>2, <1>3, <1>4, <1>5, <1>6, <1>7, <1>8, <1>9, <1>10, <1>11, <1>12,
           <1>13, <1>14, <1>15, <1>16

LEMMA TwoDoubles == \A i \in 0 .. 15 : Two[i] \in Nat \ {0} /\ Two[i + 1] = 2 * Two[i]
  BY TwoValues

LEMMA TwoType == \A i \in 0 .. 16 : Two[i] \in Nat \ {0}
  BY TwoValues

LEMMA TwoOrder == \A i, j \in 0 .. 16 : Two[i] < Two[j] => i < j /\ 2 * Two[i] <= Two[j]
  BY TwoValues

(* The first power of two that is not less than a number.                  *)
LEMMA TwoReaches ==
  ASSUME NEW e \in Nat, e > 0, e <= 32768
  PROVE  \E i \in 0 .. 15 : Two[i] >= e /\ Two[i] < 2 * e
<1> DEFINE S == {m \in Nat : m > 0 /\ m <= 32768 =>
                     \E i \in 0 .. 15 : Two[i] >= m /\ Two[i] < 2 * m}
<1>1. 0 \in S
  OBVIOUS
<1>2. ASSUME NEW m \in Nat, m \in S PROVE m + 1 \in S
  <2> SUFFICES ASSUME m + 1 <= 32768
               PROVE  \E i \in 0 .. 15 : Two[i] >= m + 1 /\ Two[i] < 2 * (m + 1)
    OBVIOUS
  <2>1. CASE m = 0
    BY <2>1, TwoValues
  <2>2. CASE m > 0
    <3>1. PICK i \in 0 .. 15 : Two[i] >= m /\ Two[i] < 2 * m
      BY <1>2, <2>2
    <3>2. Two[i] \in Nat /\ Two[i + 1] = 2 * Two[i]
      BY TwoDoubles
    <3>3. CASE Two[i] >= m + 1
      BY <3>1, <3>2, <3>3
    <3>4. CASE Two[i] = m
      <4>1. i # 15
        <5> SUFFICES ASSUME i = 15 PROVE FALSE
          OBVIOUS
        <5>1. m = 32768
          BY <3>4, TwoValues
        <5> QED BY <5>1
      <4>2. i + 1 \in 0 .. 15
        BY <4>1
      <4> QED BY <2>2, <3>2, <3>4, <4>2
    <3> QED BY <3>1, <3>2, <3>3, <3>4
  <2> QED BY <2>1, <2>2
<1> HIDE DEF S
<1>3. e \in S
  BY <1>1, <1>2, SetInduction
<1> QED BY <1>3 DEF S

LEMMA TwoPlus == ASSUME NEW i \in 0 .. 16, NEW k \in 0 .. 16, i + k <= 16
                 PROVE  Two[i + k] = Two[i] * Two[k]
<1> DEFINE S == {m \in Nat : i + m <= 16 => Two[i + m] = Two[i] * Two[m]}
<1>1. 0 \in S
  BY TwoValues, TwoType
<1>2. ASSUME NEW m \in Nat, m \in S PROVE m + 1 \in S
  <2> SUFFICES ASSUME i + (m + 1) <= 16 PROVE Two[i + (m + 1)] = Two[i] * Two[m + 1]
    BY <1>2
  <2>1. i + m \in 0 .. 15 /\ m \in 0 .. 15
    OBVIOUS
  <2>2. Two[i + m] = Two[i] * Two[m]
    BY <1>2, <2>1
  <2>3. Two[(i + m) + 1] = 2 * Two[i + m] /\ Two[m + 1] = 2 * Two[m]
    BY <2>1, TwoDoubles
  <2>4. Two[i] \in Nat /\ Two[m] \in Nat
    BY <2>1, TwoType
  <2>5. 2 * (Two[i] * Two[m]) = Two[i] * (2 * Two[m])
    BY <2>4
  <2>6. (i + m) + 1 = i + (m + 1)
    OBVIOUS
  <2> QED BY <2>2, <2>3, <2>5, <2>6
<1> HIDE DEF S
<1>3. k \in S
  BY <1>1, <1>2, SetInduction
<1> QED BY <1>3 DEF S

-----------------------------------------------------------------------------

(* The kernels.                                                            *)

(* What is short of a remainder at most once needs one subtraction.        *)
LEMMA OneSubtraction ==
  ASSUME NEW p \in Int, p > 0, NEW z \in 0 .. 2 * p - 1
  PROVE  (IF z >= p THEN z - p ELSE z) = z % p
<1>1. z \in Int /\ 0 <= z /\ z < 2 * p
  OBVIOUS
<1>2. CASE z >= p
  <2>1. (1 * p + (z - p)) % p = z - p
    BY <1>1, <1>2, DivModUnique
  <2>2. 1 * p + (z - p) = z
    BY <1>1
  <2>3. QED
    BY <1>2, <2>1, <2>2
<1>3. CASE ~ (z >= p)
  BY <1>1, <1>3, ModSmall
<1>4. QED
  BY <1>2, <1>3

-----------------------------------------------------------------------------

LEMMA BaseFacts == B \in Int /\ B > 0 /\ B * B \in Int /\ B * B > 0
<1>1. B \in Int /\ B > 0
  BY WordAssumption DEF B
<1>2. QED
  BY <1>1, TimesStrict

LEMMA FitsFacts ==
  ASSUME NEW p, Fits(p)
  PROVE  p \in Int /\ p > 1 /\ 16 * p < B
  BY DEF Fits

(* Shoup's lazy product needs no more than a factor below p and an input   *)
(* of one word: it is the product modulo p, short of p at most once.       *)
THEOREM LazyProduct ==
  ASSUME NEW p, Fits(p), NEW v \in 0 .. p - 1, NEW x \in Words
  PROVE  /\ MultiplyLazy(Multiplier(v, p), x, p) \in 0 .. 2 * p - 1
         /\ MultiplyLazy(Multiplier(v, p), x, p) % p = (x * v) % p
<1> DEFINE h == (v * B) \div p
<1> DEFINE r == (v * B) % p
<1> DEFINE e == (x * h) \div B
<1> DEFINE s == (x * h) % B
<1> DEFINE z == x * v - e * p
<1>1. p \in Int /\ p > 0 /\ 16 * p < B /\ B \in Int /\ B > 0
  BY FitsFacts, BaseFacts
<1>2. v \in Int /\ 0 <= v /\ x \in Int /\ 0 <= x /\ x < B
  BY <1>1 DEF Words
<1>3. v * B \in Int
  BY <1>1, <1>2
<1>4. h \in Int /\ r \in Int /\ v * B = h * p + r /\ 0 <= r /\ r < p
  BY <1>1, <1>3, DivMod
<1> HIDE DEF h, r
<1>5. x * h \in Int
  BY <1>2, <1>4
<1>6. e \in Int /\ s \in Int /\ x * h = e * B + s /\ 0 <= s /\ s < B
  BY <1>1, <1>5, DivMod
<1> HIDE DEF e, s
<1>7. x * (h * p + r) = (x * h) * p + x * r
  BY <1>2, <1>4, <1>1
<1>8. x * (v * B) = (e * B + s) * p + x * r
  BY <1>4, <1>6, <1>7
<1>9. z \in Int /\ z * B = x * r + s * p
  BY <1>1, <1>2, <1>4, <1>6, <1>8
<1> HIDE DEF z
<1>10. x * r >= 0 /\ s * p >= 0
  BY <1>1, <1>2, <1>4, <1>6, TimesSign
<1>11. x * r <= B * r /\ B * r < B * p /\ s * p < B * p
  <2>1. x * r <= B * r
    BY <1>1, <1>2, <1>4, TimesMonotone
  <2>2. r * B < p * B
    BY <1>1, <1>4, TimesStrict
  <2>3. s * p < B * p
    BY <1>1, <1>6, TimesStrict
  <2>4. QED
    BY <1>1, <1>4, <2>1, <2>2, <2>3
<1>12. z * B < (2 * p) * B /\ (0 - 1) * B < z * B
  BY <1>1, <1>2, <1>4, <1>6, <1>9, <1>10, <1>11
<1>13. z < 2 * p /\ 0 - 1 < z
  BY <1>1, <1>9, <1>12, TimesCancel
<1>14. z \in 0 .. 2 * p - 1 /\ z < B
  BY <1>1, <1>9, <1>13
<1>15. z % B = z
  BY <1>1, <1>14, ModSmall
<1>16. MultiplyLazy(Multiplier(v, p), x, p) = z
  BY <1>15 DEF MultiplyLazy, Multiplier, z, e, h
<1>17. z % p = (x * v) % p
  <2>1. x * v = z + e * p /\ z \in Int
    BY <1>1, <1>2, <1>6, <1>9 DEF z
  <2>2. (z + e * p) % p = z % p
    BY <2>1, <1>1, <1>6, ModShift
  <2>3. QED
    BY <2>1, <2>2
<1>18. QED
  BY <1>14, <1>16, <1>17
(* The full product by a fixed factor is the product modulo p.             *)
THEOREM ProductIsExact ==
  ASSUME NEW p, Fits(p), NEW v \in 0 .. p - 1, NEW x \in Words
  PROVE  Multiply(Multiplier(v, p), x, p) = (x * v) % p
<1> DEFINE z == MultiplyLazy(Multiplier(v, p), x, p)
<1>1. p \in Int /\ p > 0
  BY FitsFacts
<1>2. z \in 0 .. 2 * p - 1 /\ z % p = (x * v) % p
  BY LazyProduct
<1> HIDE DEF z
<1>3. (IF z >= p THEN z - p ELSE z) = z % p
  BY <1>1, <1>2, OneSubtraction
<1>4. QED
  BY <1>2, <1>3 DEF Multiply, z

-----------------------------------------------------------------------------

(* The four products of words add up to the quotient of the double word.   *)
LEMMA QuotientOfWords ==
  ASSUME NEW p, Fits(p), NEW x \in Wide
  PROVE  Quotient(x, p) = ((x * Reciprocal(p)) \div (B * B)) % B
<1> DEFINE R == Reciprocal(p)
<1> DEFINE R0 == R % B
<1> DEFINE R1 == R \div B
<1> DEFINE low == x % B
<1> DEFINE high == x \div B
<1> DEFINE c0 == (low * R0) \div B
<1> DEFINE d0 == (low * R0) % B
<1> DEFINE c1 == (low * R1) \div B
<1> DEFINE d1 == (low * R1) % B
<1> DEFINE c2 == (high * R0) \div B
<1> DEFINE d2 == (high * R0) % B
<1> DEFINE c3 == (c0 + d1 + d2) \div B
<1> DEFINE d3 == (c0 + d1 + d2) % B
<1> DEFINE Q == high * R1 + c1 + c2 + c3
<1>0. Quotient(x, p) = Q % B
  BY DEF Quotient
<1>1. p \in Int /\ p > 1 /\ B \in Int /\ B > 0 /\ B * B \in Int /\ B * B > 0
  BY FitsFacts, BaseFacts
<1>2. x \in Int /\ R \in Int
  BY <1>1, DivMod DEF Wide, Reciprocal
<1> HIDE DEF R
<1>3. /\ R0 \in Int /\ R1 \in Int /\ R = R1 * B + R0
      /\ low \in Int /\ high \in Int /\ x = high * B + low
  BY <1>1, <1>2, DivMod
<1> HIDE DEF R0, R1, low, high
<1>4. /\ low * R0 \in Int /\ low * R1 \in Int
      /\ high * R0 \in Int /\ high * R1 \in Int
  BY <1>3
<1>5. /\ c0 \in Int /\ d0 \in Int /\ low * R0 = c0 * B + d0 /\ 0 <= d0 /\ d0 < B
      /\ c1 \in Int /\ d1 \in Int /\ low * R1 = c1 * B + d1
      /\ c2 \in Int /\ d2 \in Int /\ high * R0 = c2 * B + d2
  BY <1>1, <1>4, DivMod
<1> HIDE DEF c0, d0, c1, d1, c2, d2
<1>6. /\ c3 \in Int /\ d3 \in Int /\ c0 + d1 + d2 = c3 * B + d3
      /\ 0 <= d3 /\ d3 < B
  BY <1>1, <1>5, DivMod
<1> HIDE DEF c3, d3
<1>7. x * R = (high * R1) * (B * B) + (low * R1 + high * R0) * B + low * R0
  BY <1>1, <1>3
<1>8. x * R = Q * (B * B) + (d3 * B + d0)
  <2>1. low * R1 + high * R0 = (c1 + c2) * B + (d1 + d2)
    BY <1>1, <1>5
  <2>2. d1 + d2 = c3 * B + d3 - c0
    BY <1>5, <1>6, <1>1
  <2>3. x * R = (high * R1) * (B * B) + ((c1 + c2) * B + (c3 * B + d3 - c0)) * B
                  + (c0 * B + d0)
    BY <1>5, <1>7, <2>1, <2>2
  <2> DEFINE h == high * R1
  <2>4. h \in Int
    BY <1>4
  <2> HIDE DEF h
  <2>5. h * (B * B) + ((c1 + c2) * B + (c3 * B + d3 - c0)) * B + (c0 * B + d0)
          = (h + c1 + c2 + c3) * (B * B) + (d3 * B + d0)
    BY <1>1, <1>5, <1>6, <2>4
  <2>6. QED
    BY <2>3, <2>5 DEF h
<1>9. Q \in Int
  BY <1>4, <1>5, <1>6
<1> HIDE DEF Q
<1>10. d3 * B + d0 \in Int /\ 0 <= d3 * B + d0 /\ d3 * B + d0 < B * B
  <2>1. d3 * B <= (B - 1) * B
    BY <1>1, <1>6, TimesMonotone
  <2>2. d3 * B >= 0
    BY <1>1, <1>6, TimesSign
  <2>3. d3 * B \in Int /\ (B - 1) * B = B * B - B
    BY <1>1, <1>6
  <2>4. QED
    BY <2>1, <2>2, <2>3, <1>1, <1>5
<1>11. (Q * (B * B) + (d3 * B + d0)) \div (B * B) = Q
  BY <1>1, <1>9, <1>10, DivModUnique, Zenon
<1>12. QED
  BY <1>0, <1>8, <1>11 DEF R
(* Barrett's rest is the value modulo p, short of p at most once: the      *)
(* reciprocal is less than one below the fraction it stands for.           *)
LEMMA RestInRange ==
  ASSUME NEW p, Fits(p), NEW x \in Wide
  PROVE  Rest(x, p) \in 0 .. 2 * p - 1 /\ Rest(x, p) % p = x % p
<1> DEFINE W == B * B
<1> DEFINE R == Reciprocal(p)
<1> DEFINE s == (W - 1) % p
<1> DEFINE Q == (x * R) \div W
<1> DEFINE u == (x * R) % W
<1> DEFINE z == x - Q * p
<1> DEFINE k == Q \div B
<1>1. p \in Int /\ p > 0 /\ 16 * p < B /\ B \in Int /\ B > 0 /\ W \in Int /\ W > 0
  BY FitsFacts, BaseFacts
<1>2. x \in Int /\ 0 <= x /\ x < W
  BY <1>1 DEF Wide
<1>3. Quotient(x, p) = Q % B
  BY QuotientOfWords
<1>4. R = (W - 1) \div p
  BY DEF Reciprocal
<1> HIDE DEF W
<1>5. R \in Int /\ s \in Int /\ W - 1 = R * p + s /\ 0 <= s /\ s < p
  BY <1>1, <1>4, DivMod
<1> HIDE DEF R, s
<1>6. x * R \in Int
  BY <1>2, <1>5
<1>7. Q \in Int /\ u \in Int /\ x * R = Q * W + u /\ 0 <= u /\ u < W
  BY <1>1, <1>6, DivMod
<1> HIDE DEF Q, u
<1>8. Q * p \in Int /\ z \in Int
  BY <1>1, <1>2, <1>7
<1>9. z * W = x * (s + 1) + u * p
  <2>1. x * (R * p + s + 1) = x * W
    BY <1>5, <1>1, <1>2
  <2>2. x * (R * p + s + 1) = (x * R) * p + x * (s + 1)
    BY <1>1, <1>2, <1>5
  <2>3. x * W = (Q * W + u) * p + x * (s + 1)
    BY <2>1, <2>2, <1>7
  <2>4. (Q * W + u) * p = (Q * p) * W + u * p
    BY <1>1, <1>7
  <2>5. z * W = x * W - (Q * p) * W
    BY <1>1, <1>2, <1>8
  <2>6. x * W \in Int /\ (Q * p) * W \in Int /\ u * p \in Int /\ x * (s + 1) \in Int
    BY <1>1, <1>2, <1>5, <1>7, <1>8
  <2>7. QED
    BY <2>3, <2>4, <2>5, <2>6
<1> HIDE DEF z
<1>10. x * (s + 1) >= 0 /\ u * p >= 0
  BY <1>1, <1>2, <1>5, <1>7, TimesSign
<1>11. x * (s + 1) < W * p /\ u * p < W * p
  <2>1. x * (s + 1) < W * (s + 1)
    BY <1>1, <1>2, <1>5, TimesStrict
  <2>2. (s + 1) * W <= p * W
    BY <1>1, <1>5, TimesMonotone
  <2>3. u * p < W * p
    BY <1>1, <1>7, TimesStrict
  <2>4. QED
    BY <2>1, <2>2, <2>3, <1>1, <1>2, <1>5
<1>12. z * W < (2 * p) * W /\ (0 - 1) * W < z * W
  BY <1>1, <1>2, <1>5, <1>7, <1>8, <1>9, <1>10, <1>11
<1>13. z < 2 * p /\ 0 - 1 < z
  BY <1>1, <1>8, <1>12, TimesCancel
<1>14. z \in 0 .. 2 * p - 1 /\ z < B
  BY <1>1, <1>8, <1>13
<1>15. Rest(x, p) = z
  <2>1. k \in Int /\ Q % B \in Int /\ Q = k * B + (Q % B)
    BY <1>1, <1>7, DivMod
  <2> DEFINE m == Q % B
  <2> HIDE DEF k, m
  <2>2. x - m * p = z + (k * p) * B
    BY <1>1, <1>2, <1>7, <2>1 DEF z, m
  <2>3. k * p \in Int
    BY <1>1, <2>1
  <2>4. (z + (k * p) * B) % B = z % B
    BY <1>1, <1>8, <2>3, ModShift
  <2>5. z % B = z
    BY <1>1, <1>14, ModSmall
  <2>6. QED
    BY <1>3, <2>2, <2>4, <2>5 DEF Rest, m
<1>16. z % p = x % p
  <2>1. x = z + Q * p
    BY <1>1, <1>2, <1>7, <1>8 DEF z
  <2>2. z \in Int /\ Q \in Int /\ p \in Int /\ p > 0
    BY <1>1, <1>7, <1>8
  <2>3. (z + Q * p) % p = z % p
    BY <2>2, ModShift, Zenon
  <2>4. QED
    BY <2>1, <2>3
<1>17. QED
  BY <1>14, <1>15, <1>16

(* Reduction of a double word is exact for every double word.              *)
THEOREM ReduceIsRemainder ==
  ASSUME NEW p, Fits(p), NEW x \in Wide
  PROVE  Reduce(x, p) = x % p
<1> DEFINE z == Rest(x, p)
<1>1. p \in Int /\ p > 0
  BY FitsFacts
<1>2. z \in 0 .. 2 * p - 1 /\ z % p = x % p
  BY RestInRange
<1> HIDE DEF z
<1>3. (IF z >= p THEN z - p ELSE z) = z % p
  BY <1>1, <1>2, OneSubtraction
<1>4. QED
  BY <1>2, <1>3 DEF Reduce, z

-----------------------------------------------------------------------------

Square == (prime - 1) * (prime - 1)

SumsInv == SumsTypeOK /\ accum <= Room /\ accum % prime = total

LEMMA PrimeFacts ==
  ASSUME SumsTypeOK
  PROVE  /\ Fits(prime) /\ prime \in Int /\ prime > 1 /\ 16 * prime < B
         /\ Square \in Int /\ Square >= 0
<1>1. Fits(prime)
  BY DigitsAssumption DEF SumsTypeOK
<1>2. prime \in Int /\ prime > 1 /\ 16 * prime < B
  BY <1>1, FitsFacts
<1>3. Square \in Int /\ Square >= 0
  BY <1>2, TimesSign DEF Square
<1>4. QED
  BY <1>1, <1>2, <1>3

(* A whole batch, and the remainder of the batches before it, is below the *)
(* square of a word.                                                       *)
LEMMA BatchFits ==
  ASSUME SumsTypeOK
  PROVE  256 * Square + (prime - 1) < B * B
<1>1. prime \in Int /\ prime > 1 /\ 16 * prime < B /\ B \in Int
  BY PrimeFacts, BaseFacts
<1>2. (16 * prime) * (16 * prime) < B * B
  <2>1. (16 * prime) * (16 * prime) < B * (16 * prime)
    BY <1>1, TimesStrict
  <2>2. (16 * prime) * B < B * B
    BY <1>1, TimesStrict
  <2>3. QED
    BY <1>1, <2>1, <2>2
<1>3. Square = prime * prime - 2 * prime + 1
  BY <1>1 DEF Square
<1>4. QED
  BY <1>1, <1>2, <1>3

LEMMA RoomFits ==
  ASSUME SumsTypeOK
  PROVE  /\ Room \in Int
         /\ Room + Square < B * B
         /\ (digit + 1) % BatchSize # 0 =>
              (digit + 1) % BatchSize = (digit % BatchSize) + 1
<1>1. Square \in Int /\ Square >= 0 /\ prime \in Int /\ prime > 1
  BY PrimeFacts
<1> DEFINE n == digit % 256
<1>2. digit \in Int
  BY DigitsAssumption DEF SumsTypeOK
<1>3. n \in Int /\ 0 <= n /\ n < 256
  BY <1>2
<1>4. (digit + 1) % 256 # 0 => (digit + 1) % 256 = n + 1
  BY <1>2
<1> HIDE DEF n
<1>5. Room = n * Square + (prime - 1)
  BY DEF Room, BatchSize, Square, n
<1>6. n * Square <= 255 * Square /\ n * Square \in Int
  BY <1>1, <1>3, TimesMonotone
<1>7. QED
  BY <1>1, <1>4, <1>5, <1>6, BatchFits, BaseFacts DEF BatchSize, n
(* Either way of reducing gives the remainder.                             *)
LEMMA RemainderIsExact ==
  ASSUME SumsTypeOK, NEW x \in Wide
  PROVE  Remainder(x) = x % prime
<1>1. Fits(prime)
  BY PrimeFacts
<1>2. Reduce(x, prime) = x % prime
  BY <1>1, ReduceIsRemainder
<1>3. QED
  BY <1>2 DEF Remainder

LEMMA SumsInitial == SumsInit => SumsInv
<1> SUFFICES ASSUME SumsInit PROVE SumsInv
  OBVIOUS
<1>1. prime \in Primes /\ digit = 0 /\ accum = 0 /\ total = 0
  BY DEF SumsInit
<1>2. prime \in Int /\ prime > 1
  BY <1>1, DigitsAssumption, FitsFacts
<1>3. SumsTypeOK
  BY <1>1, <1>2, DigitsAssumption, BaseFacts DEF SumsInit, SumsTypeOK, Wide
<1>4. accum <= Room
  <2>1. Room \in Int /\ Square >= 0 /\ Square \in Int
    BY <1>3, RoomFits, PrimeFacts
  <2>2. Room = (digit % 256) * Square + (prime - 1)
    BY DEF Room, BatchSize, Square
  <2>3. digit % 256 = 0
    BY <1>1
  <2>4. QED
    BY <1>1, <1>2, <2>1, <2>2, <2>3
<1>5. accum % prime = total
  BY <1>1, <1>2, ModSmall
<1>6. QED
  BY <1>3, <1>4, <1>5 DEF SumsInv

LEMMA ProductBound ==
  ASSUME SumsTypeOK, NEW x \in 0 .. prime - 1, NEW y \in 0 .. prime - 1
  PROVE  x * y \in Int /\ 0 <= x * y /\ x * y <= Square
<1>1. prime \in Int /\ x \in Int /\ y \in Int
      /\ 0 <= x /\ x <= prime - 1 /\ 0 <= y /\ y <= prime - 1
  BY PrimeFacts
<1>2. x * y <= (prime - 1) * y
  BY <1>1, TimesMonotone
<1>3. y * (prime - 1) <= (prime - 1) * (prime - 1)
  BY <1>1, TimesMonotone
<1>4. x * y \in Int /\ 0 <= x * y
  BY <1>1, TimesSign
<1>5. QED
  BY <1>1, <1>2, <1>3, <1>4 DEF Square

LEMMA AccumulateStep ==
  ASSUME SumsInv, NEW x \in 0 .. prime - 1, NEW y \in 0 .. prime - 1, Accumulate(x, y)
  PROVE  SumsInv'
<1> DEFINE product == x * y
<1> DEFINE sum == accum + product
<1>1. SumsTypeOK /\ accum <= Room /\ accum % prime = total
  BY DEF SumsInv
<1>2. product \in Int /\ 0 <= product /\ product <= Square
  BY <1>1, ProductBound
<1> HIDE DEF product
<1>3. /\ prime \in Int /\ prime > 1 /\ B * B \in Int /\ B * B > 0
      /\ Square \in Int /\ Square >= 0 /\ Room \in Int /\ Room + Square < B * B
      /\ accum \in Int /\ 0 <= accum /\ digit \in Int /\ 0 <= digit
  BY <1>1, PrimeFacts, BaseFacts, RoomFits, DigitsAssumption DEF SumsTypeOK, Wide
<1>4. sum \in Int /\ 0 <= sum /\ sum <= Room + Square /\ sum < B * B
  BY <1>1, <1>2, <1>3
<1>5. sum \in Wide /\ sum % (B * B) = sum
  BY <1>3, <1>4, ModSmall DEF Wide
<1>6. sum % prime = total'
  <2>1. accum \in Int /\ product \in Int /\ prime \in Int /\ prime > 0
    BY <1>2, <1>3
  <2>2. ((accum % prime) + product) % prime = (accum + product) % prime
    BY <2>1, ModAdd, Zenon
  <2>3. total' = (total + product) % prime
    BY DEF Accumulate, product
  <2>4. QED
    BY <1>1, <2>2, <2>3
<1> HIDE DEF sum
<1>7. /\ digit < MaxDigits /\ digit' = digit + 1 /\ prime' = prime /\ fast' = fast
      /\ accum' = Settled(sum, digit + 1)
  BY <1>5 DEF Accumulate, sum, product
<1>8. /\ total' \in 0 .. prime - 1
      /\ sum % prime \in 0 .. prime - 1
  BY <1>3, <1>4, <1>6, DivMod
<1>9. CASE (digit + 1) % BatchSize = 0
  <2>1. accum' = sum % prime
    BY <1>1, <1>5, <1>7, <1>9, RemainderIsExact DEF Settled
  <2>2. accum' \in Int /\ 0 <= accum' /\ accum' <= prime - 1 /\ accum' % prime = total'
    BY <1>3, <1>4, <1>6, <1>8, <2>1, ModSmall
  <2>3. Room' = prime - 1
    <3>1. Room' = ((digit + 1) % 256) * Square + (prime - 1)
      BY <1>7 DEF Room, BatchSize, Square
    <3>2. QED
      BY <1>3, <1>9, <3>1 DEF BatchSize
  <2>4. accum' \in Wide
    BY <2>2, <1>3, BatchFits, <1>1 DEF Wide
  <2>5. SumsTypeOK'
    BY <1>1, <1>3, <1>7, <1>8, <2>4, DigitsAssumption DEF SumsTypeOK
  <2>6. QED
    BY <1>3, <1>7, <2>2, <2>3, <2>5 DEF SumsInv
<1>10. CASE (digit + 1) % BatchSize # 0
  <2>1. accum' = sum
    BY <1>7, <1>10 DEF Settled
  <2>2. Room' = Room + Square
    <3> DEFINE n == digit % 256
    <3>1. Room' = ((digit + 1) % 256) * Square + (prime - 1)
          /\ Room = n * Square + (prime - 1)
      BY <1>7 DEF Room, BatchSize, Square
    <3>2. (digit + 1) % 256 = n + 1 /\ n \in Int
      BY <1>1, <1>3, <1>10, RoomFits DEF BatchSize
    <3> HIDE DEF n
    <3>3. QED
      BY <1>3, <3>1, <3>2
  <2>3. SumsTypeOK'
    BY <1>1, <1>3, <1>5, <1>7, <1>8, <2>1, DigitsAssumption DEF SumsTypeOK
  <2>4. QED
    BY <1>4, <1>6, <1>7, <2>1, <2>2, <2>3 DEF SumsInv
<1>11. QED
  BY <1>9, <1>10

LEMMA SumsInductive == SumsSpec => []SumsInv
<1>1. SumsInv /\ [SumsNext]_vars => SumsInv'
  <2> SUFFICES ASSUME SumsInv, [SumsNext]_vars PROVE SumsInv'
    OBVIOUS
  <2>1. CASE UNCHANGED vars
    BY <2>1 DEF vars, SumsInv, SumsTypeOK, Room
  <2>2. CASE SumsNext
    <3>1. PICK i \in Operands, j \in Operands : Accumulate(i % prime, j % prime)
      BY <2>2 DEF SumsNext
    <3>2. prime \in Int /\ prime > 1 /\ i \in Int /\ j \in Int
      BY PrimeFacts, DigitsAssumption DEF SumsInv
    <3>3. i % prime \in 0 .. prime - 1 /\ j % prime \in 0 .. prime - 1
      BY <3>2, DivMod
    <3>4. QED
      BY <3>1, <3>3, AccumulateStep
  <2>3. QED
    BY <2>1, <2>2
<1>2. QED
  BY SumsInitial, <1>1, PTL DEF SumsSpec

(* The counters and words of the sum stay in their ranges.                 *)
THEOREM SumsTypeCorrect == SumsSpec => []SumsTypeOK
<1>1. SumsInv => SumsTypeOK
  BY DEF SumsInv
<1>2. QED
  BY SumsInductive, <1>1, PTL

(* Reducing after every 256th digit is often enough for primes four bits   *)
(* short of a word: the double word never wraps.                           *)
THEOREM SumsNeverWrap == SumsSpec => []NeverWraps
<1>1. SumsInv => NeverWraps
  <2> SUFFICES ASSUME SumsInv PROVE NeverWraps
    OBVIOUS
  <2>1. SumsTypeOK /\ accum <= Room /\ accum \in Int
    BY BaseFacts DEF SumsInv, SumsTypeOK, Wide
  <2>2. Room \in Int /\ Square \in Int /\ Room + Square < B * B /\ B * B \in Int
    BY <2>1, RoomFits, PrimeFacts, BaseFacts
  <2>3. accum + Square < B * B
    BY <2>1, <2>2
  <2>4. QED
    BY <2>1, <2>3 DEF NeverWraps, Square
<1>2. QED
  BY SumsInductive, <1>1, PTL

(* The switched coefficient is the dot product modulo the prime, whether   *)
(* or not the transform reduces with Barrett.                              *)
THEOREM SumsAreExact == SumsSpec => []SumIsExact
<1>1. SumsInv => SumIsExact
  BY RemainderIsExact DEF SumsInv, SumsTypeOK, SumIsExact
<1>2. QED
  BY SumsInductive, <1>1, PTL

-----------------------------------------------------------------------------

(* The layout: a ciphertext has two rows of Padded blocks of LanesPerRow   *)
(* lanes.                                                                  *)
Dimension == embedLen \in 1 .. Half

LEMMA RingPower ==
  \E n \in 3 .. 15 : /\ SlotCount = Two[n] /\ Half = Two[n - 1]
                     /\ SlotCount = 2 * Half /\ Half \in Nat \ {0}
<1>1. PICK n \in 3 .. 15 : SlotCount = 2^n
  BY RingAssumption
<1>2. n \in 0 .. 16 /\ n - 1 \in 0 .. 15
  BY <1>1
<1>3. SlotCount = Two[n]
  BY <1>1, <1>2, TwoTo
<1>4. Two[(n - 1) + 1] = 2 * Two[n - 1] /\ Two[n - 1] \in Nat \ {0}
  BY <1>2, TwoDoubles
<1>5. (n - 1) + 1 = n
  OBVIOUS
<1>6. SlotCount = 2 * Two[n - 1] /\ Half = Two[n - 1]
  BY <1>3, <1>4, <1>5 DEF Half
<1> QED BY <1>3, <1>4, <1>6

LEMMA RingFacts == /\ SlotCount \in Int /\ Half \in Int /\ Half > 0 /\ SlotCount = 2 * Half
  BY RingPower

LEMMA PaddedIs ==
  ASSUME Dimension
  PROVE  /\ \E i \in 0 .. 15 : Padded = Two[i]
         /\ Padded >= embedLen /\ Padded < 2 * embedLen
<1>1. embedLen \in Nat /\ embedLen > 0 /\ embedLen <= 32768
  <2>1. PICK n \in 3 .. 15 : Half = Two[n - 1]
    BY RingPower
  <2>2. \A i \in 0 .. 15 : Two[i] <= 32768 /\ Two[i] \in Nat
    BY TwoValues
  <2>3. Half <= 32768 /\ Half \in Nat
    BY <2>1, <2>2, n - 1 \in 0 .. 15
  <2> QED BY <2>3 DEF Dimension
<1>2. PICK i \in 0 .. 15 : Two[i] >= embedLen /\ Two[i] < 2 * embedLen
  BY <1>1, TwoReaches
<1>3. Two[i] \in {2^k : k \in 0 .. 15}
  BY <1>2, i \in 0 .. 16, TwoTo
<1>4. Padded \in {2^k : k \in 0 .. 15} /\ Padded >= embedLen /\ Padded < 2 * embedLen
  BY <1>2, <1>3 DEF Padded
<1>5. PICK k \in 0 .. 15 : Padded = 2^k
  BY <1>4
<1>6. Padded = Two[k]
  BY <1>5, k \in 0 .. 16, TwoTo
<1> QED BY <1>4, <1>5, <1>6

LEMMA LayoutFacts ==
  ASSUME Dimension
  PROVE  /\ Padded \in Int /\ Padded > 0 /\ embedLen <= Padded
         /\ LanesPerRow \in Int /\ LanesPerRow > 0
         /\ Half = Padded * LanesPerRow
         /\ TileCapacity = 2 * LanesPerRow
         /\ SlotCount = Padded * TileCapacity
<1>1. PICK n \in 3 .. 15 : SlotCount = Two[n] /\ Half = Two[n - 1]
  BY RingPower
<1>2. PICK d \in 0 .. 15 : Padded = Two[d]
  BY PaddedIs
<1>3. Padded >= embedLen /\ Padded < 2 * embedLen
  BY PaddedIs
<1>4. Two[d] < Two[n]
  BY <1>1, <1>2, <1>3, RingFacts, TwoType DEF Dimension
<1>5. d < n
  BY <1>4, TwoOrder
<1> DEFINE k == n - 1 - d
<1>6. k \in 0 .. 16 /\ d + k = n - 1 /\ (d + 1) + k = n /\ d + 1 \in 0 .. 16
  BY <1>5
<1>7. Half = Two[d] * Two[k] /\ SlotCount = Two[d + 1] * Two[k] /\ Two[d + 1] = 2 * Two[d]
  <2>1. Two[d + k] = Two[d] * Two[k] /\ Two[(d + 1) + k] = Two[d + 1] * Two[k]
    BY <1>6, TwoPlus, d \in 0 .. 16
  <2> QED BY <1>1, <1>6, <2>1, TwoDoubles
<1>8. Two[d] \in Nat \ {0} /\ Two[k] \in Nat \ {0}
  BY <1>6, TwoType
<1>9. LanesPerRow = Two[k]
  <2>1. (Two[k] * (2 * Two[d]) + 0) \div (2 * Two[d]) = Two[k]
    BY <1>8, DivModUnique
  <2>2. SlotCount = Two[k] * (2 * Two[d]) + 0
    BY <1>7, <1>8
  <2> QED BY <1>2, <2>1, <2>2 DEF LanesPerRow
<1>10. SlotCount = Padded * TileCapacity
  <2>1. (2 * Two[d]) * Two[k] = Two[d] * (2 * Two[k])
    BY <1>8
  <2> QED BY <1>2, <1>7, <1>9, <2>1 DEF TileCapacity
<1> QED BY <1>2, <1>3, <1>7, <1>8, <1>9, <1>10 DEF TileCapacity

(* The slot of a lane of a block of a row, ...                             *)
SlotAt(r, b, l) == r * Half + (b * LanesPerRow + l)

LEMMA InRow ==
  ASSUME Dimension, NEW b \in 0 .. Padded - 1, NEW l \in 0 .. LanesPerRow - 1
  PROVE  b * LanesPerRow + l \in 0 .. Half - 1
<1>1. (b + 1) * LanesPerRow <= Padded * LanesPerRow
  BY LayoutFacts, TimesMonotone
<1>2. b * LanesPerRow >= 0 /\ b * LanesPerRow \in Int
  BY LayoutFacts
<1>3. (b + 1) * LanesPerRow = b * LanesPerRow + LanesPerRow
  BY LayoutFacts
<1> QED BY <1>1, <1>2, <1>3, LayoutFacts

LEMMA SlotAtIs ==
  ASSUME Dimension, NEW r \in {0, 1}, NEW b \in 0 .. Padded - 1, NEW l \in 0 .. LanesPerRow - 1
  PROVE  /\ SlotAt(r, b, l) \in Slots
         /\ RowOf(SlotAt(r, b, l)) = r
         /\ BlockOf(SlotAt(r, b, l)) = b
         /\ SlotAt(r, b, l) % Half = b * LanesPerRow + l
         /\ LaneOfSlot(SlotAt(r, b, l)) = r * LanesPerRow + l
<1> DEFINE m == b * LanesPerRow + l
<1>1. m \in 0 .. Half - 1
  BY InRow
<1>2. m \div LanesPerRow = b /\ m % LanesPerRow = l
  BY LayoutFacts, DivModUnique
<1> HIDE DEF m
<1>3. (r * Half + m) \div Half = r /\ (r * Half + m) % Half = m
  BY <1>1, RingFacts, DivModUnique
<1>4. r * Half + m \in 0 .. SlotCount - 1
  BY <1>1, RingFacts
<1> QED BY <1>2, <1>3, <1>4 DEF SlotAt, RowOf, BlockOf, LaneOfSlot, Slots, m

(* ... and every slot is one.                                              *)
LEMMA EverySlot ==
  ASSUME Dimension, NEW s \in Slots
  PROVE  \E r \in {0, 1}, b \in 0 .. Padded - 1, l \in 0 .. LanesPerRow - 1 : s = SlotAt(r, b, l)
<1> DEFINE r == s \div Half
           m == s % Half
           b == m \div LanesPerRow
           l == m % LanesPerRow
<1>1. s \in Int /\ 0 <= s /\ s < 2 * Half
  BY RingFacts DEF Slots
<1>2. r \in Int /\ m \in Int /\ s = r * Half + m /\ 0 <= m /\ m < Half
  BY <1>1, RingFacts, DivMod
<1> HIDE DEF r, m
<1>3. b \in Int /\ l \in Int /\ m = b * LanesPerRow + l /\ 0 <= l /\ l < LanesPerRow
  BY <1>2, LayoutFacts, DivMod
<1> HIDE DEF b, l
<1>4. r \in {0, 1}
  <2>1. r * Half \in Int
    BY <1>2, RingFacts
  <2>2. r * Half < 2 * Half /\ -1 * Half < r * Half
    BY <1>1, <1>2, <2>1, RingFacts
  <2>3. r < 2 /\ -1 < r
    BY <1>2, <2>2, RingFacts, TimesCancel
  <2> QED BY <1>2, <2>3
<1>5. b \in 0 .. Padded - 1
  <2>1. b * LanesPerRow \in Int
    BY <1>3, LayoutFacts
  <2>2. b * LanesPerRow < Padded * LanesPerRow /\ -1 * LanesPerRow < b * LanesPerRow
    BY <1>2, <1>3, <2>1, LayoutFacts
  <2>3. b < Padded /\ -1 < b
    BY <1>3, <2>2, LayoutFacts, TimesCancel
  <2> QED BY <1>3, <2>3, LayoutFacts
<1>6. l \in 0 .. LanesPerRow - 1
  BY <1>3, LayoutFacts
<1> QED BY <1>2, <1>3, <1>4, <1>5, <1>6 DEF SlotAt

(* A rotation by whole blocks moves blocks around a row.                   *)
LEMMA RotatedBlocks ==
  ASSUME Dimension, NEW c, NEW k \in Int,
         NEW r \in {0, 1}, NEW b \in 0 .. Padded - 1, NEW l \in 0 .. LanesPerRow - 1
  PROVE  /\ (b + k) % Padded \in 0 .. Padded - 1
         /\ RotateSlots(c, LanesPerRow * k)[SlotAt(r, b, l)] = c[SlotAt(r, (b + k) % Padded, l)]
<1> DEFINE h == (b + k) \div Padded
           m == (b + k) % Padded
<1>0. b + k \in Int /\ Padded \in Int /\ Padded > 0
  BY LayoutFacts
<1>1. h \in Int /\ m \in Int /\ b + k = h * Padded + m /\ 0 <= m /\ m < Padded
  BY <1>0, DivMod
<1> HIDE DEF h, m
<1>2. m \in 0 .. Padded - 1
  BY <1>1, LayoutFacts
<1>3. (b * LanesPerRow + l) + LanesPerRow * k = h * Half + (m * LanesPerRow + l)
  <2>1. (b * LanesPerRow + l) + LanesPerRow * k = (b + k) * LanesPerRow + l
    BY LayoutFacts
  <2>2. (h * Padded + m) * LanesPerRow = h * (Padded * LanesPerRow) + m * LanesPerRow
    BY <1>1, LayoutFacts
  <2>3. /\ h * (Padded * LanesPerRow) \in Int /\ m * LanesPerRow \in Int
        /\ (b + k) * LanesPerRow \in Int
    BY <1>1, LayoutFacts
  <2> QED BY <1>1, <2>1, <2>2, <2>3, LayoutFacts
<1>4. m * LanesPerRow + l \in 0 .. Half - 1
  BY <1>2, InRow
<1>5. (h * Half + (m * LanesPerRow + l)) % Half = m * LanesPerRow + l
  <2>1. PICK w : w = m * LanesPerRow + l
    OBVIOUS
  <2>2. w \in Int /\ 0 <= w /\ w < Half
    BY <1>4, <2>1, RingFacts
  <2>3. (h * Half + w) % Half = w
    BY <1>1, <2>2, RingFacts, DivModUnique
  <2> QED BY <2>1, <2>3
<1>6. /\ SlotAt(r, b, l) \in Slots
      /\ RowOf(SlotAt(r, b, l)) = r
      /\ SlotAt(r, b, l) % Half = b * LanesPerRow + l
  BY SlotAtIs
<1> QED BY <1>2, <1>3, <1>5, <1>6 DEF RotateSlots, SlotAt, m

-----------------------------------------------------------------------------

(* The doubling steps are the powers of two below the blocks of a row.     *)
LEMMA DoublingsAre ==
  ASSUME Dimension, NEW d \in 0 .. 15, Padded = Two[d]
  PROVE  Doublings = 0 .. d - 1 /\ Cardinality(Doublings) = d
<1>1. ASSUME NEW i \in 0 .. 15
      PROVE  i \in Doublings <=> i < d
  <2>1. Two[i + 1] = 2^(i + 1) /\ Two[i + 1] = 2 * Two[i] /\ Two[i] \in Nat \ {0}
    BY i + 1 \in 0 .. 16, TwoTo, TwoDoubles
  <2>2. i \in Doublings <=> Two[i + 1] <= Padded
    BY <2>1, Zenon DEF Doublings
  <2>3. Two[i] < Two[d] => i < d /\ 2 * Two[i] <= Two[d]
    BY TwoOrder
  <2>4. Two[d] < Two[i] => d < i
    BY TwoOrder
  <2>5. Two[d] \in Nat \ {0}
    BY TwoType
  <2>6. Two[i] = Two[d] => i = d
    BY TwoValues
  <2> QED BY <2>1, <2>2, <2>3, <2>4, <2>5, <2>6
<1>2. Doublings \subseteq 0 .. 15
  BY DEF Doublings
<1>3. Doublings = 0 .. d - 1
  <2>1. \A i : i \in Doublings => i \in 0 .. 15
    BY <1>2
  <2>2. \A i \in 0 .. d - 1 : i \in Doublings
    BY <1>1
  <2>3. \A i \in Doublings : i \in 0 .. d - 1
    BY <1>1, <2>1
  <2> HIDE DEF Doublings
  <2> QED BY <2>2, <2>3
<1>4. Cardinality(0 .. d - 1) = d
  BY FS_Interval
<1> QED BY <1>3, <1>4

(* How many of the first m blocks from block b on hold a one, in the same  *)
(* lane of the same row.                                                   *)
Ones(c, r, b, l, m) == {j \in 0 .. m - 1 : c[SlotAt(r, (b + j) % Padded, l)] = 1}

LEMMA OnesCount ==
  ASSUME NEW c, NEW r, NEW b, NEW l, NEW m \in Nat
  PROVE  IsFiniteSet(Ones(c, r, b, l, m)) /\ Cardinality(Ones(c, r, b, l, m)) \in 0 .. m
<1>1. IsFiniteSet(0 .. m - 1) /\ Cardinality(0 .. m - 1) = m
  BY FS_Interval
<1>2. Ones(c, r, b, l, m) \subseteq 0 .. m - 1
  BY DEF Ones
<1> HIDE DEF Ones
<1>3. IsFiniteSet(Ones(c, r, b, l, m)) /\ Cardinality(Ones(c, r, b, l, m)) <= m
  BY <1>1, <1>2, FS_Subset
<1> QED BY <1>3, FS_CardinalityType

(* The ones of twice as many blocks are those of the first half and of the *)
(* second.                                                                 *)
LEMMA OnesDouble ==
  ASSUME Dimension, NEW c, NEW r, NEW b \in 0 .. Padded - 1, NEW l, NEW m \in Nat
  PROVE  Cardinality(Ones(c, r, b, l, 2 * m))
           = Cardinality(Ones(c, r, b, l, m)) + Cardinality(Ones(c, r, (b + m) % Padded, l, m))
<1> DEFINE low == Ones(c, r, b, l, m)
           after == Ones(c, r, (b + m) % Padded, l, m)
           all == Ones(c, r, b, l, 2 * m)
           high == all \ low
           move == [j \in after |-> m + j]
<1>0. Padded \in Int /\ Padded > 0
  BY LayoutFacts
<1>1. \A j \in Nat : (((b + m) % Padded) + j) % Padded = (b + (m + j)) % Padded
  <2> SUFFICES ASSUME NEW j \in Nat
               PROVE  (((b + m) % Padded) + j) % Padded = (b + (m + j)) % Padded
    OBVIOUS
  <2> DEFINE a == b + m
  <2>1. a \in Int /\ j \in Int /\ a + j = b + (m + j)
    OBVIOUS
  <2> HIDE DEF a
  <2>2. ((a % Padded) + j) % Padded = (a + j) % Padded
    BY <1>0, <2>1, ModAdd
  <2> QED BY <2>1, <2>2 DEF a
<1>2. low \subseteq all
  BY DEF Ones
<1>3. IsFiniteSet(low) /\ IsFiniteSet(all) /\ IsFiniteSet(after)
  BY OnesCount, 2 * m \in Nat
<1>4. \A j \in after : m + j \in high
  BY <1>1 DEF Ones
<1>5. \A k \in high : k - m \in after /\ m + (k - m) = k
  <2> SUFFICES ASSUME NEW k \in high PROVE k - m \in after /\ m + (k - m) = k
    OBVIOUS
  <2>1. k \in 0 .. 2 * m - 1 /\ c[SlotAt(r, (b + k) % Padded, l)] = 1 /\ k \notin 0 .. m - 1
    BY DEF Ones
  <2>2. k - m \in 0 .. m - 1 /\ m + (k - m) = k /\ k - m \in Nat
    BY <2>1
  <2> QED BY <1>1, <2>1, <2>2 DEF Ones
<1>6. \A j \in after : j \in Nat
  BY DEF Ones
<1> HIDE DEF low, after, all
<1>7. move \in Bijection(after, high)
  <2>1. move \in [after -> high]
    BY <1>4
  <2>2. \A i, j \in after : move[i] = move[j] => i = j
    BY <1>6
  <2>3. \A k \in high : \E j \in after : move[j] = k
    BY <1>5
  <2> QED BY <2>1, <2>2, <2>3 DEF Bijection, Injection, Surjection, IsInjective
<1>8. Cardinality(high) = Cardinality(after)
  BY <1>3, <1>7, FS_Bijection DEF ExistsBijection
<1>9. IsFiniteSet(high) /\ low \cap high = {} /\ low \cup high = all
  BY <1>2, <1>3, FS_Difference
<1> HIDE DEF high
<1>10. Cardinality(low \cup high) = Cardinality(low) + Cardinality(high) - Cardinality({})
  BY <1>3, <1>9, FS_Union
<1>11. Cardinality(low) \in Nat /\ Cardinality(high) \in Nat /\ Cardinality({}) = 0
  BY <1>3, <1>9, FS_EmptySet, FS_CardinalityType
<1>12. Cardinality(all) = Cardinality(low) + Cardinality(high)
  <2>1. Cardinality(low \cup high) = Cardinality(all)
    BY <1>9, Zenon
  <2> QED BY <1>10, <1>11, <2>1
<1> QED BY <1>8, <1>12 DEF low, after, all

(* The sum tree.  After i steps a slot holds the sum of the first 2^i      *)
(* blocks from its own on, ...                                             *)
Binary(c) == c \in [Slots -> Int] /\ \A s \in Slots : c[s] \in {0, 1}

Summed(c, v, i) ==
  /\ v \in [Slots -> Int]
  /\ \A r \in {0, 1}, b \in 0 .. Padded - 1, l \in 0 .. LanesPerRow - 1 :
       v[SlotAt(r, b, l)] = Cardinality(Ones(c, r, b, l, Two[i]))

LEMMA SummedFirst == ASSUME Dimension, NEW c, Binary(c) PROVE Summed(c, c, 0)
<1> SUFFICES ASSUME NEW r \in {0, 1}, NEW b \in 0 .. Padded - 1, NEW l \in 0 .. LanesPerRow - 1
             PROVE  c[SlotAt(r, b, l)] = Cardinality(Ones(c, r, b, l, 1))
  BY TwoValues DEF Summed, Binary
<1> DEFINE s == SlotAt(r, b, l)
<1>1. s \in Slots
  BY SlotAtIs
<1>2. (b + 0) % Padded = b
  BY LayoutFacts, ModSmall
<1> HIDE DEF s
<1>3. c[s] \in {0, 1}
  BY <1>1 DEF Binary
<1>4. Ones(c, r, b, l, 1) = IF c[s] = 1 THEN {0} ELSE {}
  BY <1>2 DEF Ones, s
<1>5. Cardinality({0}) = 1 /\ Cardinality({}) = 0
  BY FS_Singleton, FS_EmptySet
<1> QED BY <1>3, <1>4, <1>5 DEF s

LEMMA SummedNext ==
  ASSUME Dimension, NEW c, NEW i \in 0 .. 15, NEW v, Summed(c, v, i)
  PROVE  Summed(c, AddSlots(v, RotateSlots(v, LanesPerRow * Two[i])), i + 1)
<1> DEFINE w == RotateSlots(v, LanesPerRow * Two[i])
           sum == AddSlots(v, w)
<1>1. Two[i] \in Nat /\ Two[i + 1] = 2 * Two[i]
  BY TwoDoubles
<1>2. ASSUME NEW r \in {0, 1}, NEW b \in 0 .. Padded - 1, NEW l \in 0 .. LanesPerRow - 1
      PROVE  /\ SlotAt(r, b, l) \in Slots
             /\ sum[SlotAt(r, b, l)] = Cardinality(Ones(c, r, b, l, Two[i + 1]))
             /\ sum[SlotAt(r, b, l)] \in Int
  <2> DEFINE s == SlotAt(r, b, l)
             d == (b + Two[i]) % Padded
  <2>1. s \in Slots
    BY SlotAtIs
  <2>2. d \in 0 .. Padded - 1 /\ w[s] = v[SlotAt(r, d, l)]
    BY <1>1, RotatedBlocks
  <2>3. sum[s] = v[s] + w[s]
    BY <2>1 DEF AddSlots
  <2>4. v[s] = Cardinality(Ones(c, r, b, l, Two[i]))
    BY DEF Summed
  <2> HIDE DEF d
  <2>5. v[SlotAt(r, d, l)] = Cardinality(Ones(c, r, d, l, Two[i]))
    BY <2>2 DEF Summed
  <2>6. Cardinality(Ones(c, r, b, l, 2 * Two[i]))
          = Cardinality(Ones(c, r, b, l, Two[i])) + Cardinality(Ones(c, r, d, l, Two[i]))
    BY <1>1, OnesDouble DEF d
  <2>7. /\ Cardinality(Ones(c, r, b, l, Two[i])) \in Int
        /\ Cardinality(Ones(c, r, d, l, Two[i])) \in Int
    BY <1>1, OnesCount
  <2> HIDE DEF s, sum, w
  <2> QED BY <1>1, <2>1, <2>2, <2>3, <2>4, <2>5, <2>6, <2>7 DEF s
<1>3. sum \in [Slots -> Int]
  <2>1. ASSUME NEW s \in Slots PROVE sum[s] \in Int
    BY <1>2, EverySlot
  <2>2. sum = [s \in Slots |-> sum[s]]
    BY DEF AddSlots
  <2> HIDE DEF sum
  <2> QED BY <2>1, <2>2
<1> QED BY <1>2, <1>3 DEF Summed

(* ... so that the first block of the result holds the sums of all blocks. *)
LEMMA SumOfBlocks ==
  ASSUME Dimension, NEW c, Binary(c),
         NEW r \in {0, 1}, NEW l \in 0 .. LanesPerRow - 1
  PROVE  SumBlocks(c)[SlotAt(r, 0, l)]
           = Cardinality({b \in 0 .. Padded - 1 : c[SlotAt(r, b, l)] = 1})
<1>1. PICK d \in 0 .. 15 : Padded = Two[d]
  BY PaddedIs
<1>2. Cardinality(Doublings) = d
  BY <1>1, DoublingsAre
<1> DEFINE Add(v, i) == AddSlots(v, RotateSlots(v, LanesPerRow * 2^(i - 1)))
           Sums(f, n) == f = [i \in 0 .. n |-> IF i = 0 THEN c ELSE Add(f[i - 1], i)]
           steps[i \in 0 .. d] == IF i = 0 THEN c ELSE Add(steps[i - 1], i)
<1>3. SumBlocks(c) = steps[d]
  BY <1>2, Zenon DEF SumBlocks
<1>4. ASSUME NEW v, NEW i \in 0 .. 14, Summed(c, v, i)
      PROVE  Summed(c, Add(v, i + 1), i + 1)
  <2>1. i \in 0 .. 16
    OBVIOUS
  <2>2. Two[i] = 2^i
    BY <2>1, TwoTo
  <2>3. (i + 1) - 1 = i
    OBVIOUS
  <2>4. Add(v, i + 1) = AddSlots(v, RotateSlots(v, LanesPerRow * Two[i]))
    BY <2>2, <2>3, Zenon
  <2> HIDE DEF Add
  <2> QED BY <1>4, <2>4, SummedNext
<1> HIDE DEF Add
<1>5. \E f : Sums(f, d)
  <2> DEFINE S == {n \in Nat : \E f : Sums(f, n)}
  <2>1. 0 \in S
    <3>1. Sums([i \in 0 .. 0 |-> c], 0)
      OBVIOUS
    <3> QED BY <3>1
  <2>2. ASSUME NEW n \in Nat, n \in S PROVE n + 1 \in S
    <3>1. PICK f : Sums(f, n)
      BY <2>2
    <3> DEFINE g == [i \in 0 .. n + 1 |-> IF i = n + 1 THEN Add(f[n], n + 1) ELSE f[i]]
    <3>2. Sums(g, n + 1)
      <4>1. ASSUME NEW i \in 0 .. n + 1
            PROVE  g[i] = IF i = 0 THEN c ELSE Add(g[i - 1], i)
        BY <3>1
      <4> QED BY <4>1
    <3> HIDE DEF Sums, g
    <3> QED BY <3>2, n + 1 \in Nat
  <2> HIDE DEF S
  <2>3. d \in S
    BY <2>1, <2>2, SetInduction
  <2> QED BY <2>3 DEF S
<1>6. Sums(steps, d)
  BY <1>5, Zenon
<1> HIDE DEF steps
<1>7. Summed(c, steps[d], d)
  <2> DEFINE S == {n \in Nat : n <= d => Summed(c, steps[n], n)}
  <2>1. 0 \in S
    BY <1>6, SummedFirst
  <2>2. ASSUME NEW n \in Nat, n \in S PROVE n + 1 \in S
    <3> SUFFICES ASSUME n + 1 <= d PROVE Summed(c, steps[n + 1], n + 1)
      OBVIOUS
    <3>1. steps[n + 1] = Add(steps[n], n + 1)
      BY <1>6
    <3> QED BY <1>4, <2>2, <3>1
  <2> HIDE DEF S
  <2>3. d \in S
    BY <2>1, <2>2, SetInduction
  <2> QED BY <2>3 DEF S
<1>8. steps[d][SlotAt(r, 0, l)] = Cardinality(Ones(c, r, 0, l, Padded))
  BY <1>1, <1>7, LayoutFacts DEF Summed
<1>9. Ones(c, r, 0, l, Padded) = {b \in 0 .. Padded - 1 : c[SlotAt(r, b, l)] = 1}
  <2>1. ASSUME NEW b \in 0 .. Padded - 1 PROVE (0 + b) % Padded = b
    BY LayoutFacts, ModSmall
  <2> QED BY <2>1 DEF Ones
<1> QED BY <1>3, <1>8, <1>9

-----------------------------------------------------------------------------

(* Query and index hold binary vectors of the dimension.                   *)
Inputs ==
  /\ Dimension
  /\ queryVector \in [1 .. embedLen -> {0, 1}]
  /\ database \in Seq([1 .. embedLen -> {0, 1}])
  /\ Len(database) <= MaxVectors
  /\ claimed \in 0 .. MaxVectors

LEMMA LengthFacts ==
  ASSUME Inputs
  PROVE  /\ embedLen \in Int /\ embedLen > 0
         /\ Len(database) \in Nat /\ claimed \in Nat
         /\ \A i \in 1 .. Len(database) : database[i] \in [1 .. embedLen -> {0, 1}]
  BY RingFacts, RingAssumption DEF Inputs, Dimension

LEMMA DistanceType ==
  ASSUME Dimension, NEW v, NEW w PROVE PlainDistance(v, w) \in 0 .. embedLen
<1>1. IsFiniteSet(1 .. embedLen) /\ Cardinality(1 .. embedLen) = embedLen
  BY FS_Interval, RingFacts DEF Dimension
<1> DEFINE S == {d \in 1 .. embedLen : v[d] # w[d]}
<1>2. S \subseteq 1 .. embedLen
  OBVIOUS
<1> HIDE DEF S
<1>3. IsFiniteSet(S) /\ Cardinality(S) <= embedLen
  BY <1>1, <1>2, FS_Subset
<1>4. Cardinality(S) \in Nat
  BY <1>3, FS_CardinalityType
<1> QED BY <1>3, <1>4, RingFacts DEF PlainDistance, S, Dimension

(* One lane of a tile: the blocks hold a vector, one entry in each of the  *)
(* first embedLen blocks.                                                  *)
Lane(c, r, l, v) ==
  \A b \in 0 .. Padded - 1 : c[SlotAt(r, b, l)] = IF b < embedLen THEN v[b + 1] ELSE 0

LEMMA BinaryIs ==
  ASSUME NEW c, c = [s \in Slots |-> c[s]], \A s \in Slots : c[s] \in {0, 1}
  PROVE  Binary(c)
<1>1. \A s \in Slots : c[s] \in Int
  OBVIOUS
<1>2. [s \in Slots |-> c[s]] \in [Slots -> Int]
  BY <1>1
<1> QED BY <1>2 DEF Binary

LEMMA QueryLanes ==
  ASSUME Dimension, NEW v \in [1 .. embedLen -> {0, 1}]
  PROVE  /\ Binary(ReplicatedQuery(v))
         /\ \A r \in {0, 1}, l \in 0 .. LanesPerRow - 1 : Lane(ReplicatedQuery(v), r, l, v)
<1>1. ASSUME NEW r \in {0, 1}, NEW b \in 0 .. Padded - 1, NEW l \in 0 .. LanesPerRow - 1
      PROVE  /\ ReplicatedQuery(v)[SlotAt(r, b, l)] = IF b < embedLen THEN v[b + 1] ELSE 0
             /\ ReplicatedQuery(v)[SlotAt(r, b, l)] \in {0, 1}
  <2> DEFINE s == SlotAt(r, b, l)
  <2>1. s \in Slots /\ BlockOf(s) = b
    BY SlotAtIs
  <2> HIDE DEF s
  <2>2. ReplicatedQuery(v)[s] = IF b < embedLen THEN v[b + 1] ELSE 0
    BY <2>1 DEF ReplicatedQuery
  <2>3. b < embedLen => b + 1 \in 1 .. embedLen
    BY RingFacts DEF Dimension
  <2> QED BY <2>2, <2>3 DEF s
<1>2. \A s \in Slots : ReplicatedQuery(v)[s] \in {0, 1}
  BY <1>1, EverySlot
<1>3. ReplicatedQuery(v) = [s \in Slots |-> ReplicatedQuery(v)[s]]
  BY DEF ReplicatedQuery
<1>4. Binary(ReplicatedQuery(v))
  BY <1>2, <1>3, BinaryIs
<1> QED BY <1>1, <1>4 DEF Lane

(* The vector in a lane of the index: the last tile may have room left.    *)
VectorAt(i) == IF i < Len(database) THEN database[i + 1] ELSE [d \in 1 .. embedLen |-> 0]

LEMMA VectorType ==
  ASSUME Inputs, NEW i \in Nat PROVE VectorAt(i) \in [1 .. embedLen -> {0, 1}]
<1>1. i < Len(database) => i + 1 \in 1 .. Len(database)
  BY LengthFacts
<1> QED BY <1>1, LengthFacts DEF VectorAt

LEMMA PlaceType ==
  ASSUME Dimension, NEW k \in Nat, NEW r \in {0, 1}, NEW l \in 0 .. LanesPerRow - 1
  PROVE  /\ k * TileCapacity \in Nat
         /\ r * LanesPerRow + l \in 0 .. TileCapacity - 1
<1>1. TileCapacity \in Nat
  BY LayoutFacts
<1>2. k * TileCapacity \in Int
  BY <1>1
<1>3. k * TileCapacity >= 0
  BY <1>1, TimesSign
<1> QED BY <1>2, <1>3, LayoutFacts

LEMMA IndexLanes ==
  ASSUME Inputs, NEW k \in Nat
  PROVE  /\ Binary(IndexSlots(k))
         /\ \A r \in {0, 1}, l \in 0 .. LanesPerRow - 1 :
              Lane(IndexSlots(k), r, l, VectorAt(k * TileCapacity + (r * LanesPerRow + l)))
<1>0. Dimension
  BY DEF Inputs
<1>1. ASSUME NEW r \in {0, 1}, NEW b \in 0 .. Padded - 1, NEW l \in 0 .. LanesPerRow - 1
      PROVE  LET v == VectorAt(k * TileCapacity + (r * LanesPerRow + l))
             IN  /\ IndexSlots(k)[SlotAt(r, b, l)] = IF b < embedLen THEN v[b + 1] ELSE 0
                 /\ IndexSlots(k)[SlotAt(r, b, l)] \in {0, 1}
  <2> DEFINE s == SlotAt(r, b, l)
             i == k * TileCapacity + (r * LanesPerRow + l)
             v == VectorAt(i)
  <2>1. s \in Slots /\ BlockOf(s) = b /\ LaneOfSlot(s) = r * LanesPerRow + l
    BY <1>0, SlotAtIs
  <2>2. i \in Nat
    BY <1>0, PlaceType
  <2> HIDE DEF s
  <2>3. b < embedLen => b + 1 \in 1 .. embedLen
    BY LengthFacts
  <2>4. IndexSlots(k)[s] = IF b < embedLen /\ i < Len(database)
                           THEN database[i + 1][b + 1] ELSE 0
    BY <2>1 DEF IndexSlots
  <2> HIDE DEF i
  <2>5. IndexSlots(k)[s] = IF b < embedLen THEN v[b + 1] ELSE 0
    BY <2>3, <2>4 DEF VectorAt
  <2>6. v \in [1 .. embedLen -> {0, 1}]
    BY <2>2, VectorType
  <2> HIDE DEF v
  <2>7. IndexSlots(k)[s] \in {0, 1}
    BY <2>3, <2>5, <2>6
  <2> QED BY <2>5, <2>7 DEF s, i, v
<1>2. \A s \in Slots : IndexSlots(k)[s] \in {0, 1}
  BY <1>0, <1>1, EverySlot
<1>3. IndexSlots(k) = [s \in Slots |-> IndexSlots(k)[s]]
  BY DEF IndexSlots
<1>4. Binary(IndexSlots(k))
  BY <1>2, <1>3, BinaryIs
<1> QED BY <1>1, <1>4 DEF Lane

(* Squares of differences of two lanes add up to their distance.           *)
LEMMA LaneDistance ==
  ASSUME Dimension, NEW x, Binary(x), NEW y, Binary(y), NEW count \in Int,
         NEW v \in [1 .. embedLen -> {0, 1}], NEW w \in [1 .. embedLen -> {0, 1}],
         NEW r \in {0, 1}, NEW l \in 0 .. LanesPerRow - 1,
         Lane(x, r, l, v), Lane(y, r, l, w), NEW b \in 0 .. Padded - 1
  PROVE  DistanceTile(x, y, count)[SlotAt(r, b, l)]
           = IF b = 0 /\ r * LanesPerRow + l < count THEN PlainDistance(v, w) ELSE 0
<1> DEFINE square == [s \in Slots |-> (x[s] - y[s]) * (x[s] - y[s])]
           ones == {d \in 0 .. Padded - 1 : square[SlotAt(r, d, l)] = 1}
           places == {d \in 1 .. embedLen : v[d] # w[d]}
           move == [d \in places |-> d - 1]
<1>1. Binary(square)
  <2>1. \A s \in Slots : x[s] \in {0, 1} /\ y[s] \in {0, 1}
    BY DEF Binary
  <2>2. \A s \in Slots : (x[s] - y[s]) * (x[s] - y[s]) \in {0, 1}
    BY <2>1
  <2> QED BY <2>2 DEF Binary
<1>2. embedLen \in Int /\ embedLen > 0 /\ embedLen <= Padded /\ Padded \in Int
  BY LayoutFacts, RingFacts DEF Dimension
<1>3. \A d \in 0 .. Padded - 1 :
        square[SlotAt(r, d, l)] = 1 <=> (d < embedLen /\ v[d + 1] # w[d + 1])
  <2> SUFFICES ASSUME NEW d \in 0 .. Padded - 1
               PROVE  square[SlotAt(r, d, l)] = 1 <=> (d < embedLen /\ v[d + 1] # w[d + 1])
    OBVIOUS
  <2> DEFINE s == SlotAt(r, d, l)
  <2>1. s \in Slots
    BY SlotAtIs
  <2>2. /\ x[s] = IF d < embedLen THEN v[d + 1] ELSE 0
        /\ y[s] = IF d < embedLen THEN w[d + 1] ELSE 0
    BY DEF Lane
  <2> HIDE DEF s
  <2>3. square[s] = (x[s] - y[s]) * (x[s] - y[s])
    BY <2>1
  <2>4. d < embedLen => v[d + 1] \in {0, 1} /\ w[d + 1] \in {0, 1}
    BY <1>2
  <2> QED BY <2>2, <2>3, <2>4 DEF s
<1> HIDE DEF square
<1>4. \A d \in places : d - 1 \in ones
  BY <1>2, <1>3
<1>5. \A d \in ones : d + 1 \in places /\ (d + 1) - 1 = d
  BY <1>2, <1>3
<1>6. IsFiniteSet(places)
  <2>1. places \subseteq 1 .. embedLen
    OBVIOUS
  <2>2. IsFiniteSet(1 .. embedLen)
    BY <1>2, FS_Interval
  <2> HIDE DEF places
  <2> QED BY <2>1, <2>2, FS_Subset
<1>7. \A d \in places : d \in Int
  BY <1>2
<1> HIDE DEF ones, places
<1>8. move \in Bijection(places, ones)
  <2>1. move \in [places -> ones]
    BY <1>4
  <2>2. \A i, j \in places : move[i] = move[j] => i = j
    BY <1>7
  <2>3. \A d \in ones : \E i \in places : move[i] = d
    BY <1>5
  <2> QED BY <2>1, <2>2, <2>3 DEF Bijection, Injection, Surjection, IsInjective
<1>9. Cardinality(ones) = PlainDistance(v, w)
  BY <1>6, <1>8, FS_Bijection DEF ExistsBijection, PlainDistance, places
<1>10. SumBlocks(square)[SlotAt(r, 0, l)] = PlainDistance(v, w)
  BY <1>1, <1>9, SumOfBlocks DEF ones
<1> DEFINE s == SlotAt(r, b, l)
<1>11. s \in Slots /\ BlockOf(s) = b /\ LaneOfSlot(s) = r * LanesPerRow + l
  BY SlotAtIs
<1>12. b = 0 => s = SlotAt(r, 0, l)
  OBVIOUS
<1> HIDE DEF s
<1>13. DistanceTile(x, y, count)[s]
         = IF b = 0 /\ r * LanesPerRow + l < count THEN SumBlocks(square)[s] ELSE 0
  BY <1>11 DEF DistanceTile, square
<1> QED BY <1>10, <1>12, <1>13 DEF s

-----------------------------------------------------------------------------

(* What a ciphertext holds, by rows, blocks and lanes.                     *)
HoldsBlocks(c, first, tiles) ==
  \A r \in {0, 1}, b \in 0 .. Padded - 1, l \in 0 .. LanesPerRow - 1 :
    c[SlotAt(r, b, l)] =
      IF b < tiles THEN DistanceAt((first + b) * TileCapacity + (r * LanesPerRow + l)) ELSE 0

LEMMA HoldsIs ==
  ASSUME Dimension, NEW c, NEW first, NEW tiles
  PROVE  Holds(c, first, tiles) <=> HoldsBlocks(c, first, tiles)
<1>1. ASSUME NEW r \in {0, 1}, NEW b \in 0 .. Padded - 1, NEW l \in 0 .. LanesPerRow - 1
      PROVE  /\ SlotAt(r, b, l) \in Slots
             /\ BlockOf(SlotAt(r, b, l)) = b
             /\ LaneOfSlot(SlotAt(r, b, l)) = r * LanesPerRow + l
  BY SlotAtIs
<1>2. Holds(c, first, tiles) => HoldsBlocks(c, first, tiles)
  BY <1>1 DEF Holds, HoldsBlocks
<1>3. ASSUME HoldsBlocks(c, first, tiles), NEW s \in Slots
      PROVE  c[s] = IF BlockOf(s) < tiles
                    THEN DistanceAt((first + BlockOf(s)) * TileCapacity + LaneOfSlot(s)) ELSE 0
  <2>1. PICK r \in {0, 1}, b \in 0 .. Padded - 1, l \in 0 .. LanesPerRow - 1 : s = SlotAt(r, b, l)
    BY EverySlot
  <2>2. BlockOf(s) = b /\ LaneOfSlot(s) = r * LanesPerRow + l
    BY <1>1, <2>1
  <2>3. c[SlotAt(r, b, l)] =
          IF b < tiles THEN DistanceAt((first + b) * TileCapacity + (r * LanesPerRow + l)) ELSE 0
    BY <1>3 DEF HoldsBlocks
  <2> QED BY <2>1, <2>2, <2>3
<1>4. HoldsBlocks(c, first, tiles) => Holds(c, first, tiles)
  BY <1>3 DEF Holds
<1> QED BY <1>2, <1>4

LEMMA DistanceAtType ==
  ASSUME Inputs, NEW i \in Int PROVE DistanceAt(i) \in 0 .. embedLen /\ DistanceAt(i) \in Int
<1>1. DistanceAt(i) \in 0 .. embedLen
  BY DistanceType, LengthFacts DEF DistanceAt, Inputs
<1> QED BY <1>1, LengthFacts

(* A tile that was compared and masked holds its distances in the first    *)
(* block, and nothing else.                                                *)
LEMMA TileHolds ==
  ASSUME Inputs, NEW k \in Nat, NEW count \in Int,
         \A lane \in 0 .. TileCapacity - 1 : lane < count <=> k * TileCapacity + lane < claimed
  PROVE  Holds(DistanceTile(ReplicatedQuery(queryVector), IndexSlots(k), count), k, 1)
<1> DEFINE c == DistanceTile(ReplicatedQuery(queryVector), IndexSlots(k), count)
<1>0. Dimension /\ queryVector \in [1 .. embedLen -> {0, 1}]
  BY DEF Inputs
<1>1. ASSUME NEW r \in {0, 1}, NEW b \in 0 .. Padded - 1, NEW l \in 0 .. LanesPerRow - 1
      PROVE  c[SlotAt(r, b, l)] =
               IF b < 1 THEN DistanceAt((k + b) * TileCapacity + (r * LanesPerRow + l)) ELSE 0
  <2> DEFINE lane == r * LanesPerRow + l
             i == k * TileCapacity + lane
  <2>1. k * TileCapacity \in Nat /\ lane \in 0 .. TileCapacity - 1
    BY <1>0, PlaceType
  <2>2. i \in Nat
    BY <2>1
  <2>3. VectorAt(i) \in [1 .. embedLen -> {0, 1}]
    BY <2>2, VectorType
  <2>4. c[SlotAt(r, b, l)] =
          IF b = 0 /\ lane < count THEN PlainDistance(queryVector, VectorAt(i)) ELSE 0
    <3>1. /\ Binary(ReplicatedQuery(queryVector))
          /\ Lane(ReplicatedQuery(queryVector), r, l, queryVector)
      BY <1>0, QueryLanes
    <3>2. Binary(IndexSlots(k)) /\ Lane(IndexSlots(k), r, l, VectorAt(i))
      BY IndexLanes
    <3> HIDE DEF i
    <3> QED BY <1>0, <2>3, <3>1, <3>2, LaneDistance
  <2>5. lane < count <=> i < claimed
    BY <2>1
  <2>6. DistanceAt(i) = IF i < claimed THEN PlainDistance(queryVector, VectorAt(i)) ELSE 0
    BY <2>2, LengthFacts DEF DistanceAt, VectorAt
  <2>7. b = 0 => (k + b) * TileCapacity + lane = i
    BY <2>1
  <2> HIDE DEF c, lane, i
  <2>8. b < 1 <=> b = 0
    OBVIOUS
  <2> QED BY <2>4, <2>5, <2>6, <2>7, <2>8 DEF lane
<1> HIDE DEF c
<1>2. HoldsBlocks(c, k, 1)
  BY <1>1 DEF HoldsBlocks
<1> QED BY <1>0, <1>2, HoldsIs DEF c

(* Two runs of tiles, one shifted behind the other.                        *)
LEMMA MergedHold ==
  ASSUME Inputs, NEW x \in [Slots -> Int], NEW y \in [Slots -> Int],
         NEW a \in Nat, NEW k \in Nat, NEW m \in Nat, k + m <= Padded,
         Holds(x, a, k), Holds(y, a + k, m)
  PROVE  Holds(AddSlots(x, RotateSlots(y, -LanesPerRow * k)), a, k + m)
<1> DEFINE w == RotateSlots(y, -LanesPerRow * k)
           c == AddSlots(x, w)
<1>0. Dimension /\ Padded \in Int /\ Padded > 0 /\ LanesPerRow \in Int
  BY LayoutFacts DEF Inputs
<1>1. HoldsBlocks(x, a, k) /\ HoldsBlocks(y, a + k, m)
  BY <1>0, HoldsIs
<1>2. -LanesPerRow * k = LanesPerRow * (-k) /\ -k \in Int
  BY <1>0
<1>3. ASSUME NEW r \in {0, 1}, NEW b \in 0 .. Padded - 1, NEW l \in 0 .. LanesPerRow - 1
      PROVE  c[SlotAt(r, b, l)] =
               IF b < k + m THEN DistanceAt((a + b) * TileCapacity + (r * LanesPerRow + l)) ELSE 0
  <2> DEFINE s == SlotAt(r, b, l)
             d == (b + (-k)) % Padded
             At(n) == DistanceAt(n * TileCapacity + (r * LanesPerRow + l))
  <2>1. s \in Slots /\ d \in 0 .. Padded - 1 /\ w[s] = y[SlotAt(r, d, l)]
    <3>1. s \in Slots
      BY <1>0, SlotAtIs
    <3>2. /\ (b + (-k)) % Padded \in 0 .. Padded - 1
          /\ RotateSlots(y, LanesPerRow * (-k))[SlotAt(r, b, l)]
               = y[SlotAt(r, (b + (-k)) % Padded, l)]
      <4> DEFINE back == -k
      <4>1. back \in Int
        OBVIOUS
      <4> HIDE DEF back
      <4>2. /\ (b + back) % Padded \in 0 .. Padded - 1
            /\ RotateSlots(y, LanesPerRow * back)[SlotAt(r, b, l)]
                 = y[SlotAt(r, (b + back) % Padded, l)]
        BY <1>0, <4>1, RotatedBlocks
      <4> QED BY <4>2 DEF back
    <3> QED BY <1>2, <3>1, <3>2
  <2>2. d = IF b >= k THEN b - k ELSE b - k + Padded
    <3>1. CASE b >= k
      <4>1. b + (-k) \in Int /\ 0 <= b + (-k) /\ b + (-k) < Padded /\ b + (-k) = b - k
        BY <1>0, <3>1
      <4> QED BY <1>0, <3>1, <4>1, ModSmall
    <3>2. CASE b < k
      <4> DEFINE e == b - k + Padded
      <4>1. e \in Int /\ 0 <= e /\ e < Padded /\ -1 * Padded + e = b + (-k)
        BY <1>0, <3>2
      <4> HIDE DEF e
      <4>2. (-1 * Padded + e) % Padded = e
        BY <1>0, <4>1, DivModUnique
      <4> QED BY <3>2, <4>1, <4>2 DEF e
    <3> QED BY <3>1, <3>2
  <2>3. c[s] = x[s] + w[s]
    BY <2>1 DEF AddSlots
  <2>4. x[s] = IF b < k THEN At(a + b) ELSE 0
    BY <1>1 DEF HoldsBlocks
  <2> HIDE DEF d
  <2>5. y[SlotAt(r, d, l)] = IF d < m THEN At((a + k) + d) ELSE 0
    BY <1>1, <2>1 DEF HoldsBlocks
  <2>6. At(a + b) \in Int
    <3>1. (a + b) * TileCapacity + (r * LanesPerRow + l) \in Int
      BY <1>0, PlaceType, a + b \in Nat
    <3> QED BY <3>1, DistanceAtType
  <2>7. b >= k => (a + k) + d = a + b /\ (d < m <=> b < k + m)
    BY <1>0, <2>1, <2>2
  <2>8. b < k => ~(d < m) /\ b < k + m
    BY <1>0, <2>1, <2>2
  <2> HIDE DEF s, w, c, At
  <2>9. c[s] = IF b < k + m THEN At(a + b) ELSE 0
    <3>1. CASE b < k
      BY <2>1, <2>3, <2>4, <2>5, <2>6, <2>8, <3>1
    <3>2. CASE b >= k
      BY <2>1, <2>3, <2>4, <2>5, <2>6, <2>7, <3>2
    <3> QED BY <1>0, <3>1, <3>2
  <2> QED BY <2>9 DEF s, At
<1> HIDE DEF c
<1>4. HoldsBlocks(c, a, k + m)
  BY <1>3 DEF HoldsBlocks
<1> QED BY <1>0, <1>4, HoldsIs DEF c

-----------------------------------------------------------------------------

(* The machine.  Every step keeps the input, and with it the layout.       *)
Content == [Slots -> Int]
Tile == [slots : Content, size : 1 .. Padded]

Phases == {"called", "refused", "compared", "reading", "combining",
           "answered", "decoded", "rejected"}

LayoutTyped ==
  /\ Inputs
  /\ phase \in Phases
  /\ position \in 0 .. IndexTiles
  /\ carried = <<>> \/ carried \in Tile
  /\ stack \in Seq(Tile)
  /\ responses \in Seq(Content)
  /\ damaged \in BOOLEAN

LEMMA SameLayout ==
  ASSUME UNCHANGED input
  PROVE  /\ Padded' = Padded /\ LanesPerRow' = LanesPerRow /\ TileCapacity' = TileCapacity
         /\ IndexTiles' = IndexTiles /\ Tile' = Tile /\ Inputs' = Inputs
         /\ Doublings' = Doublings /\ KeyedSteps' = KeyedSteps
<1>1. Padded' = Padded
  BY DEF Padded, input
<1>2. LanesPerRow' = LanesPerRow /\ Tile' = Tile
  BY <1>1 DEF LanesPerRow, Tile
<1>3. TileCapacity' = TileCapacity
  BY <1>2 DEF TileCapacity
<1>4. IndexTiles' = IndexTiles
  BY <1>3 DEF IndexTiles, input, CeilDiv
<1>5. Inputs' = Inputs
  BY DEF Inputs, Dimension, input
<1>6. Doublings' = Doublings
  BY <1>1 DEF Doublings
<1>7. KeyedSteps' = KeyedSteps
  BY <1>2, <1>6 DEF KeyedSteps
<1> QED BY <1>1, <1>2, <1>3, <1>4, <1>5, <1>6, <1>7

LEMMA SameDistances ==
  ASSUME UNCHANGED input
  PROVE  /\ \A i : DistanceAt(i)' = DistanceAt(i)
         /\ \A c, first, tiles : Holds(c, first, tiles)' <=> Holds(c, first, tiles)
<1>1. \A v, w : PlainDistance(v, w)' = PlainDistance(v, w)
  BY DEF PlainDistance, input
<1>2. \A i : DistanceAt(i)' = DistanceAt(i)
  BY <1>1 DEF DistanceAt, input
<1>3. \A s : BlockOf(s)' = BlockOf(s) /\ LaneOfSlot(s)' = LaneOfSlot(s)
  BY SameLayout DEF BlockOf, LaneOfSlot, RowOf
<1>4. TileCapacity' = TileCapacity
  BY SameLayout
<1>5. \A c, first, tiles : Holds(c, first, tiles)' <=> Holds(c, first, tiles)
  BY <1>2, <1>3, <1>4 DEF Holds
<1> QED BY <1>2, <1>5

LEMMA TileNotNone == \A t \in Tile : t # <<>>
<1> SUFFICES ASSUME NEW t \in Tile, t = <<>> PROVE FALSE
  OBVIOUS
<1>1. DOMAIN t = {"slots", "size"}
  BY DEF Tile
<1>2. DOMAIN t = 1 .. 0
  BY DEF Tile
<1>3. "slots" \in 1 .. 0
  BY <1>1, <1>2
<1> QED BY <1>3

LEMMA HeldContent ==
  ASSUME Inputs, NEW c, c = [s \in Slots |-> c[s]], NEW first \in Nat, NEW tiles,
         Holds(c, first, tiles)
  PROVE  c \in Content
<1>1. ASSUME NEW s \in Slots PROVE c[s] \in Int
  <2>0. Dimension
    BY DEF Inputs
  <2>1. PICK r \in {0, 1}, b \in 0 .. Padded - 1, l \in 0 .. LanesPerRow - 1 : s = SlotAt(r, b, l)
    BY <2>0, EverySlot
  <2>2. BlockOf(s) = b /\ LaneOfSlot(s) = r * LanesPerRow + l
    BY <2>0, <2>1, SlotAtIs
  <2>3. (first + b) * TileCapacity + (r * LanesPerRow + l) \in Int
    BY <2>0, PlaceType, first + b \in Nat
  <2>4. c[s] = IF b < tiles
               THEN DistanceAt((first + b) * TileCapacity + (r * LanesPerRow + l)) ELSE 0
    BY <2>2 DEF Holds
  <2>5. DistanceAt((first + b) * TileCapacity + (r * LanesPerRow + l)) \in Int
    BY <2>3, DistanceAtType
  <2> QED BY <2>4, <2>5
<1> QED BY <1>1 DEF Content

LEMMA SumContent ==
  ASSUME Dimension, NEW x \in Content, NEW y \in Content, NEW k \in Int
  PROVE  AddSlots(x, RotateSlots(y, -LanesPerRow * k)) \in Content
<1> DEFINE w == RotateSlots(y, -LanesPerRow * k)
           back == -k
<1>0. -LanesPerRow * k = LanesPerRow * back /\ back \in Int
  BY LayoutFacts
<1> HIDE DEF back
<1>1. ASSUME NEW s \in Slots PROVE w[s] \in Int
  <2>1. PICK r \in {0, 1}, b \in 0 .. Padded - 1, l \in 0 .. LanesPerRow - 1 : s = SlotAt(r, b, l)
    BY EverySlot
  <2>2. /\ (b + back) % Padded \in 0 .. Padded - 1
        /\ RotateSlots(y, LanesPerRow * back)[s] = y[SlotAt(r, (b + back) % Padded, l)]
    BY <1>0, <2>1, RotatedBlocks
  <2>3. SlotAt(r, (b + back) % Padded, l) \in Slots
    BY <2>2, SlotAtIs
  <2> QED BY <1>0, <2>2, <2>3 DEF Content
<1> HIDE DEF w
<1>2. \A s \in Slots : x[s] + w[s] \in Int
  BY <1>1 DEF Content
<1> QED BY <1>2 DEF AddSlots, Content, w

LEMMA TilesFacts ==
  ASSUME Inputs
  PROVE  /\ IndexTiles \in Nat
         /\ (IndexTiles - 1) * TileCapacity < Len(database)
         /\ Len(database) <= IndexTiles * TileCapacity
<1>1. PICK n : n = Len(database)
  OBVIOUS
<1>2. PICK t : t = TileCapacity
  OBVIOUS
<1>3. n \in Nat
  BY <1>1, LengthFacts
<1>4. t \in Nat /\ t > 0
  BY <1>2, LayoutFacts DEF Inputs
<1>5. CeilDiv(n, t) \in Nat /\ (CeilDiv(n, t) - 1) * t < n /\ n <= CeilDiv(n, t) * t
  BY <1>3, <1>4, CeilIs
<1> QED BY <1>1, <1>2, <1>5 DEF IndexTiles

LEMMA LayoutTypedFirst == PackedInit => LayoutTyped
<1> SUFFICES ASSUME PackedInit PROVE LayoutTyped
  OBVIOUS
<1>1. Dimension
  BY DEF PackedInit, Dimension
<1>2. embedLen \in 1 .. SlotCount \div 2
  BY <1>1 DEF Dimension, Half
<1>3. queryVector \in [1 .. embedLen -> {0, 1}]
  BY <1>2, VectorAssumption DEF PackedInit
<1>4. PICK n \in 0 .. MaxVectors : database \in Databases(embedLen, n)
  BY DEF PackedInit
<1>5. database \in [1 .. n -> [1 .. embedLen -> {0, 1}]]
  BY <1>2, <1>4, VectorAssumption
<1>6. n \in Nat
  OBVIOUS
<1>7. database \in Seq([1 .. embedLen -> {0, 1}]) /\ Len(database) = n
  BY <1>5, <1>6
<1>8. Inputs
  BY <1>1, <1>3, <1>7 DEF Inputs, PackedInit
<1>9. 0 \in 0 .. IndexTiles
  BY <1>8, TilesFacts
<1>10. <<>> \in Seq(Tile) /\ <<>> \in Seq(Content)
  OBVIOUS
<1>11. /\ phase = "called" /\ position = 0 /\ carried = <<>> /\ stack = <<>>
       /\ responses = <<>> /\ damaged = FALSE
  BY DEF PackedInit
<1> QED BY <1>8, <1>9, <1>10, <1>11 DEF LayoutTyped, Phases

LEMMA TopOf ==
  ASSUME NEW S, NEW seq \in Seq(S), seq # <<>>
  PROVE  /\ Len(seq) \in Nat /\ Len(seq) > 0
         /\ Last(seq) = seq[Len(seq)] /\ Last(seq) \in S
         /\ Front(seq) \in Seq(S) /\ Len(Front(seq)) = Len(seq) - 1
         /\ \A i \in 1 .. Len(seq) - 1 : Front(seq)[i] = seq[i]
<1>1. Len(seq) \in Nat /\ Len(seq) > 0
  OBVIOUS
<1>2. seq[Len(seq)] \in S
  BY <1>1
<1> DEFINE n == Len(seq) - 1
<1>3. n \in Int /\ n >= 0 /\ \A i \in 1 .. n : seq[i] \in S
  BY <1>1
<1> HIDE DEF n
<1>4. /\ SubSeq(seq, 1, n) \in Seq(S)
      /\ Len(SubSeq(seq, 1, n)) = IF 1 <= n THEN n - 1 + 1 ELSE 0
      /\ \A i \in 1 .. n - 1 + 1 : SubSeq(seq, 1, n)[i] = seq[1 + i - 1]
  BY <1>3, SubSeqProperties
<1>5. Len(SubSeq(seq, 1, n)) = n
  BY <1>3, <1>4
<1>6. \A i \in 1 .. n : SubSeq(seq, 1, n)[i] = seq[i]
  BY <1>3, <1>4
<1> QED BY <1>1, <1>2, <1>4, <1>5, <1>6 DEF Front, Last, n

(* The stack covers the tiles of the group that were read, each of its     *)
(* entries from where the one below it ends; while a tile is carried, it   *)
(* goes on where the stack ends.                                           *)
Start == Len(responses) * Padded

Power(n) == \E k \in 0 .. 15 : n = Two[k]

StackCovers(starts) ==
  /\ \A i \in 1 .. Len(stack) + 1 : starts[i] \in Nat /\ starts[i] >= Start
  /\ starts[1] = Start
  /\ \A i \in 1 .. Len(stack) :
       /\ starts[i + 1] = starts[i] + stack[i].size
       /\ Power(stack[i].size)
       /\ i > 1 => stack[i].size < stack[i - 1].size
       /\ Holds(stack[i].slots, starts[i], stack[i].size)

CarriedAt(top) ==
  /\ carried = <<>> => top = position
  /\ carried # <<>> =>
       /\ top < position
       /\ Holds(carried.slots, top, position - top)
       /\ phase = "reading" =>
            /\ position = top + carried.size
            /\ Power(carried.size)
            /\ stack # <<>> => carried.size <= stack[Len(stack)].size

Covers(starts) == StackCovers(starts) /\ CarriedAt(starts[Len(stack) + 1])

TreeInv ==
  phase \in {"reading", "combining"} =>
    /\ ~damaged
    /\ position <= Start + Padded
    /\ \E starts : Covers(starts)
    /\ phase = "combining" =>
         carried # <<>> /\ (position = IndexTiles \/ position = Start + Padded)
    /\ phase = "reading" /\ carried = <<>> /\ stack = <<>> => position < IndexTiles

(* Every response holds a full group, or the tiles left for the last one.  *)
Answered == CeilDiv(IndexTiles, Padded)

Group(r) ==
  \E tiles \in Nat : /\ Holds(responses[r], (r - 1) * Padded, tiles)
                     /\ tiles = Padded \/ (r - 1) * Padded + tiles = IndexTiles

Garbage == [s \in Slots |-> embedLen + 1 + s]

ResponsesInv ==
  /\ ~damaged => \A r \in 1 .. Len(responses) : Group(r)
  /\ phase \in {"answered", "decoded", "rejected"} /\ ~damaged => Len(responses) = Answered
  /\ damaged =>
       /\ phase \in {"answered", "rejected"}
       /\ \/ Len(responses) = Answered - 1
          \/ /\ Len(responses) = Answered
             /\ \E r \in 1 .. Len(responses) : responses[r] = Garbage

AnswerInv ==
  /\ phase \in {"called", "refused", "compared"} =>
       /\ position = 0 /\ carried = <<>> /\ stack = <<>> /\ responses = <<>> /\ ~damaged
  /\ DistancesInIndexOrder

KeysInv == rotations \subseteq Int /\ RotationsHaveKeys

LayoutInv == LayoutTyped /\ TreeInv /\ ResponsesInv /\ AnswerInv /\ KeysInv

LEMMA TreeFacts ==
  ASSUME LayoutTyped, phase \in {"reading", "combining"}
  PROVE  /\ Dimension /\ Padded \in Nat /\ Padded > 0 /\ Len(responses) \in Nat
         /\ Start \in Nat /\ position \in Nat /\ IndexTiles \in Nat /\ position <= IndexTiles
         /\ Len(stack) \in Nat
         /\ \A i \in 1 .. Len(stack) : stack[i] \in Tile
         /\ \A i \in 1 .. Len(stack) : stack[i].size \in Nat /\ stack[i].size > 0
<1>1. Dimension /\ Inputs
  BY DEF LayoutTyped, Inputs
<1>2. Padded \in Nat /\ Padded > 0 /\ Len(responses) \in Nat /\ Len(stack) \in Nat
  BY <1>1, LayoutFacts DEF LayoutTyped
<1>3. Start \in Nat
  <2>1. Len(responses) * Padded \in Int
    BY <1>2
  <2>2. Len(responses) * Padded >= 0
    BY <1>2, TimesSign
  <2> QED BY <2>1, <2>2 DEF Start
<1>4. IndexTiles \in Nat /\ position \in Nat /\ position <= IndexTiles
  BY <1>1, TilesFacts DEF LayoutTyped
<1>5. \A i \in 1 .. Len(stack) : stack[i] \in Tile
  BY DEF LayoutTyped
<1>6. \A i \in 1 .. Len(stack) : stack[i].size \in Nat /\ stack[i].size > 0
  BY <1>2, <1>5 DEF Tile
<1> QED BY <1>1, <1>2, <1>3, <1>4, <1>5, <1>6

LEMMA PowerFacts ==
  ASSUME Dimension, NEW m \in Nat, NEW n \in Nat, Power(m), Power(n)
  PROVE  /\ m < n => 2 * m <= n
         /\ m < Padded => 2 * m <= Padded /\ Power(2 * m)
                          /\ \E i \in Doublings : m = 2^i
<1>1. PICK i \in 0 .. 15 : m = Two[i]
  BY DEF Power
<1>2. PICK j \in 0 .. 15 : n = Two[j]
  BY DEF Power
<1>3. PICK d \in 0 .. 15 : Padded = Two[d]
  BY PaddedIs
<1>4. m < n => 2 * m <= n
  BY <1>1, <1>2, TwoOrder, i \in 0 .. 16, j \in 0 .. 16
<1>5. ASSUME m < Padded
      PROVE  2 * m <= Padded /\ Power(2 * m) /\ \E e \in Doublings : m = 2^e
  <2>1. i < d /\ 2 * m <= Padded
    BY <1>1, <1>3, <1>5, TwoOrder, i \in 0 .. 16, d \in 0 .. 16
  <2>2. Two[i + 1] = 2 * Two[i] /\ i + 1 \in 0 .. 15
    BY <2>1, TwoDoubles
  <2>3. Power(2 * m)
    BY <1>1, <2>2 DEF Power
  <2>4. i \in Doublings
    BY <1>3, <2>1, DoublingsAre
  <2>5. m = 2^i
    BY <1>1, TwoTo, i \in 0 .. 16
  <2> QED BY <2>1, <2>3, <2>4, <2>5
<1> QED BY <1>4, <1>5

(* The steps.  The rotations of the circuit and of the tree have keys.     *)
LEMMA KeyedIs ==
  ASSUME NEW s \in {1, -1}, NEW i \in Doublings
  PROVE  (s * LanesPerRow * 2^i) % Half \in KeyedSteps
<1> DEFINE Step(t, j) == (t * LanesPerRow * 2^j) % Half
<1>1. KeyedSteps = {Step(t, j) : t \in {1, -1}, j \in Doublings}
  BY DEF KeyedSteps
<1> HIDE DEF Step
<1>2. Step(s, i) \in {Step(t, j) : t \in {1, -1}, j \in Doublings}
  OBVIOUS
<1>3. Step(s, i) \in KeyedSteps
  BY <1>1, <1>2
<1> QED BY <1>3, Zenon DEF Step

LEMMA CircuitKeys ==
  ASSUME Dimension
  PROVE  \A step \in {LanesPerRow * 2^i : i \in Doublings} :
           step \in Int /\ step % Half \in KeyedSteps
<1>1. ASSUME NEW i \in Doublings
      PROVE  LanesPerRow * 2^i \in Int /\ (LanesPerRow * 2^i) % Half \in KeyedSteps
  <2>1. i \in 0 .. 16
    BY DEF Doublings
  <2>2. 2^i \in Int
    BY <2>1, TwoTo, TwoType
  <2>3. (1 * LanesPerRow * 2^i) % Half \in KeyedSteps
    BY KeyedIs, 1 \in {1, -1}, Zenon
  <2>4. 1 * LanesPerRow = LanesPerRow
    BY LayoutFacts
  <2>5. (LanesPerRow * 2^i) % Half \in KeyedSteps
    BY <2>3, <2>4
  <2>6. LanesPerRow * 2^i \in Int
    BY <2>2, LayoutFacts
  <2> QED BY <2>5, <2>6
<1> QED BY <1>1

LEMMA TreeKeys ==
  ASSUME Dimension, NEW m, NEW i \in Doublings, m = 2^i
  PROVE  -LanesPerRow * m \in Int /\ (-LanesPerRow * m) % Half \in KeyedSteps
<1>1. i \in 0 .. 16
  BY DEF Doublings
<1>2. m \in Int
  BY <1>1, TwoTo, TwoType
<1>3. ((-1) * LanesPerRow * 2^i) % Half \in KeyedSteps
  BY KeyedIs, -1 \in {1, -1}, Zenon
<1>4. (-LanesPerRow * m) % Half \in KeyedSteps
  <2> DEFINE p == 2^i
  <2>1. ((-1) * LanesPerRow * p) % Half \in KeyedSteps /\ m = p
    BY <1>3
  <2> HIDE DEF p
  <2>2. ((-1) * LanesPerRow) * p = -LanesPerRow * m
    BY <1>2, <2>1, LayoutFacts
  <2> QED BY <2>1, <2>2
<1> QED BY <1>2, <1>4, LayoutFacts

LEMMA KeysAdded ==
  ASSUME KeysInv, UNCHANGED input, NEW X,
         \A step \in X : step \in Int /\ step % Half \in KeyedSteps,
         rotations' = rotations \cup X
  PROVE  KeysInv'
<1>1. KeyedSteps' = KeyedSteps
  BY SameLayout
<1>2. rotations' \subseteq Int
  BY DEF KeysInv
<1>3. \A step \in rotations' : step % Half \in KeyedSteps \cup {0}
  BY DEF KeysInv, RotationsHaveKeys
<1> QED BY <1>1, <1>2, <1>3 DEF KeysInv, RotationsHaveKeys

LEMMA KeysKept ==
  ASSUME KeysInv, UNCHANGED input, UNCHANGED rotations PROVE KeysInv'
<1>1. KeyedSteps' = KeyedSteps
  BY SameLayout
<1> QED BY <1>1 DEF KeysInv, RotationsHaveKeys

LEMMA SameGroups ==
  ASSUME UNCHANGED input
  PROVE  /\ Answered' = Answered /\ Garbage' = Garbage
         /\ UNCHANGED responses => \A r : Group(r)' <=> Group(r)
<1>1. Answered' = Answered
  BY SameLayout DEF Answered, CeilDiv
<1>2. Garbage' = Garbage
  BY DEF Garbage, input
<1>3. ASSUME UNCHANGED responses, NEW r PROVE Group(r)' <=> Group(r)
  BY <1>3, SameLayout, SameDistances DEF Group
<1> QED BY <1>1, <1>2, <1>3

LEMMA AnswersKept ==
  ASSUME LayoutInv, UNCHANGED <<input, damaged, responses>>,
         phase \in {"reading", "combining"}, phase' \in {"reading", "combining"}
  PROVE  ResponsesInv' /\ AnswerInv'
<1>1. ~damaged
  BY DEF LayoutInv, TreeInv
<1>2. \A r \in 1 .. Len(responses) : Group(r)'
  BY <1>1, SameGroups DEF LayoutInv, ResponsesInv
<1>3. ResponsesInv'
  BY <1>1, <1>2 DEF ResponsesInv
<1>4. AnswerInv'
  BY DEF AnswerInv, DistancesInIndexOrder
<1> QED BY <1>3, <1>4

LEMMA FirstLayout == PackedInit => LayoutInv
<1> SUFFICES ASSUME PackedInit PROVE LayoutInv
  OBVIOUS
<1>1. LayoutTyped
  BY LayoutTypedFirst
<1>2. /\ phase = "called" /\ position = 0 /\ carried = <<>> /\ stack = <<>>
      /\ responses = <<>> /\ damaged = FALSE /\ rotations = {}
  BY DEF PackedInit
<1>3. TreeInv
  BY <1>2 DEF TreeInv
<1>4. ResponsesInv
  BY <1>2 DEF ResponsesInv
<1>5. AnswerInv
  BY <1>2 DEF AnswerInv, DistancesInIndexOrder
<1>6. KeysInv
  BY <1>2 DEF KeysInv, RotationsHaveKeys
<1> QED BY <1>1, <1>3, <1>4, <1>5, <1>6 DEF LayoutInv

LEMMA StartTree ==
  ASSUME LayoutTyped', stack' = <<>>, carried' = <<>>, ~damaged', phase' = "reading",
         position' = Start', position' < IndexTiles', Start' \in Nat, Padded' \in Nat
  PROVE  TreeInv'
<1>1. PICK starts : starts = [i \in 1 .. 1 |-> Start']
  OBVIOUS
<1>2. starts[1] = Start' /\ Len(stack') = 0 /\ 1 .. 0 = {} /\ 0 + 1 = 1
  BY <1>1
<1>3. \A i \in 1 .. 1 : starts[i] \in Nat /\ starts[i] >= Start'
  BY <1>2
<1> DEFINE n == Len(stack')
<1>4. Covers(starts)'
  BY <1>2, <1>3 DEF Covers, StackCovers, CarriedAt
<1>5. position' <= Start' + Padded'
  <2> DEFINE p == Start'
             g == Padded'
  <2>1. p \in Nat /\ g \in Nat /\ position' = p
    OBVIOUS
  <2> HIDE DEF p, g
  <2>2. position' <= p + g
    BY <2>1
  <2> QED BY <2>2 DEF p, g
<1> QED BY <1>4, <1>5 DEF TreeInv

LEMMA StackPopped ==
  ASSUME LayoutTyped, phase \in {"reading", "combining"}, stack # <<>>,
         stack' = Front(stack), UNCHANGED input, UNCHANGED responses,
         NEW starts, StackCovers(starts)
  PROVE  /\ StackCovers(starts)' /\ Len(stack') + 1 = Len(stack)
         /\ Start' = Start
         /\ Len(stack) > 1 => /\ stack'[Len(stack')] = stack[Len(stack) - 1]
                              /\ stack[Len(stack)].size < stack'[Len(stack')].size
         /\ stack' \in Seq(Tile)
<1> DEFINE n == Len(stack)
<1>1. n \in Nat /\ n > 0
  BY TreeFacts, TopOf DEF LayoutTyped
<1>2. stack' \in Seq(Tile) /\ Len(stack') = n - 1 /\ \A i \in 1 .. n - 1 : stack'[i] = stack[i]
  BY TopOf DEF LayoutTyped
<1>3. Start' = Start
  BY SameLayout DEF Start
<1>4. \A i \in 1 .. n : starts[i] \in Nat /\ starts[i] >= Start
  BY <1>1 DEF StackCovers
<1>5. \A i \in 1 .. n - 1 :
        /\ starts[i + 1] = starts[i] + stack[i].size
        /\ Power(stack[i].size)
        /\ i > 1 => stack[i].size < stack[i - 1].size
        /\ Holds(stack[i].slots, starts[i], stack[i].size)
  BY <1>1 DEF StackCovers
<1>6. starts[1] = Start
  BY DEF StackCovers
<1>7. n > 1 => stack[n].size < stack[n - 1].size
  BY <1>1, n \in 1 .. n DEF StackCovers
<1> HIDE DEF n
<1>8. \A i \in 1 .. n - 1 : Power(stack'[i].size)
  BY <1>2, <1>5
<1>9. \A i \in 1 .. n - 1 : Holds(stack'[i].slots, starts[i], stack'[i].size)
  BY <1>2, <1>5
<1>10. \A i \in 1 .. n - 1 : i > 1 => stack'[i].size < stack'[i - 1].size
  <2> SUFFICES ASSUME NEW i \in 1 .. n - 1, i > 1 PROVE stack'[i].size < stack'[i - 1].size
    OBVIOUS
  <2>1. i - 1 \in 1 .. n - 1
    BY <1>1
  <2>2. stack'[i] = stack[i] /\ stack'[i - 1] = stack[i - 1]
    BY <1>2, <2>1
  <2> QED BY <1>5, <2>2
<1>11. \A i \in 1 .. n - 1 : starts[i + 1] = starts[i] + stack'[i].size
  BY <1>2, <1>5
<1>12. (n - 1) + 1 = n
  BY <1>1
<1>13. \A i \in 1 .. n - 1 : Holds(stack[i].slots, starts[i], stack[i].size)'
  BY <1>9, SameDistances
<1>14. StackCovers(starts)'
  <2>1. (\A i \in 1 .. Len(stack) + 1 : starts[i] \in Nat /\ starts[i] >= Start)'
    BY <1>2, <1>3, <1>4, <1>12
  <2>2. (starts[1] = Start)'
    BY <1>3, <1>6
  <2>3. (\A i \in 1 .. Len(stack) :
           /\ starts[i + 1] = starts[i] + stack[i].size
           /\ Power(stack[i].size)
           /\ i > 1 => stack[i].size < stack[i - 1].size
           /\ Holds(stack[i].slots, starts[i], stack[i].size))'
    BY <1>2, <1>8, <1>10, <1>11, <1>13
  <2> QED BY <2>1, <2>2, <2>3 DEF StackCovers
<1>15. n > 1 => stack'[Len(stack')] = stack[n - 1]
  BY <1>1, <1>2
<1> QED BY <1>2, <1>3, <1>7, <1>12, <1>14, <1>15 DEF n

(* The top of the stack and what is carried are neighbours.                *)
LEMMA TopTile ==
  ASSUME LayoutTyped, phase \in {"reading", "combining"}, ~(stack = <<>>),
         NEW starts, StackCovers(starts), position <= Start + Padded
  PROVE  LET n == Len(stack)
             left == stack[n]
         IN  /\ n \in Nat /\ n > 0 /\ Last(stack) = left /\ left \in Tile
             /\ starts[n] \in Nat /\ starts[n] >= Start
             /\ starts[n + 1] = starts[n] + left.size
             /\ Power(left.size) /\ Holds(left.slots, starts[n], left.size)
             /\ left.size \in Nat /\ left.size > 0
<1> DEFINE n == Len(stack)
<1>1. n \in Nat /\ n > 0 /\ Last(stack) = stack[n] /\ stack[n] \in Tile
  BY TopOf DEF LayoutTyped
<1>2. n \in 1 .. n /\ n \in 1 .. n + 1
  BY <1>1
<1>3. starts[n] \in Nat /\ starts[n] >= Start
  BY <1>2 DEF StackCovers
<1>4. /\ starts[n + 1] = starts[n] + stack[n].size
      /\ Power(stack[n].size) /\ Holds(stack[n].slots, starts[n], stack[n].size)
  BY <1>2 DEF StackCovers
<1>5. stack[n].size \in Nat /\ stack[n].size > 0
  BY <1>2, TreeFacts
<1> QED BY <1>1, <1>3, <1>4, <1>5

LEMMA MergeKeeps == ASSUME LayoutInv, MergeTile PROVE LayoutInv'
<1>a. PICK n : n = Len(stack)
  OBVIOUS
<1>b. PICK left : left = stack[n]
  OBVIOUS
<1>c. PICK size : size = left.size
  OBVIOUS
<1>d. PICK sum : sum = AddSlots(left.slots, RotateSlots(carried.slots, -LanesPerRow * size))
  OBVIOUS
<1>1. /\ phase = "reading" /\ carried # <<>> /\ stack # <<>> /\ Last(stack).size = carried.size
      /\ stack' = Front(stack)
      /\ UNCHANGED input /\ damaged' = damaged /\ phase' = phase /\ position' = position
      /\ responses' = responses
  BY DEF MergeTile, CanMerge
<1>2. LayoutTyped /\ TreeInv /\ KeysInv
  BY DEF LayoutInv
<1>3. PICK starts : StackCovers(starts) /\ CarriedAt(starts[n + 1])
  BY <1>a, <1>1, <1>2 DEF TreeInv, Covers
<1>4. position <= Start + Padded /\ ~damaged
  BY <1>1, <1>2 DEF TreeInv
<1>5. /\ n \in Nat /\ n > 0 /\ Last(stack) = left /\ left \in Tile
      /\ starts[n] \in Nat /\ starts[n] >= Start
      /\ starts[n + 1] = starts[n] + size
      /\ Power(size) /\ Holds(left.slots, starts[n], size)
      /\ size \in Nat /\ size > 0
  BY <1>a, <1>b, <1>c, <1>1, <1>2, <1>3, <1>4, TopTile
<1>6. /\ Dimension /\ Inputs /\ Padded \in Nat /\ Start \in Nat /\ position \in Nat
  BY <1>1, <1>2, TreeFacts DEF LayoutTyped
<1>7. /\ carried.size = size /\ carried \in Tile
      /\ position = (starts[n] + size) + size
      /\ Holds(carried.slots, starts[n] + size, position - (starts[n] + size))
  <2>1. carried.size = size
    BY <1>1, <1>5, <1>c
  <2>2. carried \in Tile
    BY <1>1, <1>2 DEF LayoutTyped
  <2>3. CarriedAt(starts[n] + size)
    BY <1>3, <1>5
  <2> QED BY <1>1, <2>1, <2>2, <2>3 DEF CarriedAt
<1>8. 2 * size <= Padded /\ size < Padded
  BY <1>4, <1>5, <1>6, <1>7
<1>9. Power(2 * size) /\ \E i \in Doublings : size = 2^i
  BY <1>5, <1>6, <1>8, PowerFacts
<1>10. left.slots \in Content /\ carried.slots \in Content
  BY <1>5, <1>7 DEF Tile
<1>11. Holds(sum, starts[n], position - starts[n]) /\ position - starts[n] = 2 * size
  <2>1. position - (starts[n] + size) = size /\ position - starts[n] = size + size
    BY <1>5, <1>6, <1>7
  <2>2. size + size <= Padded
    BY <1>5, <1>8
  <2>3. Holds(sum, starts[n], size + size)
    BY <1>5, <1>6, <1>7, <1>10, <2>1, <2>2, MergedHold, <1>d DEF Content
  <2> QED BY <1>5, <2>1, <2>3
<1>12. carried' = [slots |-> sum, size |-> 2 * size]
  BY <1>c, <1>d, <1>5, <1>7 DEF MergeTile
<1>13. sum \in Content
  BY <1>5, <1>6, <1>10, SumContent, size \in Int, <1>d
<1>14. carried' \in Tile /\ carried' # <<>>
  <2>1. 2 * size \in 1 .. Padded
    BY <1>5, <1>6, <1>8
  <2>2. carried' \in Tile
    BY <1>12, <1>13, <2>1 DEF Tile
  <2> QED BY <2>2, TileNotNone
<1>15. /\ StackCovers(starts)' /\ Len(stack') + 1 = n /\ Start' = Start
       /\ n > 1 => size < stack'[Len(stack')].size /\ stack'[Len(stack')] = stack[n - 1]
       /\ stack' \in Seq(Tile)
  BY <1>1, <1>2, <1>3, StackPopped, <1>a, <1>b, <1>c
<1>16. stack' # <<>> => 2 * size <= stack'[Len(stack')].size
  <2> SUFFICES ASSUME stack' # <<>> PROVE 2 * size <= stack'[Len(stack')].size
    OBVIOUS
  <2>1. n > 1 /\ n - 1 \in 1 .. Len(stack)
    BY <1>a, <1>5, <1>15
  <2>2. Power(stack[n - 1].size) /\ stack[n - 1].size \in Nat
    BY <1>1, <1>2, <1>3, <2>1, TreeFacts DEF StackCovers
  <2> QED BY <1>5, <1>6, <1>15, <2>1, <2>2, PowerFacts
<1>17. CarriedAt(starts[n])'
  <2>0. PICK last : last = position
    OBVIOUS
  <2>1. Holds(sum, starts[n], position - starts[n])'
    <3>1. Holds(sum, starts[n], last - starts[n])
      BY <1>11, <2>0
    <3>2. Holds(sum, starts[n], last - starts[n])'
      BY <1>1, <3>1, SameDistances
    <3> QED BY <1>1, <2>0, <3>2
  <2>2. carried'.slots = sum /\ carried'.size = 2 * size
    BY <1>12
  <2>3. starts[n] < position'
    BY <1>1, <1>5, <1>6, <1>7
  <2>4. position' = starts[n] + carried'.size
    BY <1>1, <1>5, <1>7, <2>2
  <2>5. Power(carried'.size)
    BY <1>9, <2>2
  <2> QED BY <1>14, <1>16, <2>1, <2>2, <2>3, <2>4, <2>5 DEF CarriedAt
<1>18. Covers(starts)'
  BY <1>15, <1>17 DEF Covers, CarriedAt
<1>19. Padded' = Padded /\ IndexTiles' = IndexTiles /\ Tile' = Tile /\ Inputs' = Inputs
  BY <1>1, SameLayout
<1>20. LayoutTyped'
  BY <1>1, <1>2, <1>14, <1>15, <1>19 DEF LayoutTyped
<1>21. TreeInv'
  BY <1>1, <1>4, <1>14, <1>15, <1>18, <1>19 DEF TreeInv
<1>22. KeysInv'
  <2>1. rotations' = rotations \cup {-LanesPerRow * size}
    BY <1>5, <1>7 DEF MergeTile
  <2>2. -LanesPerRow * size \in Int /\ (-LanesPerRow * size) % Half \in KeyedSteps
    BY <1>6, <1>9, TreeKeys
  <2>3. PICK X : X = {-LanesPerRow * size}
    OBVIOUS
  <2>4. \A step \in X : step \in Int /\ step % Half \in KeyedSteps
    BY <2>2, <2>3
  <2> QED BY <1>1, <1>2, <2>1, <2>3, <2>4, KeysAdded
<1>23. ResponsesInv' /\ AnswerInv'
  BY <1>1, AnswersKept
<1> QED BY <1>20, <1>21, <1>22, <1>23 DEF LayoutInv

LEMMA StackKept ==
  ASSUME UNCHANGED input, UNCHANGED stack, UNCHANGED responses, NEW starts, StackCovers(starts)
  PROVE  StackCovers(starts)' /\ Start' = Start
<1>1. Start' = Start
  BY SameLayout DEF Start
<1>2. \A i \in 1 .. Len(stack) : Holds(stack[i].slots, starts[i], stack[i].size)'
  BY SameDistances DEF StackCovers
<1> QED BY <1>1, <1>2 DEF StackCovers

LEMMA MinIs == \A a, b \in Int : Min({a, b}) = IF a <= b THEN a ELSE b
<1> SUFFICES ASSUME NEW a \in Int, NEW b \in Int PROVE Min({a, b}) = IF a <= b THEN a ELSE b
  OBVIOUS
<1> DEFINE m == IF a <= b THEN a ELSE b
<1>1. m \in {a, b} /\ \A y \in {a, b} : m <= y
  OBVIOUS
<1>2. \A x \in {a, b} : (\A y \in {a, b} : x <= y) => x = m
  OBVIOUS
<1> HIDE DEF m
<1>3. Min({a, b}) = m
  BY <1>1, <1>2 DEF Min
<1> QED BY <1>3 DEF m

LEMMA ReadKeeps == ASSUME LayoutInv, ReadTile PROVE LayoutInv'
<1>a. PICK n : n = Len(stack)
  OBVIOUS
<1>b. PICK k : k = position
  OBVIOUS
<1>c. PICK count : count = Min({TileCapacity, claimed - k * TileCapacity})
  OBVIOUS
<1>d. PICK c : c = DistanceTile(ReplicatedQuery(queryVector), IndexSlots(k), count)
  OBVIOUS
<1>1. /\ phase = "reading" /\ carried = <<>> /\ ~GroupDone
      /\ UNCHANGED input /\ damaged' = damaged /\ phase' = phase /\ position' = k + 1
      /\ responses' = responses /\ stack' = stack
  BY <1>b DEF ReadTile
<1>2. LayoutTyped /\ TreeInv /\ KeysInv
  BY DEF LayoutInv
<1>3. PICK starts : StackCovers(starts) /\ starts[n + 1] = k
  BY <1>a, <1>b, <1>1, <1>2 DEF TreeInv, Covers, CarriedAt
<1>4. k <= Start + Padded /\ ~damaged
  BY <1>b, <1>1, <1>2 DEF TreeInv
<1>5. /\ Dimension /\ Inputs /\ Padded \in Nat /\ Start \in Nat /\ k \in Nat
      /\ IndexTiles \in Nat /\ n \in Nat /\ Padded > 0 /\ Len(responses) \in Nat
  BY <1>a, <1>b, <1>1, <1>2, TreeFacts DEF LayoutTyped
<1>6. k < IndexTiles /\ (k % Padded = 0 => stack = <<>>)
  <2>1. k <= IndexTiles
    BY <1>b, <1>1, <1>2, TreeFacts
  <2> QED BY <1>1, <1>5, <1>b, <2>1 DEF GroupDone
<1>7. k < Start + Padded
  <2> SUFFICES ASSUME k = Start + Padded PROVE FALSE
    BY <1>4, <1>5
  <2>1. PICK m : m = Len(responses) + 1
    OBVIOUS
  <2>2. k = m * Padded + 0 /\ m \in Int
    BY <1>5, <2>1 DEF Start
  <2>3. (m * Padded + 0) % Padded = 0
    <3>1. PICK z : z = 0
      OBVIOUS
    <3>2. (m * Padded + z) % Padded = z
      BY <1>5, <2>2, <3>1, DivModUnique
    <3> QED BY <3>1, <3>2
  <2>4. stack = <<>> /\ n = 0
    BY <1>6, <1>a, <2>2, <2>3
  <2>5. k = Start
    BY <1>3, <2>4 DEF StackCovers
  <2> QED BY <1>5, <2>5
<1>8. /\ count \in Int
      /\ \A lane \in 0 .. TileCapacity - 1 : lane < count <=> k * TileCapacity + lane < claimed
  <2>1. PICK rest : rest = claimed - k * TileCapacity
    OBVIOUS
  <2>2. PICK lanes : lanes = TileCapacity
    OBVIOUS
  <2>3. TileCapacity \in Int /\ k * TileCapacity \in Int /\ claimed \in Int /\ rest \in Int
    <3>1. TileCapacity \in Int /\ claimed \in Int
      BY <1>5, LayoutFacts, LengthFacts
    <3> QED BY <1>5, <2>1, <3>1
  <2>4. count = IF lanes <= rest THEN lanes ELSE rest
    BY <1>c, <2>1, <2>2, <2>3, MinIs
  <2>5. \A lane \in 0 .. lanes - 1 : lane < count <=> lane < rest
    BY <2>2, <2>3, <2>4
  <2>6. \A lane \in 0 .. lanes - 1 : lane < rest <=> k * TileCapacity + lane < claimed
    BY <2>1, <2>2, <2>3
  <2> QED BY <2>2, <2>3, <2>4, <2>5, <2>6
<1>9. Holds(c, k, 1)
  BY <1>5, <1>8, <1>d, TileHolds
<1>10. c \in Content
  <2>1. c = [s \in Slots |-> c[s]]
    BY <1>d DEF DistanceTile
  <2> QED BY <1>5, <1>9, <2>1, HeldContent
<1>11. carried' = [slots |-> c, size |-> 1]
  BY <1>b, <1>c, <1>d DEF ReadTile
<1>12. carried' \in Tile /\ carried' # <<>>
  <2>1. 1 \in 1 .. Padded
    BY <1>5
  <2>2. carried' \in Tile
    BY <1>10, <1>11, <2>1 DEF Tile
  <2> QED BY <2>2, TileNotNone
<1>13. StackCovers(starts)' /\ Start' = Start /\ Len(stack') + 1 = n + 1
  BY <1>1, <1>3, <1>a, StackKept
<1>14. CarriedAt(k)'
  <2>1. Holds(c, k, 1)' /\ (k + 1) - k = 1
    BY <1>1, <1>5, <1>9, SameDistances
  <2>2. carried'.slots = c /\ carried'.size = 1
    BY <1>11
  <2>3. Power(1)
    BY TwoValues, 0 \in 0 .. 15 DEF Power
  <2>4. stack # <<>> => 1 <= stack[Len(stack)].size
    <3> SUFFICES ASSUME stack # <<>> PROVE 1 <= stack[Len(stack)].size
      OBVIOUS
    <3>1. Len(stack) \in 1 .. Len(stack)
      BY <1>2, TopOf DEF LayoutTyped
    <3> QED BY <1>1, <1>2, <3>1, TreeFacts
  <2> QED BY <1>1, <1>5, <1>12, <2>1, <2>2, <2>3, <2>4 DEF CarriedAt
<1>15. Covers(starts)'
  BY <1>3, <1>13, <1>14 DEF Covers, CarriedAt
<1>16. Padded' = Padded /\ IndexTiles' = IndexTiles /\ Tile' = Tile /\ Inputs' = Inputs
  BY <1>1, SameLayout
<1>17. LayoutTyped'
  BY <1>1, <1>2, <1>5, <1>6, <1>12, <1>16 DEF LayoutTyped
<1>18. TreeInv'
  BY <1>1, <1>4, <1>5, <1>7, <1>12, <1>13, <1>15, <1>16 DEF TreeInv
<1>19. KeysInv'
  BY <1>1, <1>2, <1>5, CircuitKeys, KeysAdded DEF ReadTile
<1>20. ResponsesInv' /\ AnswerInv'
  BY <1>1, AnswersKept
<1> QED BY <1>17, <1>18, <1>19, <1>20 DEF LayoutInv

LEMMA PushKeeps == ASSUME LayoutInv, PushTile PROVE LayoutInv'
<1>a. PICK n : n = Len(stack)
  OBVIOUS
<1>b. PICK tile : tile = carried
  OBVIOUS
<1>c. PICK last : last = position
  OBVIOUS
<1>1. /\ phase = "reading" /\ carried # <<>> /\ ~CanMerge
      /\ UNCHANGED input /\ damaged' = damaged /\ phase' = phase /\ position' = position
      /\ responses' = responses /\ stack' = Append(stack, tile) /\ carried' = <<>>
      /\ rotations' = rotations
  BY <1>b DEF PushTile
<1>2. LayoutTyped /\ TreeInv /\ KeysInv
  BY DEF LayoutInv
<1>3. PICK from : StackCovers(from) /\ CarriedAt(from[n + 1])
  BY <1>a, <1>1, <1>2 DEF TreeInv, Covers
<1>4. position <= Start + Padded /\ ~damaged
  BY <1>1, <1>2 DEF TreeInv
<1>5. /\ Dimension /\ Inputs /\ Padded \in Nat /\ Start \in Nat /\ last \in Nat
      /\ n \in Nat /\ tile \in Tile
  BY <1>a, <1>b, <1>c, <1>1, <1>2, TreeFacts DEF LayoutTyped
<1>6. /\ last = from[n + 1] + tile.size /\ Power(tile.size)
      /\ Holds(tile.slots, from[n + 1], last - from[n + 1])
      /\ stack # <<>> => tile.size <= stack[n].size
  BY <1>a, <1>b, <1>c, <1>1, <1>3 DEF CarriedAt
<1>7. tile.size \in Nat /\ tile.size > 0
  BY <1>5 DEF Tile
<1>8. from[n + 1] \in Nat /\ from[n + 1] >= Start
  BY <1>3, <1>5, <1>a, n + 1 \in 1 .. n + 1 DEF StackCovers
<1>9. /\ stack' \in Seq(Tile) /\ Len(stack') = n + 1 /\ stack' # <<>>
      /\ \A i \in 1 .. n : stack'[i] = stack[i]
      /\ stack'[n + 1] = tile
  <2>1. stack \in Seq(Tile)
    BY <1>2 DEF LayoutTyped
  <2> QED BY <1>1, <1>5, <1>a, <2>1, AppendProperties
<1>10. n > 0 => tile.size < stack[n].size
  <2> SUFFICES ASSUME n > 0 PROVE tile.size < stack[n].size
    OBVIOUS
  <2>1. stack # <<>>
    BY <1>a, <1>2 DEF LayoutTyped
  <2>2. Last(stack) = stack[n]
    BY <1>a, <1>2, <2>1, TopOf DEF LayoutTyped
  <2>3. stack[n].size # tile.size
    BY <1>1, <1>b, <2>1, <2>2 DEF CanMerge
  <2>4. stack[n].size \in Nat
    BY <1>1, <1>2, <1>5, <1>a, TreeFacts, n \in 1 .. n
  <2> QED BY <1>6, <1>7, <2>1, <2>3, <2>4
<1>11. PICK starts : starts = [i \in 1 .. n + 2 |-> IF i = n + 2 THEN last ELSE from[i]]
  OBVIOUS
<1>12. starts[n + 2] = last /\ \A i \in 1 .. n + 1 : starts[i] = from[i]
  BY <1>5, <1>11
<1>13. Start' = Start
  BY <1>1, SameLayout DEF Start
<1>14. StackCovers(starts)'
  <2>1. ASSUME NEW i \in 1 .. n + 1
        PROVE  /\ starts[i + 1] = starts[i] + stack'[i].size
               /\ Power(stack'[i].size)
               /\ i > 1 => stack'[i].size < stack'[i - 1].size
               /\ Holds(stack[i].slots, starts[i], stack[i].size)'
    <3>1. CASE i = n + 1
      <4>1. Holds(tile.slots, starts[i], tile.size)
        <5>1. last - from[n + 1] = tile.size
          BY <1>5, <1>6, <1>7, <1>8
        <5> QED BY <1>6, <1>12, <3>1, <5>1
      <4>2. Holds(stack[i].slots, starts[i], stack[i].size)'
        BY <1>1, <1>9, <3>1, <4>1, SameDistances
      <4>3. starts[i + 1] = starts[i] + tile.size
        BY <1>5, <1>6, <1>12, <3>1
      <4>4. i > 1 => i - 1 = n /\ n > 0 /\ stack'[n] = stack[n]
        BY <1>5, <1>9, <3>1
      <4> QED BY <1>6, <1>9, <1>10, <3>1, <4>2, <4>3, <4>4
    <3>2. CASE i \in 1 .. n
      <4>1. /\ from[i + 1] = from[i] + stack[i].size
            /\ Power(stack[i].size)
            /\ i > 1 => stack[i].size < stack[i - 1].size
            /\ Holds(stack[i].slots, from[i], stack[i].size)
        BY <1>3, <1>a, <3>2 DEF StackCovers
      <4>2. starts[i] = from[i] /\ starts[i + 1] = from[i + 1] /\ stack'[i] = stack[i]
        BY <1>5, <1>9, <1>12, <3>2
      <4>3. i > 1 => stack'[i - 1] = stack[i - 1]
        BY <1>5, <1>9, <3>2
      <4>4. Holds(stack'[i].slots, starts[i], stack'[i].size)
        BY <4>1, <4>2
      <4>5. Holds(stack[i].slots, starts[i], stack[i].size)'
        BY <1>1, <4>4, SameDistances
      <4> QED BY <4>1, <4>2, <4>3, <4>5
    <3> QED BY <1>5, <3>1, <3>2
  <2>2. \A i \in 1 .. n + 2 : starts[i] \in Nat /\ starts[i] >= Start
    <3>1. \A i \in 1 .. n + 1 : from[i] \in Nat /\ from[i] >= Start
      BY <1>3, <1>a DEF StackCovers
    <3>2. last >= Start
      BY <1>5, <1>6, <1>7, <1>8
    <3> QED BY <1>5, <1>12, <3>1, <3>2
  <2>3. starts[1] = Start
    BY <1>3, <1>5, <1>12, 1 \in 1 .. n + 1 DEF StackCovers
  <2>4. Len(stack') = n + 1 /\ Len(stack') + 1 = n + 2
    BY <1>5, <1>9
  <2>5. (\A i \in 1 .. Len(stack) + 1 : starts[i] \in Nat /\ starts[i] >= Start)'
    BY <1>13, <2>2, <2>4
  <2>6. (\A i \in 1 .. Len(stack) :
           /\ starts[i + 1] = starts[i] + stack[i].size
           /\ Power(stack[i].size)
           /\ i > 1 => stack[i].size < stack[i - 1].size
           /\ Holds(stack[i].slots, starts[i], stack[i].size))'
    BY <2>1, <2>4
  <2> QED BY <1>13, <2>3, <2>5, <2>6 DEF StackCovers
<1>15. Covers(starts)'
  <2>1. Len(stack') + 1 = n + 2
    BY <1>5, <1>9
  <2>2. starts[n + 2] = position'
    BY <1>1, <1>12, <1>c
  <2> QED BY <1>1, <1>14, <2>1, <2>2 DEF Covers, CarriedAt
<1>16. Padded' = Padded /\ IndexTiles' = IndexTiles /\ Tile' = Tile /\ Inputs' = Inputs
  BY <1>1, SameLayout
<1>17. LayoutTyped'
  BY <1>1, <1>2, <1>9, <1>16 DEF LayoutTyped
<1>18. TreeInv'
  BY <1>1, <1>4, <1>9, <1>13, <1>15, <1>16 DEF TreeInv
<1>19. KeysInv'
  BY <1>1, <1>2, KeysKept
<1>20. ResponsesInv' /\ AnswerInv'
  BY <1>1, AnswersKept
<1> QED BY <1>17, <1>18, <1>19, <1>20 DEF LayoutInv

LEMMA NextMultiple ==
  ASSUME NEW b \in Nat, b > 0, NEW m \in Int, NEW a \in Int, a % b = 0, m * b < a, a <= m * b + b
  PROVE  a = m * b + b
<1>0. PICK g : g = a \div b
  OBVIOUS
<1>1. g \in Int /\ a = g * b + 0
  <2>1. b \in Int /\ g \in Int /\ a = g * b + (a % b)
    BY <1>0, DivMod
  <2> QED BY <2>1
<1>2. m * b \in Int /\ g * b \in Int /\ (m + 1) * b = m * b + b /\ (m + 2) * b = (m * b + b) + b
  BY <1>1
<1>3. m * b < g * b /\ g * b < (m + 2) * b
  BY <1>1, <1>2
<1>4. m < g /\ g < m + 2
  BY <1>1, <1>3, TimesCancel
<1>5. g = m + 1
  BY <1>1, <1>4
<1> QED BY <1>1, <1>2, <1>5

LEMMA CombiningKeeps == ASSUME LayoutInv, StartCombining PROVE LayoutInv'
<1>a. PICK n : n = Len(stack)
  OBVIOUS
<1>b. PICK left : left = stack[n]
  OBVIOUS
<1>c. PICK last : last = position
  OBVIOUS
<1>1. /\ phase = "reading" /\ carried = <<>> /\ GroupDone
      /\ UNCHANGED input /\ damaged' = damaged /\ phase' = "combining" /\ position' = position
      /\ responses' = responses /\ stack' = Front(stack) /\ carried' = Last(stack)
      /\ rotations' = rotations
  BY DEF StartCombining
<1>2. LayoutTyped /\ TreeInv /\ KeysInv
  BY DEF LayoutInv
<1>3. PICK starts : StackCovers(starts) /\ starts[n + 1] = last
  BY <1>a, <1>c, <1>1, <1>2 DEF TreeInv, Covers, CarriedAt
<1>4. last <= Start + Padded /\ ~damaged
  BY <1>c, <1>1, <1>2 DEF TreeInv
<1>5. /\ Dimension /\ Inputs /\ Padded \in Nat /\ Padded > 0 /\ Start \in Nat /\ last \in Nat
      /\ n \in Nat /\ Len(responses) \in Nat /\ IndexTiles \in Nat
  BY <1>a, <1>c, <1>1, <1>2, TreeFacts DEF LayoutTyped
<1>6. stack # <<>>
  <2>1. stack = <<>> => position < IndexTiles
    BY <1>1, <1>2 DEF TreeInv
  <2> QED BY <1>1, <1>5, <1>c, <2>1 DEF GroupDone
<1>7. /\ n > 0 /\ Last(stack) = left /\ left \in Tile
      /\ starts[n] \in Nat /\ starts[n] >= Start
      /\ starts[n + 1] = starts[n] + left.size
      /\ Power(left.size) /\ Holds(left.slots, starts[n], left.size)
      /\ left.size \in Nat /\ left.size > 0
  BY <1>a, <1>b, <1>c, <1>1, <1>2, <1>3, <1>4, <1>6, TopTile
<1>8. /\ StackCovers(starts)' /\ Len(stack') + 1 = n /\ Start' = Start /\ stack' \in Seq(Tile)
  BY <1>1, <1>2, <1>3, <1>6, StackPopped, <1>a
<1>9. carried' \in Tile /\ carried' # <<>> /\ carried' = left
  BY <1>1, <1>7, TileNotNone
<1>10. CarriedAt(starts[n])'
  <2>1. last - starts[n] = left.size /\ starts[n] < last
    BY <1>3, <1>5, <1>7
  <2>2. Holds(left.slots, starts[n], last - starts[n])
    BY <1>7, <2>1
  <2>3. Holds(left.slots, starts[n], last - starts[n])'
    BY <1>1, <2>2, SameDistances
  <2> QED BY <1>1, <1>9, <1>c, <2>1, <2>3 DEF CarriedAt
<1>11. Covers(starts)'
  BY <1>8, <1>10 DEF Covers, CarriedAt
<1>12. last = IndexTiles \/ last = Start + Padded
  <2> SUFFICES ASSUME last # IndexTiles PROVE last = Start + Padded
    OBVIOUS
  <2>1. last % Padded = 0
    BY <1>1, <1>c DEF GroupDone
  <2>2. Start < last
    <3>1. PICK s, d : s = starts[n] /\ d = left.size
      OBVIOUS
    <3>2. s \in Nat /\ s >= Start /\ d \in Nat /\ d > 0 /\ last = s + d
      BY <1>3, <1>7, <3>1
    <3> QED BY <1>5, <3>2
  <2>3. PICK m : m = Len(responses)
    OBVIOUS
  <2>4. Start = m * Padded /\ m \in Int /\ last \in Int
    BY <1>5, <2>3 DEF Start
  <2> QED BY <1>4, <1>5, <2>1, <2>2, <2>4, NextMultiple
<1>13. Padded' = Padded /\ IndexTiles' = IndexTiles /\ Tile' = Tile /\ Inputs' = Inputs
  BY <1>1, SameLayout
<1>14. LayoutTyped'
  BY <1>1, <1>2, <1>8, <1>9, <1>13 DEF LayoutTyped, Phases
<1>15. TreeInv'
  BY <1>1, <1>4, <1>8, <1>9, <1>11, <1>12, <1>13, <1>c DEF TreeInv
<1>16. KeysInv'
  BY <1>1, <1>2, KeysKept
<1>17. ResponsesInv' /\ AnswerInv'
  BY <1>1, AnswersKept
<1> QED BY <1>14, <1>15, <1>16, <1>17 DEF LayoutInv

LEMMA CombineKeeps == ASSUME LayoutInv, CombineLeft PROVE LayoutInv'
<1>a. PICK n : n = Len(stack)
  OBVIOUS
<1>b. PICK left : left = stack[n]
  OBVIOUS
<1>c. PICK size : size = left.size
  OBVIOUS
<1>d. PICK sum : sum = AddSlots(left.slots, RotateSlots(carried.slots, -LanesPerRow * size))
  OBVIOUS
<1>e. PICK last : last = position
  OBVIOUS
<1>1. /\ phase = "combining" /\ stack # <<>> /\ stack' = Front(stack)
      /\ UNCHANGED input /\ damaged' = damaged /\ phase' = phase /\ position' = position
      /\ responses' = responses
  BY DEF CombineLeft
<1>2. LayoutTyped /\ TreeInv /\ KeysInv
  BY DEF LayoutInv
<1>3. PICK starts : StackCovers(starts) /\ CarriedAt(starts[n + 1])
  BY <1>a, <1>1, <1>2 DEF TreeInv, Covers
<1>4. /\ last <= Start + Padded /\ ~damaged /\ carried # <<>>
      /\ last = IndexTiles \/ last = Start + Padded
  BY <1>1, <1>2, <1>e DEF TreeInv
<1>5. /\ n \in Nat /\ n > 0 /\ Last(stack) = left /\ left \in Tile
      /\ starts[n] \in Nat /\ starts[n] >= Start
      /\ starts[n + 1] = starts[n] + size
      /\ Power(size) /\ Holds(left.slots, starts[n], size)
      /\ size \in Nat /\ size > 0
  BY <1>a, <1>b, <1>c, <1>e, <1>1, <1>2, <1>3, <1>4, TopTile
<1>6. Dimension /\ Inputs /\ Padded \in Nat /\ Padded > 0 /\ Start \in Nat /\ last \in Nat
  BY <1>e, <1>1, <1>2, TreeFacts DEF LayoutTyped
<1>7. /\ carried \in Tile /\ starts[n] + size < last
      /\ Holds(carried.slots, starts[n] + size, last - (starts[n] + size))
  <2>1. carried \in Tile
    BY <1>2, <1>4 DEF LayoutTyped
  <2>2. CarriedAt(starts[n] + size)
    BY <1>3, <1>5
  <2> QED BY <1>4, <1>e, <2>1, <2>2 DEF CarriedAt
<1>8. size < Padded
  BY <1>4, <1>5, <1>6, <1>7
<1>9. \E i \in Doublings : size = 2^i
  BY <1>5, <1>6, <1>8, PowerFacts
<1>10. left.slots \in Content /\ carried.slots \in Content
  BY <1>5, <1>7 DEF Tile
<1>11. Holds(sum, starts[n], last - starts[n])
  <2>1. PICK m : m = last - (starts[n] + size)
    OBVIOUS
  <2>2. m \in Nat /\ size + m = last - starts[n] /\ size + m <= Padded
    <3>1. PICK s : s = starts[n]
      OBVIOUS
    <3>2. s \in Nat /\ s >= Start /\ s + size < last
      BY <1>5, <1>7, <3>1
    <3>3. m = last - (s + size)
      BY <2>1, <3>1
    <3>4. m \in Nat /\ size + m = last - s
      BY <1>5, <1>6, <3>2, <3>3
    <3>5. last - s <= Padded
      BY <1>4, <1>6, <3>2
    <3> QED BY <3>1, <3>4, <3>5
  <2>3. Holds(sum, starts[n], size + m)
    BY <1>5, <1>6, <1>7, <1>10, <1>d, <2>1, <2>2, MergedHold DEF Content
  <2> QED BY <2>2, <2>3
<1>12. carried' = [carried EXCEPT !.slots = sum]
  BY <1>5, <1>c, <1>d DEF CombineLeft, CombineStep
<1>13. sum \in Content
  BY <1>5, <1>6, <1>10, SumContent, size \in Int, <1>d
<1>14. carried' \in Tile /\ carried' # <<>> /\ carried'.slots = sum
  <2>1. carried' \in Tile /\ carried'.slots = sum
    BY <1>7, <1>12, <1>13 DEF Tile
  <2> QED BY <2>1, TileNotNone
<1>15. StackCovers(starts)' /\ Len(stack') + 1 = n /\ Start' = Start /\ stack' \in Seq(Tile)
  BY <1>1, <1>2, <1>3, StackPopped, <1>a
<1>16. CarriedAt(starts[n])'
  <2>1. Holds(sum, starts[n], last - starts[n])'
    BY <1>1, <1>11, SameDistances
  <2>2. starts[n] < last
    BY <1>5, <1>6, <1>7
  <2> QED BY <1>1, <1>14, <1>e, <2>1, <2>2 DEF CarriedAt
<1>17. Covers(starts)'
  BY <1>15, <1>16 DEF Covers, CarriedAt
<1>18. Padded' = Padded /\ IndexTiles' = IndexTiles /\ Tile' = Tile /\ Inputs' = Inputs
  BY <1>1, SameLayout
<1>19. LayoutTyped'
  BY <1>1, <1>2, <1>14, <1>15, <1>18 DEF LayoutTyped
<1>20. TreeInv'
  BY <1>1, <1>4, <1>14, <1>15, <1>17, <1>18, <1>e DEF TreeInv
<1>21. KeysInv'
  <2>1. rotations' = rotations \cup {-LanesPerRow * size}
    BY <1>5, <1>c DEF CombineLeft, CombineStep
  <2>2. -LanesPerRow * size \in Int /\ (-LanesPerRow * size) % Half \in KeyedSteps
    BY <1>6, <1>9, TreeKeys
  <2>3. PICK X : X = {-LanesPerRow * size}
    OBVIOUS
  <2>4. \A step \in X : step \in Int /\ step % Half \in KeyedSteps
    BY <2>2, <2>3
  <2> QED BY <1>1, <1>2, <2>1, <2>3, <2>4, KeysAdded
<1>22. ResponsesInv' /\ AnswerInv'
  BY <1>1, AnswersKept
<1> QED BY <1>19, <1>20, <1>21, <1>22 DEF LayoutInv

(* The answer.  A group that ends at the end of the index is the last one. *)
LEMMA LastGroup ==
  ASSUME NEW b \in Nat, b > 0, NEW m \in Nat, NEW a \in Nat, m * b < a, a <= m * b + b
  PROVE  CeilDiv(a, b) = m + 1
<1>1. ((m + 1) - 1) * b < a /\ a <= (m + 1) * b
  <2>1. (m + 1) - 1 = m /\ (m + 1) * b = m * b + b
    OBVIOUS
  <2> QED BY <2>1
<1> QED BY <1>1, m + 1 \in Int, CeilUnique

LEMMA RespondKeeps == ASSUME LayoutInv, Respond PROVE LayoutInv'
<1>a. PICK c : c = carried.slots
  OBVIOUS
<1>b. PICK m : m = Len(responses)
  OBVIOUS
<1>c. PICK last : last = position
  OBVIOUS
<1>1. /\ phase = "combining" /\ stack = <<>> /\ stack' = stack
      /\ UNCHANGED input /\ damaged' = damaged /\ position' = position
      /\ phase' = IF position = IndexTiles THEN "answered" ELSE "reading"
      /\ responses' = Append(responses, c) /\ carried' = <<>> /\ rotations' = rotations
  BY <1>a DEF Respond
<1>2. LayoutTyped /\ TreeInv /\ KeysInv /\ ResponsesInv /\ AnswerInv
  BY DEF LayoutInv
<1>3. PICK starts : StackCovers(starts) /\ CarriedAt(starts[Len(stack) + 1])
  BY <1>1, <1>2 DEF TreeInv, Covers
<1>4. /\ last <= Start + Padded /\ ~damaged /\ carried # <<>>
      /\ last = IndexTiles \/ last = Start + Padded
  BY <1>1, <1>2, <1>c DEF TreeInv
<1>5. /\ Dimension /\ Inputs /\ Padded \in Nat /\ Padded > 0 /\ Start \in Nat /\ last \in Nat
      /\ m \in Nat /\ IndexTiles \in Nat /\ last <= IndexTiles
  BY <1>b, <1>c, <1>1, <1>2, TreeFacts DEF LayoutTyped
<1>6. /\ carried \in Tile /\ Start < last
      /\ Holds(c, Start, last - Start)
  <2>1. carried \in Tile
    BY <1>2, <1>4 DEF LayoutTyped
  <2>2. Len(stack) = 0 /\ 0 + 1 = 1
    BY <1>1
  <2>3. CarriedAt(Start)
    BY <1>3, <2>2 DEF StackCovers
  <2> QED BY <1>4, <1>a, <1>c, <2>1, <2>3 DEF CarriedAt
<1>7. c \in Content
  BY <1>6, <1>a DEF Tile
<1>8. /\ responses' \in Seq(Content) /\ Len(responses') = m + 1
      /\ \A r \in 1 .. m : responses'[r] = responses[r]
      /\ responses'[m + 1] = c
  <2>1. responses \in Seq(Content)
    BY <1>2 DEF LayoutTyped
  <2> QED BY <1>1, <1>7, <1>b, <2>1, AppendProperties
<1>9. Padded' = Padded /\ IndexTiles' = IndexTiles /\ Tile' = Tile /\ Inputs' = Inputs
  BY <1>1, SameLayout
<1>10. Start' = Start + Padded /\ Start = m * Padded
  <2>1. Start' = (m + 1) * Padded /\ Start = m * Padded
    BY <1>8, <1>9, <1>b DEF Start
  <2>2. (m + 1) * Padded = m * Padded + Padded
    BY <1>5
  <2> QED BY <2>1, <2>2
<1>11. LayoutTyped'
  <2>1. phase' \in Phases
    BY <1>1 DEF Phases
  <2> QED BY <1>1, <1>2, <1>8, <1>9, <2>1 DEF LayoutTyped
<1>12. TreeInv'
  <2>1. CASE last = IndexTiles
    BY <1>1, <1>c, <2>1 DEF TreeInv
  <2>2. CASE last # IndexTiles
    <3>1. phase' = "reading" /\ position' = Start' /\ position' < IndexTiles'
      BY <1>1, <1>4, <1>5, <1>9, <1>10, <1>c, <2>2
    <3>2. Start' \in Nat /\ Padded' \in Nat
      BY <1>5, <1>9, <1>10
    <3> QED BY <1>1, <1>4, <1>11, <3>1, <3>2, StartTree
  <2> QED BY <2>1, <2>2
<1>13. \A r \in 1 .. m + 1 : Group(r)'
  <2>1. ASSUME NEW r \in 1 .. m PROVE Group(r)'
    <3>1. Group(r)
      BY <1>2, <1>4, <1>b DEF ResponsesInv
    <3>2. PICK tiles \in Nat : /\ Holds(responses[r], (r - 1) * Padded, tiles)
                               /\ tiles = Padded \/ (r - 1) * Padded + tiles = IndexTiles
      BY <3>1 DEF Group
    <3>3. PICK first : first = (r - 1) * Padded
      OBVIOUS
    <3>4. PICK d : d = responses[r]
      OBVIOUS
    <3>5. Holds(d, first, tiles)'
      BY <1>1, <3>2, <3>3, <3>4, SameDistances
    <3>6. responses'[r] = d /\ (r - 1) * Padded' = first
      BY <1>8, <1>9, <3>3, <3>4
    <3> QED BY <1>9, <3>2, <3>3, <3>5, <3>6 DEF Group
  <2>2. Group(m + 1)'
    <3>1. PICK tiles : tiles = last - Start
      OBVIOUS
    <3>2. tiles \in Nat /\ (tiles = Padded \/ Start + tiles = IndexTiles)
      BY <1>4, <1>5, <1>6, <3>1
    <3>3. PICK first : first = Start
      OBVIOUS
    <3>4. Holds(c, first, tiles)'
      BY <1>1, <1>6, <3>1, <3>3, SameDistances
    <3>5. ((m + 1) - 1) * Padded' = first
      BY <1>5, <1>9, <1>10, <3>3
    <3> QED BY <1>8, <1>9, <3>2, <3>3, <3>4, <3>5 DEF Group
  <2> QED BY <1>5, <2>1, <2>2
<1>14. phase' = "answered" => Len(responses') = Answered'
  <2> SUFFICES ASSUME phase' = "answered" PROVE Len(responses') = Answered'
    OBVIOUS
  <2>1. IndexTiles = last
    BY <1>1, <1>c
  <2>2. CeilDiv(IndexTiles, Padded) = m + 1
    BY <1>4, <1>5, <1>6, <1>10, <2>1, LastGroup
  <2> QED BY <1>1, <1>8, <2>2, SameGroups DEF Answered
<1>15. ResponsesInv'
  BY <1>1, <1>4, <1>8, <1>13, <1>14 DEF ResponsesInv
<1>16. AnswerInv'
  BY <1>1 DEF AnswerInv, DistancesInIndexOrder
<1>17. KeysInv'
  BY <1>1, <1>2, KeysKept
<1> QED BY <1>11, <1>12, <1>15, <1>16, <1>17 DEF LayoutInv

LEMMA Sizes ==
  ASSUME Dimension
  PROVE  /\ Padded \in Nat /\ Padded > 0 /\ TileCapacity \in Nat /\ TileCapacity > 0
         /\ SlotCount = Padded * TileCapacity /\ SlotCount \in Nat /\ SlotCount > 0
<1>1. Padded \in Nat /\ Padded > 0 /\ SlotCount = Padded * TileCapacity
  BY LayoutFacts
<1>2. TileCapacity \in Nat /\ TileCapacity > 0
  BY LayoutFacts
<1>3. SlotCount \in Nat /\ SlotCount > 0
  BY RingFacts
<1> QED BY <1>1, <1>2, <1>3

LEMMA GroupCount ==
  ASSUME Inputs
  PROVE  /\ Answered \in Nat
         /\ (Answered - 1) * Padded < IndexTiles /\ IndexTiles <= Answered * Padded
         /\ CeilDiv(Len(database), SlotCount) = Answered
<1>0. /\ Dimension /\ IndexTiles \in Nat /\ Len(database) \in Nat
      /\ (IndexTiles - 1) * TileCapacity < Len(database)
      /\ Len(database) <= IndexTiles * TileCapacity
  BY TilesFacts, LengthFacts DEF Inputs
<1>1. /\ Padded \in Nat /\ Padded > 0 /\ TileCapacity \in Nat /\ TileCapacity > 0
      /\ SlotCount = Padded * TileCapacity /\ SlotCount \in Nat /\ SlotCount > 0
  BY <1>0, Sizes
<1>a. PICK a : a = Answered
  OBVIOUS
<1>b. PICK n : n = IndexTiles
  OBVIOUS
<1>2. a \in Nat /\ (a - 1) * Padded < n /\ n <= a * Padded
  BY <1>0, <1>1, <1>a, <1>b, CeilIs DEF Answered
<1>3. Len(database) <= a * SlotCount
  <2>1. n * TileCapacity <= (a * Padded) * TileCapacity
    BY <1>0, <1>1, <1>2, <1>b, TimesMonotone, a * Padded \in Int
  <2>2. (a * Padded) * TileCapacity = a * SlotCount /\ a * SlotCount \in Int
    BY <1>1, <1>2
  <2>3. n * TileCapacity \in Int
    BY <1>0, <1>1, <1>b
  <2> QED BY <1>0, <1>b, <2>1, <2>2, <2>3
<1>4. (a - 1) * SlotCount < Len(database)
  <2>1. PICK k : k = (a - 1) * Padded
    OBVIOUS
  <2>2. k \in Int /\ k <= n - 1
    BY <1>0, <1>1, <1>2, <1>b, <2>1
  <2>3. k * TileCapacity <= (n - 1) * TileCapacity
    BY <1>0, <1>1, <1>b, <2>2, TimesMonotone
  <2>4. k * TileCapacity = (a - 1) * SlotCount
    BY <1>1, <1>2, <2>1
  <2>5. k * TileCapacity \in Int /\ (n - 1) * TileCapacity \in Int
    BY <1>0, <1>1, <1>b, <2>2
  <2> QED BY <1>0, <1>b, <2>3, <2>4, <2>5
<1>5. CeilDiv(Len(database), SlotCount) = a
  BY <1>0, <1>1, <1>2, <1>3, <1>4, CeilUnique
<1> QED BY <1>2, <1>5, <1>a, <1>b

(* The slot the client reads is the one of that place.                     *)
LEMMA ReadSlot ==
  ASSUME Inputs, NEW i \in 0 .. SlotCount - 1
  PROVE  \E r \in {0, 1}, b \in 0 .. Padded - 1, l \in 0 .. LanesPerRow - 1 :
           /\ SlotOfDistance(i) = SlotAt(r, b, l)
           /\ i = b * TileCapacity + (r * LanesPerRow + l)
<1>a. PICK b : b = i \div TileCapacity
  OBVIOUS
<1>b. PICK lane : lane = i % TileCapacity
  OBVIOUS
<1>c. PICK r : r = lane \div LanesPerRow
  OBVIOUS
<1>d. PICK l : l = lane % LanesPerRow
  OBVIOUS
<1>0. Dimension
  BY DEF Inputs
<1>1. /\ Padded \in Int /\ TileCapacity \in Int /\ TileCapacity > 0
      /\ LanesPerRow \in Int /\ LanesPerRow > 0 /\ TileCapacity = 2 * LanesPerRow
      /\ SlotCount = Padded * TileCapacity /\ i \in Int /\ i >= 0 /\ i < Padded * TileCapacity
  BY <1>0, LayoutFacts, RingFacts
<1>2. b \in Int /\ lane \in Int /\ i = b * TileCapacity + lane /\ 0 <= lane /\ lane < TileCapacity
  BY <1>1, <1>a, <1>b, DivMod
<1>3. r \in Int /\ l \in Int /\ lane = r * LanesPerRow + l /\ 0 <= l /\ l < LanesPerRow
  BY <1>1, <1>2, <1>c, <1>d, DivMod
<1>4. b \in 0 .. Padded - 1
  <2>1. b * TileCapacity \in Int
    BY <1>1, <1>2
  <2>2. b * TileCapacity < Padded * TileCapacity /\ -1 * TileCapacity < b * TileCapacity
    BY <1>1, <1>2, <2>1
  <2>3. b < Padded /\ -1 < b
    BY <1>1, <1>2, <2>2, TimesCancel
  <2> QED BY <1>1, <1>2, <2>3
<1>5. r \in {0, 1}
  <2>1. r * LanesPerRow \in Int
    BY <1>1, <1>3
  <2>2. r * LanesPerRow < 2 * LanesPerRow /\ -1 * LanesPerRow < r * LanesPerRow
    BY <1>1, <1>2, <1>3, <2>1
  <2>3. r < 2 /\ -1 < r
    BY <1>1, <1>3, <2>2, TimesCancel
  <2> QED BY <1>3, <2>3
<1>6. l \in 0 .. LanesPerRow - 1
  BY <1>1, <1>3
<1>7. SlotOfDistance(i) = SlotAt(r, b, l)
  <2>1. SlotOfDistance(i) = ((r * Half) + (b * LanesPerRow)) + l
    BY <1>a, <1>b, <1>c, <1>d DEF SlotOfDistance
  <2>2. r * Half \in Int /\ b * LanesPerRow \in Int
    BY <1>1, <1>2, <1>3, RingFacts
  <2> QED BY <1>3, <2>1, <2>2 DEF SlotAt
<1> QED BY <1>2, <1>3, <1>4, <1>5, <1>6, <1>7

(* In a complete answer every place holds its distance.                    *)
LEMMA Decoded ==
  ASSUME Inputs, Len(responses) = Answered, \A r \in 1 .. Len(responses) : Group(r),
         NEW i \in 1 .. Len(database)
  PROVE  DecodedDistances[i] = DistanceAt(i - 1) /\ DecodedDistances[i] \in 0 .. embedLen
<1>a. PICK g : g = (i - 1) \div SlotCount
  OBVIOUS
<1>b. PICK j : j = (i - 1) % SlotCount
  OBVIOUS
<1>c. PICK p : p = i - 1
  OBVIOUS
<1>0. Dimension /\ Len(database) \in Nat /\ p \in Nat /\ p < Len(database)
  BY <1>c, LengthFacts DEF Inputs
<1>1. /\ Padded \in Nat /\ Padded > 0 /\ TileCapacity \in Nat /\ TileCapacity > 0
      /\ SlotCount = Padded * TileCapacity /\ SlotCount \in Nat /\ SlotCount > 0
  BY <1>0, Sizes
<1>2. g \in Int /\ j \in Int /\ p = g * SlotCount + j /\ 0 <= j /\ j < SlotCount
  BY <1>0, <1>1, <1>a, <1>b, <1>c, DivMod
<1>3. PICK r \in {0, 1}, b \in 0 .. Padded - 1, l \in 0 .. LanesPerRow - 1 :
        /\ SlotOfDistance(j) = SlotAt(r, b, l)
        /\ j = b * TileCapacity + (r * LanesPerRow + l)
  BY <1>1, <1>2, ReadSlot, j \in 0 .. SlotCount - 1
<1>4. g \in Nat /\ g + 1 \in 1 .. Len(responses)
  <2>1. Answered \in Nat /\ CeilDiv(Len(database), SlotCount) = Answered
    BY GroupCount
  <2>2. Len(database) <= Answered * SlotCount
    BY <1>0, <1>1, <2>1, CeilIs
  <2>3. g * SlotCount \in Int /\ Answered * SlotCount \in Int
    BY <1>1, <1>2, <2>1
  <2>4. g * SlotCount < Answered * SlotCount /\ -1 * SlotCount < g * SlotCount
    <3>1. PICK x, y : x = g * SlotCount /\ y = Answered * SlotCount
      OBVIOUS
    <3>2. p = x + j /\ Len(database) <= y /\ x \in Int /\ y \in Int
      BY <1>2, <2>2, <2>3, <3>1
    <3>3. x < y /\ -SlotCount < x
      BY <1>0, <1>1, <1>2, <3>2
    <3> QED BY <1>1, <3>1, <3>3
  <2>5. g < Answered /\ -1 < g
    BY <1>1, <1>2, <2>1, <2>4, TimesCancel
  <2> QED BY <1>2, <2>1, <2>5
<1>5. PICK tiles \in Nat : /\ Holds(responses[g + 1], g * Padded, tiles)
                           /\ tiles = Padded \/ g * Padded + tiles = IndexTiles
  <2>1. Group(g + 1) /\ (g + 1) - 1 = g
    BY <1>4
  <2> QED BY <2>1 DEF Group
<1>6. p = (g * Padded + b) * TileCapacity + (r * LanesPerRow + l)
  <2>1. g * SlotCount = (g * Padded) * TileCapacity
    BY <1>1, <1>2
  <2>2. (g * Padded + b) * TileCapacity = (g * Padded) * TileCapacity + b * TileCapacity
    BY <1>1, <1>2
  <2>3. /\ (g * Padded) * TileCapacity \in Int /\ b * TileCapacity \in Int
    BY <1>1, <1>2
  <2>4. r * LanesPerRow + l \in Int
    <3>1. LanesPerRow \in Int
      BY <1>0, LayoutFacts
    <3> QED BY <3>1
  <2>5. PICK x, y : x = (g * Padded) * TileCapacity /\ y = b * TileCapacity
    OBVIOUS
  <2>6. PICK z : z = r * LanesPerRow + l
    OBVIOUS
  <2>7. p = x + (y + z) /\ (g * Padded + b) * TileCapacity = x + y
    BY <1>2, <1>3, <2>1, <2>2, <2>5, <2>6
  <2>8. x \in Int /\ y \in Int /\ z \in Int
    BY <2>3, <2>4, <2>5, <2>6
  <2>9. p = (x + y) + z
    BY <2>7, <2>8
  <2> QED BY <2>6, <2>7, <2>9
<1>7. b < tiles
  <2>1. CASE tiles = Padded
    BY <1>1, <2>1
  <2>2. CASE g * Padded + tiles = IndexTiles
    <3>1. PICK k : k = g * Padded + b
      OBVIOUS
    <3>2. k \in Int /\ g * Padded \in Int
      BY <1>1, <1>2, <3>1
    <3>3. PICK z : z = r * LanesPerRow + l
      OBVIOUS
    <3>7. z \in Int /\ z >= 0
      <4>1. LanesPerRow \in Int /\ LanesPerRow > 0
        BY <1>0, LayoutFacts
      <4> QED BY <3>3, <4>1
    <3>4. k * TileCapacity \in Int /\ IndexTiles * TileCapacity \in Int /\ IndexTiles \in Nat
      BY <1>1, <3>2, TilesFacts
    <3>5. k * TileCapacity < IndexTiles * TileCapacity
      <4>1. PICK x, y : x = k * TileCapacity /\ y = IndexTiles * TileCapacity
        OBVIOUS
      <4>2. p = x + z /\ x \in Int /\ y \in Int
        BY <1>6, <3>1, <3>3, <3>4, <4>1
      <4>3. Len(database) <= y
        BY <4>1, TilesFacts
      <4>4. x < y
        BY <1>0, <3>7, <4>2, <4>3
      <4> QED BY <4>1, <4>4
    <3>6. k < IndexTiles
      BY <1>1, <3>2, <3>4, <3>5, TimesCancel
    <3> QED BY <2>2, <3>1, <3>2, <3>6
  <2> QED BY <1>5, <2>1, <2>2
<1>8. responses[g + 1][SlotAt(r, b, l)] = DistanceAt(p)
  <2>1. HoldsBlocks(responses[g + 1], g * Padded, tiles)
    BY <1>0, <1>5, HoldsIs
  <2> QED BY <1>6, <1>7, <2>1 DEF HoldsBlocks
<1>9. DecodedDistances[i] = responses[g + 1][SlotOfDistance(j)]
  BY <1>a, <1>b DEF DecodedDistances
<1>10. DistanceAt(p) \in 0 .. embedLen
  BY <1>0, p \in Int, DistanceAtType
<1> QED BY <1>3, <1>8, <1>9, <1>10, <1>c

LEMMA EmptyIndex == ASSUME NEW b \in Nat, b > 0 PROVE CeilDiv(0, b) = 0
<1>1. PICK z : z = 0
  OBVIOUS
<1>2. z \in Nat /\ z \in Int /\ (z - 1) * b < z /\ z <= z * b
  BY <1>1
<1>3. CeilDiv(z, b) = z
  BY <1>2, CeilUnique
<1> QED BY <1>1, <1>3

LEMMA AcceptKeeps == ASSUME LayoutInv, Accept PROVE LayoutInv'
<1>1. /\ phase = "called"
      /\ phase' = IF ~CountMatches(claimed, IndexTiles, TileCapacity) THEN "refused"
                  ELSE IF IndexTiles = 0 THEN "answered" ELSE "reading"
      /\ UNCHANGED input /\ damaged' = damaged /\ position' = position /\ carried' = carried
      /\ stack' = stack /\ responses' = responses /\ rotations' = rotations
  BY DEF Accept
<1>2. LayoutTyped /\ KeysInv /\ AnswerInv
  BY DEF LayoutInv
<1>3. position = 0 /\ carried = <<>> /\ stack = <<>> /\ responses = <<>> /\ ~damaged
  BY <1>1, <1>2 DEF AnswerInv
<1>4. Inputs /\ Dimension
  BY <1>2 DEF LayoutTyped, Inputs
<1>5. Padded' = Padded /\ IndexTiles' = IndexTiles /\ Tile' = Tile /\ Inputs' = Inputs
  BY <1>1, SameLayout
<1>6. Padded \in Nat /\ Padded > 0 /\ IndexTiles \in Nat
  BY <1>4, Sizes, TilesFacts
<1>7. LayoutTyped'
  <2>1. phase' \in Phases
    BY <1>1 DEF Phases
  <2> QED BY <1>1, <1>2, <1>5, <2>1 DEF LayoutTyped
<1>8. TreeInv'
  <2>1. CASE phase' = "reading"
    <3>1. IndexTiles # 0
      BY <1>1, <2>1
    <3>2. Start' = 0
      <4>1. Len(responses') = 0 /\ 0 * Padded = 0
        BY <1>1, <1>3, <1>6
      <4> QED BY <1>5, <4>1 DEF Start
    <3>3. position' < IndexTiles'
      BY <1>1, <1>3, <1>5, <1>6, <3>1
    <3>4. Start' \in Nat /\ Padded' \in Nat /\ position' = Start'
      BY <1>1, <1>3, <1>5, <1>6, <3>2
    <3> QED BY <1>1, <1>3, <1>7, <2>1, <3>3, <3>4, StartTree
  <2>2. CASE phase' # "reading"
    BY <1>1, <2>2 DEF TreeInv
  <2> QED BY <2>1, <2>2
<1>9. ResponsesInv'
  <2>1. Len(responses') = 0 /\ ~damaged' /\ phase' \notin {"decoded", "rejected"}
    BY <1>1, <1>3
  <2>2. phase' = "answered" => Answered' = 0
    <3> SUFFICES ASSUME phase' = "answered" PROVE Answered' = 0
      OBVIOUS
    <3>1. IndexTiles = 0
      BY <1>1
    <3>2. Answered = 0
      BY <1>6, <3>1, EmptyIndex DEF Answered
    <3> QED BY <1>1, <3>2, SameGroups
  <2> QED BY <2>1, <2>2 DEF ResponsesInv
<1>10. claimed = Len(database) => phase' # "refused"
  BY <1>1 DEF CountMatches, IndexTiles
<1>11. AnswerInv'
  <2>1. phase' \in {"refused", "answered", "reading"}
    BY <1>1
  <2>2. claimed' = claimed /\ database' = database
    BY <1>1 DEF input
  <2>3. DistancesInIndexOrder'
    BY <1>10, <2>1, <2>2 DEF DistancesInIndexOrder
  <2> QED BY <1>1, <1>3, <2>3 DEF AnswerInv
<1>12. KeysInv'
  BY <1>1, <1>2, KeysKept
<1> QED BY <1>7, <1>8, <1>9, <1>11, <1>12 DEF LayoutInv

LEMMA CompareKeeps == ASSUME LayoutInv, CompareOne PROVE LayoutInv'
<1>a. PICK d : d = DistanceTile(ReplicatedQuery(queryVector), ReplicatedQuery(database[1]), 1)[0]
  OBVIOUS
<1>1. /\ phase = "called" /\ phase' = "compared" /\ database # <<>> /\ answer' = <<d>>
      /\ UNCHANGED input /\ damaged' = damaged /\ position' = position /\ carried' = carried
      /\ stack' = stack /\ responses' = responses
      /\ rotations' = rotations \cup {LanesPerRow * 2^i : i \in Doublings}
  BY <1>a DEF CompareOne
<1>2. LayoutTyped /\ KeysInv /\ AnswerInv
  BY DEF LayoutInv
<1>3. position = 0 /\ carried = <<>> /\ stack = <<>> /\ responses = <<>> /\ ~damaged
  BY <1>1, <1>2 DEF AnswerInv
<1>4. Inputs /\ Dimension
  BY <1>2 DEF LayoutTyped, Inputs
<1>5. Padded' = Padded /\ IndexTiles' = IndexTiles /\ Tile' = Tile /\ Inputs' = Inputs
  BY <1>1, SameLayout
<1>6. LayoutTyped'
  BY <1>1, <1>2, <1>5 DEF LayoutTyped, Phases
<1>7. TreeInv' /\ ResponsesInv'
  BY <1>1, <1>3 DEF TreeInv, ResponsesInv
<1>8. d = PlainDistance(queryVector, database[1])
  <2>1. database[1] \in [1 .. embedLen -> {0, 1}] /\ queryVector \in [1 .. embedLen -> {0, 1}]
    <3>1. Len(database) > 0
      BY <1>1, <1>4 DEF Inputs
    <3> QED BY <1>4, <3>1, LengthFacts DEF Inputs
  <2>2. PICK x, y : x = ReplicatedQuery(queryVector) /\ y = ReplicatedQuery(database[1])
    OBVIOUS
  <2>3. PICK z : z = 0
    OBVIOUS
  <2>4. z \in {0, 1} /\ z \in 0 .. LanesPerRow - 1 /\ z \in 0 .. Padded - 1
    BY <1>4, <2>3, LayoutFacts
  <2>5. Binary(x) /\ Lane(x, z, z, queryVector)
    BY <1>4, <2>1, <2>2, <2>4, QueryLanes
  <2>6. Binary(y) /\ Lane(y, z, z, database[1])
    BY <1>4, <2>1, <2>2, <2>4, QueryLanes
  <2>7. PICK one : one = 1
    OBVIOUS
  <2>8. DistanceTile(x, y, one)[SlotAt(z, z, z)]
          = IF z = 0 /\ z * LanesPerRow + z < one
            THEN PlainDistance(queryVector, database[1]) ELSE 0
    BY <1>4, <2>1, <2>4, <2>5, <2>6, <2>7, one \in Int, LaneDistance
  <2>9. SlotAt(z, z, z) = 0 /\ z * LanesPerRow + z = 0
    BY <1>4, <2>3, LayoutFacts, RingFacts DEF SlotAt
  <2> QED BY <1>a, <2>2, <2>3, <2>7, <2>8, <2>9
<1>9. AnswerInv'
  <2>1. PlainDistance(queryVector, database[1])' = PlainDistance(queryVector, database[1])
    BY <1>1 DEF PlainDistance, input
  <2>2. DistancesInIndexOrder'
    BY <1>1, <1>8, <2>1 DEF DistancesInIndexOrder
  <2> QED BY <1>1, <1>3, <2>2 DEF AnswerInv
<1>10. KeysInv'
  BY <1>1, <1>2, <1>4, CircuitKeys, KeysAdded
<1> QED BY <1>6, <1>7, <1>9, <1>10 DEF LayoutInv

LEMMA DamageKeeps == ASSUME LayoutInv, Damage PROVE LayoutInv'
<1>1. /\ phase = "answered" /\ phase' = phase /\ ~damaged /\ damaged' = TRUE
      /\ responses # <<>>
      /\ UNCHANGED input /\ position' = position /\ carried' = carried
      /\ stack' = stack /\ rotations' = rotations
  BY DEF Damage
<1>2. LayoutTyped /\ KeysInv /\ ResponsesInv
  BY DEF LayoutInv
<1>3. Len(responses) = Answered
  BY <1>1, <1>2 DEF ResponsesInv
<1>4. /\ responses' \in Seq(Content)
      /\ \/ Len(responses') = Answered - 1
         \/ /\ Len(responses') = Answered
            /\ \E r \in 1 .. Len(responses') : responses'[r] = Garbage
  <2>1. CASE responses' = Front(responses)
    BY <1>1, <1>2, <1>3, <2>1, TopOf DEF LayoutTyped
  <2>2. ASSUME NEW r \in DOMAIN responses, responses' = [responses EXCEPT ![r] = Garbage]
        PROVE  /\ responses' \in Seq(Content) /\ Len(responses') = Answered
               /\ responses'[r] = Garbage /\ r \in 1 .. Len(responses')
    <3>1. Garbage \in Content
      <4>1. \A s \in Slots : embedLen + 1 + s \in Int
        BY <1>2, RingFacts DEF LayoutTyped, Inputs, Dimension, Slots
      <4> QED BY <4>1 DEF Garbage, Content
    <3> HIDE DEF Garbage
    <3>2. responses \in Seq(Content)
      BY <1>2 DEF LayoutTyped
    <3> QED BY <1>3, <2>2, <3>1, <3>2
  <2>3. \/ responses' = Front(responses)
        \/ \E r \in DOMAIN responses : responses' = [responses EXCEPT ![r] = Garbage]
    BY DEF Damage, Garbage
  <2> QED BY <2>1, <2>2, <2>3
<1>5. Padded' = Padded /\ IndexTiles' = IndexTiles /\ Tile' = Tile /\ Inputs' = Inputs
  BY <1>1, SameLayout
<1>6. LayoutTyped'
  BY <1>1, <1>2, <1>4, <1>5 DEF LayoutTyped
<1>7. TreeInv'
  BY <1>1 DEF TreeInv
<1>8. ResponsesInv'
  <2>1. Answered' = Answered /\ Garbage' = Garbage
    BY <1>1, SameGroups
  <2> QED BY <1>1, <1>4, <2>1 DEF ResponsesInv
<1>9. AnswerInv'
  BY <1>1 DEF AnswerInv, DistancesInIndexOrder
<1>10. KeysInv'
  BY <1>1, <1>2, KeysKept
<1> QED BY <1>6, <1>7, <1>8, <1>9, <1>10 DEF LayoutInv

(* Damage shows: a response is missing, or a distance is out of range.     *)
LEMMA DamageShows ==
  ASSUME Inputs, NEW r \in 1 .. Len(responses), Len(responses) = Answered,
         responses[r] = Garbage
  PROVE  \E i \in 1 .. Len(database) : ~InRange(DecodedDistances[i])
<1>a. PICK p : p = (r - 1) * SlotCount
  OBVIOUS
<1>b. PICK z : z = 0
  OBVIOUS
<1>0. /\ Dimension /\ Len(database) \in Nat /\ Answered \in Nat
      /\ SlotCount \in Nat /\ SlotCount > 0 /\ embedLen \in Int
      /\ CeilDiv(Len(database), SlotCount) = Answered
  BY Sizes, GroupCount, LengthFacts DEF Inputs
<1>1. r \in Int /\ 1 <= r /\ r <= Answered
  BY <1>0
<1>2. p \in Nat /\ p < Len(database)
  <2>1. p \in Int /\ p >= 0
    BY <1>0, <1>1, <1>a, TimesSign
  <2>2. (r - 1) * SlotCount <= (Answered - 1) * SlotCount
    BY <1>0, <1>1, TimesMonotone
  <2>3. (Answered - 1) * SlotCount < Len(database) /\ (Answered - 1) * SlotCount \in Int
    BY <1>0, CeilIs
  <2> QED BY <1>0, <1>a, <2>1, <2>2, <2>3
<1>3. p \div SlotCount = r - 1 /\ p % SlotCount = z
  <2>1. PICK k : k = r - 1
    OBVIOUS
  <2>2. k \in Int /\ p = k * SlotCount + z
    BY <1>1, <1>2, <1>a, <1>b, <2>1
  <2>3. SlotCount \in Int /\ z \in Int /\ 0 <= z /\ z < SlotCount
    BY <1>0, <1>b
  <2>4. (k * SlotCount + z) \div SlotCount = k /\ (k * SlotCount + z) % SlotCount = z
    BY <1>0, <2>2, <2>3, DivModUnique
  <2> QED BY <2>1, <2>2, <2>4
<1>4. SlotOfDistance(z) \in Slots
  <2>1. z \in 0 .. SlotCount - 1
    BY <1>0, <1>b
  <2> QED BY <1>0, <2>1, ReadSlot, SlotAtIs
<1>5. Garbage[SlotOfDistance(z)] > embedLen
  <2>1. PICK s \in Slots : s = SlotOfDistance(z)
    BY <1>4
  <2>2. Garbage[s] = embedLen + 1 + s /\ s >= 0 /\ s \in Int
    BY RingFacts DEF Garbage, Slots
  <2> QED BY <1>0, <2>1, <2>2
<1>6. PICK i : i = p + 1
  OBVIOUS
<1>7. i \in 1 .. Len(database) /\ i - 1 = p
  BY <1>0, <1>2, <1>6
<1>8. DecodedDistances[i] = responses[(r - 1) + 1][SlotOfDistance(z)]
  BY <1>3, <1>7 DEF DecodedDistances
<1>9. DecodedDistances[i] > embedLen
  BY <1>1, <1>5, <1>8
<1>10. ~InRange(DecodedDistances[i])
  BY <1>0, <1>9 DEF InRange
<1> QED BY <1>7, <1>10

LEMMA DecodeKeeps == ASSUME LayoutInv, DecodeTiles PROVE LayoutInv'
<1>a. PICK decoded : decoded = DecodedDistances
  OBVIOUS
<1>b. PICK valid : /\ valid \in BOOLEAN
                   /\ valid <=> /\ Len(responses) = CeilDiv(Len(database), SlotCount)
                                /\ \A i \in 1 .. Len(database) : InRange(decoded[i])
  OBVIOUS
<1>1. /\ phase = "answered"
      /\ UNCHANGED input /\ position' = position /\ carried' = carried /\ damaged' = damaged
      /\ stack' = stack /\ rotations' = rotations /\ responses' = responses
      /\ \/ valid /\ phase' = "decoded" /\ answer' = decoded
         \/ ~valid /\ phase' = "rejected"
  <2>1. DOMAIN DecodedDistances = 1 .. Len(database)
    BY DEF DecodedDistances
  <2> QED BY <1>a, <1>b, <2>1 DEF DecodeTiles, CountMatches
<1>2. LayoutTyped /\ KeysInv /\ ResponsesInv
  BY DEF LayoutInv
<1>3. Inputs /\ Answered \in Nat /\ CeilDiv(Len(database), SlotCount) = Answered
  BY <1>2, GroupCount DEF LayoutTyped
<1>4. ~damaged => /\ valid
                  /\ \A i \in 1 .. Len(database) : decoded[i] = DistanceAt(i - 1)
  <2> SUFFICES ASSUME ~damaged
               PROVE  valid /\ \A i \in 1 .. Len(database) : decoded[i] = DistanceAt(i - 1)
    OBVIOUS
  <2>1. Len(responses) = Answered /\ \A r \in 1 .. Len(responses) : Group(r)
    BY <1>1, <1>2 DEF ResponsesInv
  <2>2. \A i \in 1 .. Len(database) :
          decoded[i] = DistanceAt(i - 1) /\ decoded[i] \in 0 .. embedLen
    BY <1>3, <1>a, <2>1, Decoded
  <2> QED BY <1>3, <1>b, <2>1, <2>2 DEF InRange
<1>5. damaged => ~valid
  <2> SUFFICES ASSUME damaged PROVE ~valid
    OBVIOUS
  <2>1. \/ Len(responses) = Answered - 1
        \/ /\ Len(responses) = Answered
           /\ \E r \in 1 .. Len(responses) : responses[r] = Garbage
    BY <1>2 DEF ResponsesInv
  <2>2. CASE Len(responses) = Answered - 1
    BY <1>3, <1>b, <2>2
  <2>3. ASSUME Len(responses) = Answered, NEW r \in 1 .. Len(responses), responses[r] = Garbage
        PROVE  ~valid
    <3>1. \E i \in 1 .. Len(database) : ~InRange(decoded[i])
      BY <1>3, <1>a, <2>3, DamageShows
    <3> QED BY <1>b, <3>1
  <2> QED BY <2>1, <2>2, <2>3
<1>6. Padded' = Padded /\ IndexTiles' = IndexTiles /\ Tile' = Tile /\ Inputs' = Inputs
  BY <1>1, SameLayout
<1>7. LayoutTyped'
  BY <1>1, <1>2, <1>6 DEF LayoutTyped, Phases
<1>8. TreeInv'
  BY <1>1 DEF TreeInv
<1>9. ResponsesInv'
  <2>1. /\ Answered' = Answered /\ Garbage' = Garbage
        /\ \A r : Group(r)' <=> Group(r)
    BY <1>1, SameGroups
  <2>2. damaged => phase' = "rejected"
    BY <1>1, <1>5
  <2>3. damaged' => /\ phase' = "rejected"
                    /\ \/ Len(responses') = Answered' - 1
                       \/ /\ Len(responses') = Answered'
                          /\ \E r \in 1 .. Len(responses') : responses'[r] = Garbage'
    BY <1>1, <1>2, <2>1, <2>2 DEF ResponsesInv
  <2>4. ~damaged' => /\ \A r \in 1 .. Len(responses') : Group(r)'
                     /\ Len(responses') = Answered'
    BY <1>1, <1>2, <2>1 DEF ResponsesInv
  <2> QED BY <2>3, <2>4 DEF ResponsesInv
<1>10. AnswerInv'
  <2>1. \A i \in 1 .. Len(database) : i <= claimed /\ ~damaged =>
          decoded[i] = PlainDistance(queryVector, database[i])
    <3> SUFFICES ASSUME NEW i \in 1 .. Len(database), i <= claimed, ~damaged
                 PROVE  decoded[i] = PlainDistance(queryVector, database[i])
      OBVIOUS
    <3>1. decoded[i] = DistanceAt(i - 1)
      BY <1>4
    <3>2. Len(database) \in Nat /\ claimed \in Nat
      BY <1>3, LengthFacts
    <3>3. i - 1 < claimed /\ i - 1 < Len(database) /\ (i - 1) + 1 = i
      BY <3>2
    <3>4. DistanceAt(i - 1) = PlainDistance(queryVector, database[(i - 1) + 1])
      BY <3>2, <3>3 DEF DistanceAt
    <3> QED BY <3>1, <3>3, <3>4
  <2>2. \A v, w : PlainDistance(v, w)' = PlainDistance(v, w)
    BY <1>1 DEF PlainDistance, input
  <2>3. claimed' = claimed /\ database' = database /\ queryVector' = queryVector
    BY <1>1 DEF input
  <2>4. phase' = "decoded" => ~damaged' /\ answer' = decoded
    BY <1>1, <1>5
  <2>5. phase' = "rejected" => damaged'
    BY <1>1, <1>4
  <2>6. phase' = "decoded" => \A i \in 1 .. Len(database') :
          i <= claimed' => answer'[i] = PlainDistance(queryVector, database[i])'
    BY <1>1, <2>1, <2>2, <2>3, <2>4
  <2>7. phase' \in {"decoded", "rejected"}
    BY <1>1
  <2>8. DistancesInIndexOrder'
    BY <2>4, <2>5, <2>6, <2>7 DEF DistancesInIndexOrder
  <2> QED BY <2>7, <2>8 DEF AnswerInv
<1>11. KeysInv'
  BY <1>1, <1>2, KeysKept
<1> QED BY <1>7, <1>8, <1>9, <1>10, <1>11 DEF LayoutInv

LEMMA LayoutStutters == ASSUME LayoutInv, UNCHANGED packedVars PROVE LayoutInv'
<1>1. /\ UNCHANGED input /\ phase' = phase /\ position' = position /\ carried' = carried
      /\ stack' = stack /\ responses' = responses /\ rotations' = rotations
      /\ damaged' = damaged /\ answer' = answer
  BY DEF packedVars, input
<1>2. LayoutTyped /\ TreeInv /\ ResponsesInv /\ AnswerInv /\ KeysInv
  BY DEF LayoutInv
<1>3. Padded' = Padded /\ IndexTiles' = IndexTiles /\ Tile' = Tile /\ Inputs' = Inputs
  BY <1>1, SameLayout
<1>4. LayoutTyped'
  BY <1>1, <1>2, <1>3 DEF LayoutTyped
<1>5. TreeInv'
  <2> SUFFICES ASSUME phase \in {"reading", "combining"} PROVE TreeInv'
    BY <1>1 DEF TreeInv
  <2>1. PICK starts : StackCovers(starts) /\ CarriedAt(starts[Len(stack) + 1])
    BY <1>2 DEF TreeInv, Covers
  <2>2. StackCovers(starts)' /\ Start' = Start
    BY <1>1, <2>1, StackKept
  <2>3. PICK top : top = starts[Len(stack) + 1]
    OBVIOUS
  <2>4. CarriedAt(top)'
    <3>1. carried # <<>> => Holds(carried.slots, top, position - top)'
      BY <1>1, <2>1, <2>3, SameDistances DEF CarriedAt
    <3> QED BY <1>1, <2>1, <2>3, <3>1 DEF CarriedAt
  <2>5. Covers(starts)'
    BY <1>1, <2>2, <2>3, <2>4 DEF Covers, CarriedAt
  <2> QED BY <1>1, <1>2, <1>3, <2>2, <2>5 DEF TreeInv
<1>6. ResponsesInv'
  BY <1>1, <1>2, SameGroups DEF ResponsesInv
<1>7. AnswerInv'
  <2>1. \A v, w : PlainDistance(v, w)' = PlainDistance(v, w)
    BY <1>1 DEF PlainDistance, input
  <2>2. claimed' = claimed /\ database' = database /\ queryVector' = queryVector
    BY <1>1 DEF input
  <2>3. DistancesInIndexOrder'
    BY <1>1, <1>2, <2>1, <2>2 DEF AnswerInv, DistancesInIndexOrder
  <2> QED BY <1>1, <1>2, <2>3 DEF AnswerInv
<1>8. KeysInv'
  BY <1>1, <1>2, KeysKept
<1> QED BY <1>4, <1>5, <1>6, <1>7, <1>8 DEF LayoutInv

LEMMA LayoutStep == LayoutInv /\ [PackedNext]_packedVars => LayoutInv'
<1> SUFFICES ASSUME LayoutInv, [PackedNext]_packedVars PROVE LayoutInv'
  OBVIOUS
<1>1. CASE Accept
  BY <1>1, AcceptKeeps
<1>2. CASE CompareOne
  BY <1>2, CompareKeeps
<1>3. CASE ReadTile
  BY <1>3, ReadKeeps
<1>4. CASE MergeTile
  BY <1>4, MergeKeeps
<1>5. CASE PushTile
  BY <1>5, PushKeeps
<1>6. CASE StartCombining
  BY <1>6, CombiningKeeps
<1>7. CASE CombineLeft
  BY <1>7, CombineKeeps
<1>8. CASE Respond
  BY <1>8, RespondKeeps
<1>9. CASE Damage
  BY <1>9, DamageKeeps
<1>10. CASE DecodeTiles
  BY <1>10, DecodeKeeps
<1>11. CASE UNCHANGED packedVars
  BY <1>11, LayoutStutters
<1> QED
  BY <1>1, <1>2, <1>3, <1>4, <1>5, <1>6, <1>7, <1>8, <1>9, <1>10, <1>11 DEF PackedNext

(* What the invariant says of the named properties.                        *)
LEMMA LayoutTypes == ASSUME LayoutInv PROVE PackedTypeOK
<1>1. LayoutTyped /\ TreeInv /\ ResponsesInv /\ AnswerInv
  BY DEF LayoutInv
<1>2. Inputs /\ Dimension
  BY <1>1 DEF LayoutTyped, Inputs
<1>3. \A i \in DOMAIN stack : stack[i].size \in 1 .. Padded
  <2>1. \A i \in DOMAIN stack : stack[i] \in Tile
    BY <1>1 DEF LayoutTyped
  <2> QED BY <2>1 DEF Tile
<1>4. carried # <<>> => carried.size \in 1 .. Padded
  BY <1>1 DEF LayoutTyped, Tile
<1>5. Len(responses) <= CeilDiv(Len(database), SlotCount)
  <2>1. Answered \in Nat /\ CeilDiv(Len(database), SlotCount) = Answered
    BY <1>2, GroupCount
  <2>2. CASE phase \in {"called", "refused", "compared"}
    BY <1>1, <2>1, <2>2 DEF AnswerInv
  <2>3. CASE phase \in {"answered", "decoded", "rejected"}
    <3>1. Len(responses) = Answered \/ Len(responses) = Answered - 1
      BY <1>1, <2>3 DEF ResponsesInv, LayoutTyped
    <3> QED BY <2>1, <3>1
  <2>4. CASE phase \in {"reading", "combining"}
    <3>1. PICK starts : StackCovers(starts) /\ CarriedAt(starts[Len(stack) + 1])
      BY <1>1, <2>4 DEF TreeInv, Covers
    <3>2. /\ Padded \in Nat /\ Padded > 0 /\ Len(responses) \in Nat /\ Start \in Nat
          /\ position \in Nat /\ IndexTiles \in Nat /\ position <= IndexTiles /\ Len(stack) \in Nat
      BY <1>1, <2>4, TreeFacts
    <3>3. PICK top : top = starts[Len(stack) + 1]
      OBVIOUS
    <3>4. top \in Nat /\ top >= Start
      BY <3>1, <3>2, <3>3, Len(stack) + 1 \in 1 .. Len(stack) + 1 DEF StackCovers
    <3>5. top <= position
      BY <3>1, <3>2, <3>3, <3>4 DEF CarriedAt
    <3>6. PICK limit : limit = Answered * Padded
      OBVIOUS
    <3>7. IndexTiles <= limit /\ limit \in Int
      BY <1>2, <2>1, <3>2, <3>6, GroupCount
    <3>8. Start <= limit
      BY <3>2, <3>4, <3>5, <3>7
    <3>9. Len(responses) * Padded < (Answered + 1) * Padded
      <4>1. (Answered + 1) * Padded = limit + Padded
        BY <2>1, <3>2, <3>6
      <4> QED BY <3>2, <3>7, <3>8, <4>1 DEF Start
    <3>10. Len(responses) < Answered + 1
      BY <2>1, <3>2, <3>9, TimesCancel, Answered + 1 \in Int
    <3> QED BY <2>1, <3>2, <3>10
  <2> QED BY <1>1, <2>2, <2>3, <2>4 DEF LayoutTyped, Phases
<1> QED BY <1>1, <1>2, <1>3, <1>4, <1>5 DEF PackedTypeOK, LayoutTyped, Inputs, Dimension, Phases

LEMMA LayoutTree == ASSUME LayoutInv PROVE TreeHoldsTilesRead
<1> SUFFICES ASSUME phase \in {"reading", "combining"} PROVE TreeHoldsTilesRead
  BY DEF TreeHoldsTilesRead
<1>a. PICK n : n = Len(stack)
  OBVIOUS
<1>1. LayoutTyped /\ TreeInv
  BY DEF LayoutInv
<1>2. PICK starts : StackCovers(starts) /\ CarriedAt(starts[n + 1])
  BY <1>1, <1>a DEF TreeInv, Covers
<1>3. n \in Nat
  BY <1>1, <1>a, TreeFacts
<1> DEFINE Sums(f) == f = [i \in 1 .. (Len(stack) + 1) |->
                             IF i = 1 THEN Len(responses) * Padded
                             ELSE f[i - 1] + stack[i - 1].size]
           StartOf == CHOOSE f : Sums(f)
<1>4. Sums([i \in 1 .. n + 1 |-> starts[i]])
  <2>1. ASSUME NEW i \in 1 .. n + 1, i # 1
        PROVE  starts[i] = starts[i - 1] + stack[i - 1].size /\ i - 1 \in 1 .. n + 1
    <3>1. PICK j : j = i - 1
      OBVIOUS
    <3>2. j \in 1 .. n /\ j + 1 = i /\ j \in 1 .. n + 1
      BY <1>3, <2>1, <3>1
    <3>3. starts[j + 1] = starts[j] + stack[j].size
      BY <1>2, <1>a, <3>2 DEF StackCovers
    <3> QED BY <3>1, <3>2, <3>3
  <2>2. starts[1] = Len(responses) * Padded
    BY <1>2 DEF StackCovers, Start
  <2>3. PICK f : f = [i \in 1 .. n + 1 |-> starts[i]]
    OBVIOUS
  <2>4. \A i \in 1 .. n + 1 :
          f[i] = IF i = 1 THEN Len(responses) * Padded ELSE f[i - 1] + stack[i - 1].size
    BY <2>1, <2>2, <2>3
  <2>5. f = [i \in 1 .. n + 1 |->
               IF i = 1 THEN Len(responses) * Padded ELSE f[i - 1] + stack[i - 1].size]
    BY <2>3, <2>4
  <2> QED BY <1>a, <2>3, <2>5
<1>5. Sums(StartOf)
  <2> HIDE DEF Sums
  <2> QED BY <1>4, Zenon
<1>6. PICK f : f = StartOf
  OBVIOUS
<1>7. \A i \in 1 .. n + 1 :
        f[i] = IF i = 1 THEN Len(responses) * Padded ELSE f[i - 1] + stack[i - 1].size
  BY <1>5, <1>6, <1>a
<1>8. \A i \in 1 .. n + 1 : f[i] = starts[i]
  <2> DEFINE S == {i \in Nat : i + 1 <= n + 1 => f[i + 1] = starts[i + 1]}
  <2>1. 0 \in S
    <3>1. f[1] = starts[1] /\ 0 + 1 = 1
      BY <1>2, <1>3, <1>7, 1 \in 1 .. n + 1 DEF StackCovers, Start
    <3> QED BY <3>1
  <2>2. \A i \in Nat : i \in S => i + 1 \in S
    <3> SUFFICES ASSUME NEW i \in Nat, i \in S, (i + 1) + 1 <= n + 1
                 PROVE  f[(i + 1) + 1] = starts[(i + 1) + 1]
      OBVIOUS
    <3>1. PICK j : j = i + 1
      OBVIOUS
    <3>2. j \in 1 .. n /\ j + 1 \in 1 .. n + 1 /\ j + 1 # 1 /\ (j + 1) - 1 = j
      BY <1>3, <3>1
    <3>3. f[j] = starts[j]
      BY <1>3, <3>1
    <3>4. f[j + 1] = f[j] + stack[j].size
      BY <1>7, <3>2
    <3>5. starts[j + 1] = starts[j] + stack[j].size
      BY <1>2, <1>a, <3>2 DEF StackCovers
    <3> QED BY <3>1, <3>3, <3>4, <3>5
  <2>3. \A i \in Nat : i \in S
    <3> HIDE DEF S
    <3> QED BY <2>1, <2>2, SetInduction
  <2> SUFFICES ASSUME NEW i \in 1 .. n + 1 PROVE f[i] = starts[i]
    OBVIOUS
  <2>4. PICK j : j = i - 1
    OBVIOUS
  <2>5. j \in Nat /\ j + 1 = i /\ j + 1 <= n + 1
    BY <1>3, <2>4
  <2>6. j \in S
    BY <2>3, <2>5
  <2> QED BY <2>5, <2>6
<1>9. \A i \in DOMAIN stack :
        /\ stack[i].size \in {2^k : k \in 0 .. 15}
        /\ i > 1 => stack[i].size < stack[i - 1].size
        /\ Holds(stack[i].slots, f[i], stack[i].size)
  <2> SUFFICES ASSUME NEW i \in 1 .. n
               PROVE  /\ stack[i].size \in {2^k : k \in 0 .. 15}
                      /\ i > 1 => stack[i].size < stack[i - 1].size
                      /\ Holds(stack[i].slots, f[i], stack[i].size)
    BY <1>1, <1>a DEF LayoutTyped
  <2>1. /\ Power(stack[i].size)
        /\ i > 1 => stack[i].size < stack[i - 1].size
        /\ Holds(stack[i].slots, starts[i], stack[i].size)
    BY <1>2, <1>a DEF StackCovers
  <2>2. PICK k \in 0 .. 15 : stack[i].size = Two[k]
    BY <2>1 DEF Power
  <2>3. stack[i].size = 2^k
    BY <2>2, TwoTo, k \in 0 .. 16
  <2>4. stack[i].size \in {2^j : j \in 0 .. 15}
    BY <2>3
  <2>5. f[i] = starts[i]
    BY <1>3, <1>8, i \in 1 .. n + 1
  <2> QED BY <2>1, <2>4, <2>5
<1>10. /\ carried = <<>> => f[Len(stack) + 1] = position
       /\ carried # <<>> => Holds(carried.slots, f[Len(stack) + 1], position - f[Len(stack) + 1])
  BY <1>2, <1>3, <1>8, <1>a, n + 1 \in 1 .. n + 1 DEF CarriedAt
<1>11. /\ \A i \in DOMAIN stack :
            /\ stack[i].size \in {2^k : k \in 0 .. 15}
            /\ i > 1 => stack[i].size < stack[i - 1].size
            /\ Holds(stack[i].slots, StartOf[i], stack[i].size)
       /\ IF carried = <<>> THEN StartOf[Len(stack) + 1] = position
          ELSE Holds(carried.slots, StartOf[Len(stack) + 1], position - StartOf[Len(stack) + 1])
  <2> HIDE DEF StartOf
  <2> QED BY <1>6, <1>9, <1>10
<1> QED BY <1>11, Zenon DEF TreeHoldsTilesRead

LEMMA LayoutClear == ASSUME LayoutInv PROVE OtherSlotsClear
<1> SUFFICES ASSUME ~damaged, NEW r \in DOMAIN responses, NEW s \in Slots,
                    (r - 1) * SlotCount + BlockOf(s) * TileCapacity + LaneOfSlot(s) >= claimed
             PROVE  responses[r][s] = 0
  BY DEF OtherSlotsClear
<1>1. LayoutTyped /\ ResponsesInv
  BY DEF LayoutInv
<1>2. Inputs /\ Dimension /\ r \in 1 .. Len(responses) /\ r \in Int
  BY <1>1 DEF LayoutTyped, Inputs
<1>3. PICK tiles \in Nat : Holds(responses[r], (r - 1) * Padded, tiles)
  <2>1. Group(r)
    BY <1>1, <1>2 DEF ResponsesInv
  <2> QED BY <2>1 DEF Group
<1>4. PICK h \in {0, 1}, b \in 0 .. Padded - 1, l \in 0 .. LanesPerRow - 1 : s = SlotAt(h, b, l)
  BY <1>2, EverySlot
<1>5. BlockOf(s) = b /\ LaneOfSlot(s) = h * LanesPerRow + l
  BY <1>2, <1>4, SlotAtIs
<1>6. PICK lane : lane = LaneOfSlot(s)
  OBVIOUS
<1>7. PICK place : place = ((r - 1) * Padded + b) * TileCapacity + lane
  OBVIOUS
<1>8. place = (r - 1) * SlotCount + b * TileCapacity + lane
  <2>1. /\ Padded \in Nat /\ TileCapacity \in Nat /\ SlotCount = Padded * TileCapacity
    BY <1>2, Sizes
  <2>2. PICK k : k = r - 1
    OBVIOUS
  <2>3. (k * Padded + b) * TileCapacity = k * SlotCount + b * TileCapacity
    BY <1>2, <2>1, <2>2
  <2> QED BY <1>7, <2>2, <2>3
<1>9. place >= claimed
  BY <1>5, <1>6, <1>8
<1>10. responses[r][s] = IF b < tiles THEN DistanceAt(place) ELSE 0
  BY <1>3, <1>5, <1>6, <1>7 DEF Holds
<1> QED BY <1>9, <1>10 DEF DistanceAt

(* The search by the packed layout is exact: for every ring, every          *)
(* dimension up to a row, every query, every index and every count, each    *)
(* distance is where the client looks for it, the carry tree holds the      *)
(* tiles read, every rotation has its key and no other slot holds anything. *)
THEOREM LayoutHolds == PackedSpec => []LayoutIsExact
<1>1. PackedInit => LayoutInv
  BY FirstLayout
<1>2. LayoutInv /\ [PackedNext]_packedVars => LayoutInv'
  BY LayoutStep
<1>3. LayoutInv => LayoutIsExact
  <2> SUFFICES ASSUME LayoutInv PROVE LayoutIsExact
    OBVIOUS
  <2>1. PackedTypeOK /\ TreeHoldsTilesRead /\ OtherSlotsClear
    BY LayoutTypes, LayoutTree, LayoutClear
  <2>2. DistancesInIndexOrder /\ RotationsHaveKeys
    BY DEF LayoutInv, AnswerInv, KeysInv
  <2> QED BY <2>1, <2>2 DEF LayoutIsExact
<1> QED BY <1>1, <1>2, <1>3, PTL DEF PackedSpec

-----------------------------------------------------------------------------

(* The packed wire.                                                        *)

(* What the recursive definitions of powers and numbers say.               *)
LEMMA PowersOfTwo ==
  /\ PowerOfTwo[0] = 1
  /\ \A b \in 0 .. MaxBits : PowerOfTwo[b] \in Nat \ {0}
  /\ \A b \in 0 .. MaxBits - 1 : PowerOfTwo[b + 1] = 2 * PowerOfTwo[b]
<1> DEFINE Table(f, m) == f = [b \in 0 .. m |-> IF b = 0 THEN 1 ELSE 2 * f[b - 1]]
<1>1. MaxBits \in Nat \ {0}
  BY PackedAssumption
<1>2. \E f : Table(f, MaxBits)
  <2> DEFINE S == {m \in Nat : \E f : Table(f, m)}
  <2>1. 0 \in S
    <3>1. Table([b \in 0 .. 0 |-> 1], 0)
      OBVIOUS
    <3> QED BY <3>1
  <2>2. ASSUME NEW m \in Nat, m \in S PROVE m + 1 \in S
    <3>1. PICK f : Table(f, m)
      BY <2>2
    <3> DEFINE g == [b \in 0 .. m + 1 |-> IF b = m + 1 THEN 2 * f[m] ELSE f[b]]
    <3>2. Table(g, m + 1)
      <4>1. ASSUME NEW b \in 0 .. m + 1
            PROVE  g[b] = IF b = 0 THEN 1 ELSE 2 * g[b - 1]
        BY <3>1
      <4> QED BY <4>1
    <3> HIDE DEF Table, g
    <3> QED BY <3>2, m + 1 \in Nat
  <2> HIDE DEF S
  <2>3. MaxBits \in S
    BY <1>1, <2>1, <2>2, SetInduction
  <2> QED BY <2>3 DEF S
<1>3. Table(PowerOfTwo, MaxBits)
  BY <1>2, Zenon DEF PowerOfTwo
<1>4. PowerOfTwo[0] = 1 /\ \A b \in 0 .. MaxBits - 1 : PowerOfTwo[b + 1] = 2 * PowerOfTwo[b]
  BY <1>1, <1>3
<1>5. \A b \in 0 .. MaxBits : PowerOfTwo[b] \in Nat \ {0}
  <2> DEFINE S == {m \in Nat : m <= MaxBits => PowerOfTwo[m] \in Nat \ {0}}
  <2>1. 0 \in S
    BY <1>4
  <2>2. ASSUME NEW m \in Nat, m \in S PROVE m + 1 \in S
    BY <1>1, <1>4, <2>2
  <2> HIDE DEF S
  <2>3. \A m \in Nat : m \in S
    BY <2>1, <2>2, SetInduction
  <2> QED BY <1>1, <2>3 DEF S
<1> QED BY <1>4, <1>5

LEMMA PowersGrow ==
  ASSUME NEW a \in 0 .. MaxBits, NEW b \in 0 .. MaxBits, a <= b
  PROVE  PowerOfTwo[a] <= PowerOfTwo[b]
<1> DEFINE S == {m \in Nat : a <= m /\ m <= MaxBits => PowerOfTwo[a] <= PowerOfTwo[m]}
<1>0. MaxBits \in Nat
  BY PackedAssumption
<1>1. 0 \in S
  BY PowersOfTwo
<1>2. ASSUME NEW m \in Nat, m \in S PROVE m + 1 \in S
  <2> SUFFICES ASSUME a <= m + 1, m + 1 <= MaxBits PROVE PowerOfTwo[a] <= PowerOfTwo[m + 1]
    OBVIOUS
  <2>1. /\ PowerOfTwo[m] \in Nat /\ PowerOfTwo[m + 1] \in Nat /\ PowerOfTwo[a] \in Nat
        /\ PowerOfTwo[m + 1] = 2 * PowerOfTwo[m]
    BY <1>0, PowersOfTwo
  <2>2. CASE a = m + 1
    BY <2>1, <2>2
  <2>3. CASE a <= m
    BY <1>0, <1>2, <2>1, <2>3
  <2> QED BY <1>0, <2>2, <2>3
<1> HIDE DEF S
<1>3. b \in S
  BY <1>0, <1>1, <1>2, SetInduction
<1> QED BY <1>0, <1>3 DEF S

(* The numbers that the bits of a set below some position make.            *)
NumbersBelow(f, S) ==
  f = [n \in 0 .. MaxBits |->
         IF n = 0 THEN 0 ELSE f[n - 1] + (IF n - 1 \in S THEN PowerOfTwo[n - 1] ELSE 0)]

Lower(S) == CHOOSE f : NumbersBelow(f, S)

LEMMA NumberIs ==
  ASSUME NEW S
  PROVE  /\ Number(S) = Lower(S)[MaxBits]
         /\ Lower(S)[0] = 0
         /\ \A n \in 0 .. MaxBits - 1 :
              Lower(S)[n + 1] = Lower(S)[n] + (IF n \in S THEN PowerOfTwo[n] ELSE 0)
<1> DEFINE Add(x, n) == x + (IF n - 1 \in S THEN PowerOfTwo[n - 1] ELSE 0)
           Table(f, m) == f = [n \in 0 .. m |-> IF n = 0 THEN 0 ELSE Add(f[n - 1], n)]
<1>1. MaxBits \in Nat \ {0}
  BY PackedAssumption
<1> HIDE DEF Add
<1>2. \E f : Table(f, MaxBits)
  <2> DEFINE T == {m \in Nat : \E f : Table(f, m)}
  <2>1. 0 \in T
    <3>1. Table([n \in 0 .. 0 |-> 0], 0)
      OBVIOUS
    <3> QED BY <3>1
  <2>2. ASSUME NEW m \in Nat, m \in T PROVE m + 1 \in T
    <3>1. PICK f : Table(f, m)
      BY <2>2
    <3> DEFINE g == [n \in 0 .. m + 1 |-> IF n = m + 1 THEN Add(f[m], m + 1) ELSE f[n]]
    <3>2. Table(g, m + 1)
      <4>1. ASSUME NEW n \in 0 .. m + 1
            PROVE  g[n] = IF n = 0 THEN 0 ELSE Add(g[n - 1], n)
        BY <3>1
      <4> QED BY <4>1
    <3> HIDE DEF Table, g
    <3> QED BY <3>2, m + 1 \in Nat
  <2> HIDE DEF T
  <2>3. MaxBits \in T
    BY <1>1, <2>1, <2>2, SetInduction
  <2> QED BY <2>3 DEF T
<1>3. \A f : Table(f, MaxBits) <=> NumbersBelow(f, S)
  BY Zenon DEF NumbersBelow, Add
<1>4. NumbersBelow(Lower(S), S)
  BY <1>2, <1>3, Zenon DEF Lower
<1>5. Number(S) = Lower(S)[MaxBits]
  BY Zenon DEF Number, Lower, NumbersBelow
<1>6. Lower(S)[0] = 0
  BY <1>1, <1>4 DEF NumbersBelow
<1>7. ASSUME NEW n \in 0 .. MaxBits - 1
      PROVE  Lower(S)[n + 1] = Lower(S)[n] + (IF n \in S THEN PowerOfTwo[n] ELSE 0)
  <2>1. n + 1 \in 0 .. MaxBits /\ n + 1 # 0 /\ (n + 1) - 1 = n
    BY <1>1
  <2> QED BY <1>4, <2>1 DEF NumbersBelow
<1> QED BY <1>5, <1>6, <1>7

LEMMA LowerRange ==
  ASSUME NEW S
  PROVE  \A n \in 0 .. MaxBits : Lower(S)[n] \in 0 .. PowerOfTwo[n] - 1
<1> DEFINE T == {n \in Nat : n <= MaxBits => Lower(S)[n] \in 0 .. PowerOfTwo[n] - 1}
<1>0. MaxBits \in Nat
  BY PackedAssumption
<1>1. 0 \in T
  BY PowersOfTwo, NumberIs
<1>2. ASSUME NEW n \in Nat, n \in T PROVE n + 1 \in T
  <2> SUFFICES ASSUME n + 1 <= MaxBits
               PROVE  Lower(S)[n + 1] \in 0 .. PowerOfTwo[n + 1] - 1
    OBVIOUS
  <2>1. n \in 0 .. MaxBits - 1 /\ n \in 0 .. MaxBits
    BY <1>0
  <2>2. Lower(S)[n] \in 0 .. PowerOfTwo[n] - 1
    BY <1>2, <2>1
  <2>3. PowerOfTwo[n] \in Nat /\ PowerOfTwo[n + 1] = 2 * PowerOfTwo[n]
    BY <2>1, PowersOfTwo
  <2>4. Lower(S)[n + 1] = Lower(S)[n] + (IF n \in S THEN PowerOfTwo[n] ELSE 0)
    BY <2>1, NumberIs
  <2> QED BY <2>2, <2>3, <2>4
<1> HIDE DEF T
<1>3. \A n \in Nat : n \in T
  BY <1>1, <1>2, SetInduction
<1> QED BY <1>0, <1>3 DEF T

(* Different bits make different numbers.                                  *)
LEMMA NumberInjective ==
  ASSUME NEW S \in SUBSET (0 .. MaxBits - 1), NEW T \in SUBSET (0 .. MaxBits - 1),
         Number(S) = Number(T)
  PROVE  S = T
<1> DEFINE R == {n \in Nat : n <= MaxBits /\ Lower(S)[n] = Lower(T)[n]
                               => \A b \in 0 .. n - 1 : b \in S <=> b \in T}
<1>0. MaxBits \in Nat
  BY PackedAssumption
<1>1. 0 \in R
  OBVIOUS
<1>2. ASSUME NEW n \in Nat, n \in R PROVE n + 1 \in R
  <2> SUFFICES ASSUME n + 1 <= MaxBits, Lower(S)[n + 1] = Lower(T)[n + 1]
               PROVE  \A b \in 0 .. (n + 1) - 1 : b \in S <=> b \in T
    OBVIOUS
  <2>1. n \in 0 .. MaxBits - 1 /\ n \in 0 .. MaxBits
    BY <1>0
  <2>2. Lower(S)[n] \in 0 .. PowerOfTwo[n] - 1 /\ Lower(T)[n] \in 0 .. PowerOfTwo[n] - 1
    BY <2>1, LowerRange
  <2>3. PowerOfTwo[n] \in Nat
    BY <2>1, PowersOfTwo
  <2>4. /\ Lower(S)[n + 1] = Lower(S)[n] + (IF n \in S THEN PowerOfTwo[n] ELSE 0)
        /\ Lower(T)[n + 1] = Lower(T)[n] + (IF n \in T THEN PowerOfTwo[n] ELSE 0)
    BY <2>1, NumberIs
  <2>5. Lower(S)[n] = Lower(T)[n] /\ (n \in S <=> n \in T)
    <3> DEFINE p == PowerOfTwo[n]
               s == Lower(S)[n]
               t == Lower(T)[n]
    <3>1. s + (IF n \in S THEN p ELSE 0) = t + (IF n \in T THEN p ELSE 0)
      BY <2>4
    <3>2. s \in 0 .. p - 1 /\ t \in 0 .. p - 1 /\ p \in Nat
      BY <2>2, <2>3
    <3> HIDE DEF p, s, t
    <3>3. s = t /\ (n \in S <=> n \in T)
      BY <3>1, <3>2
    <3> QED BY <3>3 DEF s, t
  <2> QED BY <1>2, <2>1, <2>5
<1> HIDE DEF R
<1>3. MaxBits \in R
  BY <1>0, <1>1, <1>2, SetInduction
<1>4. Lower(S)[MaxBits] = Lower(T)[MaxBits]
  BY NumberIs
<1>5. \A b \in 0 .. MaxBits - 1 : b \in S <=> b \in T
  BY <1>0, <1>3, <1>4 DEF R
<1> QED BY <1>5

(* The bits of a number below a position are its remainder.                *)
LEMMA NumberOfBits ==
  ASSUME NEW x \in 0 .. PowerOfTwo[MaxBits] - 1
  PROVE  Number(BitsOf(x)) = x
<1> DEFINE S == BitsOf(x)
           R == {n \in Nat : n <= MaxBits => Lower(S)[n] = x % PowerOfTwo[n]}
<1>0. MaxBits \in Nat /\ x \in Nat
  BY PackedAssumption, PowersOfTwo
<1>1. 0 \in R
  <2>1. x % 1 = 0
    BY <1>0
  <2> QED BY <2>1, PowersOfTwo, NumberIs
<1>2. ASSUME NEW n \in Nat, n \in R PROVE n + 1 \in R
  <2> SUFFICES ASSUME n + 1 <= MaxBits PROVE Lower(S)[n + 1] = x % PowerOfTwo[n + 1]
    OBVIOUS
  <2>1. n \in 0 .. MaxBits - 1 /\ n \in 0 .. MaxBits
    BY <1>0
  <2> DEFINE p == PowerOfTwo[n]
             a == x \div p
             r == x % p
             c == a \div 2
             d == a % 2
  <2>2. p \in Nat \ {0} /\ PowerOfTwo[n + 1] = 2 * p
    BY <2>1, PowersOfTwo
  <2>3. Lower(S)[n + 1] = Lower(S)[n] + (IF n \in S THEN p ELSE 0)
    BY <2>1, NumberIs
  <2>4. Lower(S)[n] = r
    BY <1>2, <2>1
  <2>5. n \in S <=> d = 1
    BY <2>1 DEF BitsOf
  <2> HIDE DEF p, S
  <2>6. a \in Int /\ r \in Int /\ x = a * p + r /\ 0 <= r /\ r < p
    BY <1>0, <2>2, DivMod
  <2> HIDE DEF a, r
  <2>7. c \in Int /\ d \in {0, 1} /\ a = 2 * c + d
    BY <2>6
  <2> HIDE DEF c, d
  <2>8. x = c * (2 * p) + (d * p + r)
    BY <2>2, <2>6, <2>7
  <2>9. d * p + r = r + (IF n \in S THEN p ELSE 0)
    BY <2>2, <2>5, <2>6, <2>7
  <2>10. d * p + r \in Int /\ 0 <= d * p + r /\ d * p + r < 2 * p
    BY <2>2, <2>6, <2>7
  <2>11. 2 * p \in Int /\ 2 * p > 0
    BY <2>2
  <2>12. (c * (2 * p) + (d * p + r)) % (2 * p) = d * p + r
    <3>1. PICK y : y = d * p + r
      OBVIOUS
    <3>2. PICK z : z = 2 * p
      OBVIOUS
    <3>3. (c * z + y) % z = y
      BY <2>7, <2>10, <2>11, <3>1, <3>2, DivModUnique
    <3> QED BY <3>1, <3>2, <3>3
  <2> QED BY <2>2, <2>3, <2>4, <2>8, <2>9, <2>12
<1> HIDE DEF R
<1>3. MaxBits \in R
  BY <1>0, <1>1, <1>2, SetInduction
<1>4. x % PowerOfTwo[MaxBits] = x
  BY <1>0, PowersOfTwo, ModSmall
<1> QED BY <1>0, <1>3, <1>4, NumberIs DEF R

LEMMA BitsOfNumber ==
  ASSUME NEW S \in SUBSET (0 .. MaxBits - 1)
  PROVE  Number(S) \in Nat /\ BitsOf(Number(S)) = S
<1>1. Number(S) \in 0 .. PowerOfTwo[MaxBits] - 1
  BY NumberIs, LowerRange, PackedAssumption
<1>2. Number(BitsOf(Number(S))) = Number(S)
  BY <1>1, NumberOfBits
<1>3. BitsOf(Number(S)) \in SUBSET (0 .. MaxBits - 1)
  BY DEF BitsOf
<1> QED BY <1>1, <1>2, <1>3, NumberInjective

(* A number below a power of two has no bits from there on.                *)
LEMMA BitsBelow ==
  ASSUME NEW l \in 0 .. MaxBits, NEW x \in 0 .. PowerOfTwo[l] - 1
  PROVE  BitsOf(x) \subseteq 0 .. l - 1
<1>0. MaxBits \in Nat /\ x \in Nat
  BY PackedAssumption, PowersOfTwo
<1> SUFFICES ASSUME NEW b \in BitsOf(x), b >= l PROVE FALSE
  BY <1>0 DEF BitsOf
<1>1. b \in 0 .. MaxBits - 1 /\ b \in 0 .. MaxBits /\ (x \div PowerOfTwo[b]) % 2 = 1
  BY <1>0 DEF BitsOf
<1>2. PICK p : p = PowerOfTwo[b]
  OBVIOUS
<1>3. p \in Int /\ p > 0 /\ x < p
  BY <1>0, <1>1, <1>2, PowersOfTwo, PowersGrow
<1>4. PICK z : z = 0
  OBVIOUS
<1>5. (z * p + x) \div p = z
  BY <1>0, <1>3, <1>4, DivModUnique
<1>6. x \div p = 0
  BY <1>0, <1>3, <1>4, <1>5
<1> QED BY <1>1, <1>2, <1>6

(* The bits of a modulus.                                                  *)
LEMMA BitLengthIs ==
  ASSUME NEW x \in 1 .. PowerOfTwo[MaxBits] - 1
  PROVE  BitLength(x) \in 1 .. MaxBits /\ x < PowerOfTwo[BitLength(x)]
<1>0. MaxBits \in Nat \ {0} /\ x \in Nat
  BY PackedAssumption, PowersOfTwo
<1> DEFINE Fit(l) == PowerOfTwo[l - 1] <= x /\ x < PowerOfTwo[l]
           S == {n \in Nat : n <= MaxBits /\ x < PowerOfTwo[n] => \E l \in 1 .. MaxBits : Fit(l)}
<1>1. 0 \in S
  BY PowersOfTwo
<1>2. ASSUME NEW n \in Nat, n \in S PROVE n + 1 \in S
  <2> SUFFICES ASSUME n + 1 <= MaxBits, x < PowerOfTwo[n + 1]
               PROVE  \E l \in 1 .. MaxBits : Fit(l)
    OBVIOUS
  <2>1. n + 1 \in 1 .. MaxBits /\ (n + 1) - 1 = n /\ PowerOfTwo[n] \in Nat
    BY <1>0, PowersOfTwo
  <2>2. CASE x < PowerOfTwo[n]
    BY <1>0, <1>2, <2>2
  <2>3. CASE PowerOfTwo[n] <= x
    BY <2>1, <2>3
  <2> QED BY <1>0, <2>1, <2>2, <2>3
<1> HIDE DEF S
<1>3. MaxBits \in S
  BY <1>0, <1>1, <1>2, SetInduction
<1>4. \E l \in 1 .. MaxBits : Fit(l)
  BY <1>0, <1>3, PowersOfTwo DEF S
<1> QED BY <1>4 DEF BitLength

-----------------------------------------------------------------------------

(* Words and bytes of a modulus.                                           *)
KnownModulus == q \in Moduli \cup SmallModuli

LEMMA WordSize == LimbBits \in Nat \ {0} /\ LimbBits = WordBytes * ByteBits
  BY PackedAssumption DEF LimbBits

LEMMA ModulusFacts ==
  ASSUME KnownModulus
  PROVE  /\ Bits \in 1 .. MaxBits /\ Bits \in Nat \ {0}
         /\ q \in Nat /\ q > 2 /\ q <= PowerOfTwo[Bits]
<1>1. q \in 3 .. PowerOfTwo[MaxBits] - 1
  BY PackedAssumption DEF KnownModulus
<1>2. MaxBits \in Nat \ {0} /\ PowerOfTwo[MaxBits] \in Nat
  BY PackedAssumption, PowersOfTwo
<1>3. q \in 1 .. PowerOfTwo[MaxBits] - 1
  BY <1>1, <1>2
<1>4. Bits \in 1 .. MaxBits /\ q < PowerOfTwo[Bits]
  BY <1>3, BitLengthIs DEF Bits
<1>5. PowerOfTwo[Bits] \in Nat
  BY <1>2, <1>4, PowersOfTwo
<1> QED BY <1>1, <1>2, <1>4, <1>5

LEMMA LimbFacts ==
  ASSUME KnownModulus
  PROVE  /\ LimbCount \in Nat \ {0}
         /\ (LimbCount - 1) * LimbBits < Bits /\ Bits <= LimbCount * LimbBits
<1>1. Bits \in Nat \ {0} /\ LimbBits \in Nat \ {0}
  BY ModulusFacts, WordSize
<1>2. LimbCount = CeilDiv(Bits, LimbBits)
  BY DEF LimbCount, CeilDiv
<1>3. /\ LimbCount \in Nat
      /\ (LimbCount - 1) * LimbBits < Bits /\ Bits <= LimbCount * LimbBits
  BY <1>1, <1>2, CeilIs
<1>4. LimbCount # 0
  BY <1>1, <1>3
<1> QED BY <1>3, <1>4

(* The bytes are as many as the bits need, and none is partly used.        *)
LEMMA ByteFacts ==
  ASSUME KnownModulus
  PROVE  /\ WireDegree * Bits \in Nat
         /\ ByteCount * ByteBits = WireDegree * Bits
<1>1. Bits \in Nat \ {0} /\ WireDegree \in Nat \ {0} /\ ByteBits \in Nat \ {0}
  BY ModulusFacts, PackedAssumption
<1> DEFINE g == WireDegree \div ByteBits
<1>2. g \in Int /\ WireDegree = g * ByteBits
  BY <1>1, PackedAssumption, DivMod
<1> HIDE DEF g
<1>3. WireDegree * Bits = (g * Bits) * ByteBits /\ g * Bits \in Int
  BY <1>1, <1>2
<1>4. WireDegree * Bits \in Nat
  BY <1>1
<1>5. ByteCount = CeilDiv(WireDegree * Bits, ByteBits)
  BY DEF ByteCount, CeilDiv
<1>6. CeilDiv(WireDegree * Bits, ByteBits) = g * Bits
  <2>1. PICK a : a = WireDegree * Bits
    OBVIOUS
  <2>2. PICK c : c = g * Bits
    OBVIOUS
  <2>3. (c - 1) * ByteBits < a /\ a <= c * ByteBits
    BY <1>1, <1>3, <2>1, <2>2
  <2>4. CeilDiv(a, ByteBits) = c
    BY <1>1, <1>3, <1>4, <2>1, <2>2, <2>3, CeilUnique
  <2> QED BY <2>1, <2>2, <2>4
<1> QED BY <1>3, <1>4, <1>5, <1>6

LEMMA WordFacts ==
  ASSUME KnownModulus
  PROVE  \E w \in Nat : /\ PackedWords = 0 .. w
                        /\ (w - 1) * LimbBits < WireDegree * Bits
                        /\ WireDegree * Bits <= w * LimbBits
<1>1. WireDegree * Bits \in Nat /\ LimbBits \in Nat \ {0}
  BY ByteFacts, WordSize
<1>2. PackedWords = 0 .. CeilDiv(WireDegree * Bits, LimbBits)
  BY DEF PackedWords, CeilDiv
<1>3. PICK a : a = WireDegree * Bits
  OBVIOUS
<1>4. /\ CeilDiv(a, LimbBits) \in Nat
      /\ (CeilDiv(a, LimbBits) - 1) * LimbBits < a /\ a <= CeilDiv(a, LimbBits) * LimbBits
  BY <1>1, <1>3, CeilIs
<1> QED BY <1>2, <1>3, <1>4

LEMMA PlaceOfField ==
  ASSUME KnownModulus, NEW i \in Nat
  PROVE  /\ Offset(i) \in Nat /\ Shift(i) \in 0 .. LimbBits - 1 /\ i * Bits \in Nat
         /\ i * Bits = Offset(i) * LimbBits + Shift(i)
<1>1. Bits \in Nat \ {0} /\ LimbBits \in Nat \ {0}
  BY ModulusFacts, WordSize
<1>2. PICK a : a = i * Bits
  OBVIOUS
<1>3. a \in Nat
  BY <1>1, <1>2
<1> DEFINE o == a \div LimbBits
           s == a % LimbBits
<1>4. o \in Int /\ s \in Int /\ a = o * LimbBits + s /\ 0 <= s /\ s < LimbBits
  BY <1>1, <1>3, DivMod
<1>5. Offset(i) = o /\ Shift(i) = s
  BY <1>2 DEF Offset, Shift
<1> HIDE DEF o, s
<1>6. -1 * LimbBits < o * LimbBits
  BY <1>1, <1>3, <1>4
<1>7. -1 < o
  BY <1>1, <1>4, <1>6, TimesCancel
<1> QED BY <1>1, <1>2, <1>3, <1>4, <1>5, <1>7

(* A bit that is shifted falls into one word or the next.                  *)
LEMMA WordOfBit ==
  ASSUME NEW w \in Nat, w > 0, NEW o \in Int, NEW s \in 0 .. w - 1, NEW j \in Int,
         NEW m \in 0 .. w - 1, NEW k \in Int, NEW b \in 0 .. w - 1
  PROVE  (o * w + s) + (j * w + m) = k * w + b
           <=> (k = o + j /\ b = m + s) \/ (k = o + j + 1 /\ b = m + s - w)
<1> DEFINE d == k - (o + j)
<1>1. d \in Int /\ k = (o + j) + d
  OBVIOUS
<1> HIDE DEF d
<1>2. k * w + b = o * w + j * w + d * w + b
  BY <1>1
<1>3. o * w \in Int /\ j * w \in Int /\ d * w \in Int
  BY <1>1
<1>4. (o * w + s) + (j * w + m) = k * w + b <=> d * w = m + s - b
  BY <1>2, <1>3
<1>5. d * w = m + s - b => d = 0 \/ d = 1
  <2> SUFFICES ASSUME d * w = m + s - b PROVE d = 0 \/ d = 1
    OBVIOUS
  <2>1. -1 * w < d * w /\ d * w < 2 * w
    OBVIOUS
  <2>2. -1 < d /\ d < 2
    BY <1>1, <2>1, TimesCancel
  <2> QED BY <1>1, <2>2
<1>6. d = 0 => d * w = 0
  OBVIOUS
<1>7. d = 1 => d * w = w
  OBVIOUS
<1> QED BY <1>1, <1>4, <1>5, <1>6, <1>7

LEMMA LimbIs ==
  ASSUME NEW c, NEW j \in Nat
  PROVE  Limb(c, j) = {m \in 0 .. LimbBits - 1 : j * LimbBits + m \in BitsOf(c)}
<1>1. LimbBits \in Nat /\ (j + 1) * LimbBits = j * LimbBits + LimbBits /\ j * LimbBits \in Nat
  BY WordSize
<1>2. BitsOf(c) \subseteq Int
  BY PackedAssumption DEF BitsOf
<1>3. PICK e : e = j * LimbBits
  OBVIOUS
<1>4. Limb(c, j) = {b - e : b \in BitsOf(c) \cap e .. e + LimbBits - 1}
  BY <1>1, <1>3 DEF Limb
<1>5. ASSUME NEW m \in 0 .. LimbBits - 1, e + m \in BitsOf(c) PROVE m \in Limb(c, j)
  <2>1. e + m \in BitsOf(c) \cap e .. e + LimbBits - 1 /\ (e + m) - e = m
    BY <1>1, <1>3, <1>5
  <2> QED BY <1>4, <2>1
<1>6. ASSUME NEW m \in Limb(c, j) PROVE m \in 0 .. LimbBits - 1 /\ e + m \in BitsOf(c)
  <2>1. PICK b \in BitsOf(c) \cap e .. e + LimbBits - 1 : m = b - e
    BY <1>4
  <2>2. m \in 0 .. LimbBits - 1 /\ e + m = b
    BY <1>1, <1>2, <1>3, <2>1
  <2> QED BY <2>1, <2>2
<1> QED BY <1>3, <1>5, <1>6

(* What is written for a coefficient is its bits, where the format has     *)
(* them.                                                                   *)
LEMMA WrittenIs ==
  ASSUME KnownModulus, NEW i \in Index, poly[i] \in 0 .. q - 1, NEW k \in Nat
  PROVE  Written(i, k) =
           {b \in 0 .. LimbBits - 1 : (k * LimbBits + b) - i * Bits \in BitsOf(poly[i])}
<1> DEFINE w == LimbBits
           o == Offset(i)
           s == Shift(i)
           C == BitsOf(poly[i])
<1>1. /\ w \in Nat /\ w > 0 /\ i \in Nat /\ o \in Nat /\ s \in 0 .. w - 1
      /\ i * Bits = o * w + s /\ i * Bits \in Nat
  BY WordSize, PlaceOfField, PackedAssumption DEF Index
<1>2. /\ LimbCount \in Nat \ {0} /\ Bits <= LimbCount * w /\ Bits \in 1 .. MaxBits
      /\ MaxBits \in Nat
  BY LimbFacts, ModulusFacts, PackedAssumption
<1>3. C \subseteq 0 .. Bits - 1
  <2>1. poly[i] \in 0 .. PowerOfTwo[Bits] - 1
    <3>1. Bits \in 0 .. MaxBits
      BY <1>2
    <3>2. PowerOfTwo[Bits] \in Nat
      BY <3>1, PowersOfTwo
    <3> QED BY <3>2, ModulusFacts
  <2> QED BY <1>2, <2>1, BitsBelow
<1>4. \A j \in 0 .. LimbCount - 1 : Limb(poly[i], j) = {m \in 0 .. w - 1 : j * w + m \in C}
  BY <1>2, LimbIs
<1>5. ASSUME NEW b \in Written(i, k)
      PROVE  b \in 0 .. w - 1 /\ (k * w + b) - i * Bits \in C
  <2>1. PICK j \in 0 .. LimbCount - 1 :
           \/ k = o + j /\ b \in Left(Limb(poly[i], j), s)
           \/ k = o + j + 1 /\ s > 0 /\ b \in Right(Limb(poly[i], j), w - s)
    BY DEF Written
  <2>2. PICK m \in 0 .. w - 1 :
          /\ j * w + m \in C /\ b \in 0 .. w - 1
          /\ \/ k = o + j /\ b = m + s
             \/ k = o + j + 1 /\ b = m + s - w
    <3>1. CASE k = o + j /\ b \in Left(Limb(poly[i], j), s)
      <4>1. PICK m \in Limb(poly[i], j) : b = m + s /\ b \in 0 .. w - 1
        BY <1>1, <3>1 DEF Left
      <4> QED BY <1>4, <3>1, <4>1
    <3>2. CASE k = o + j + 1 /\ s > 0 /\ b \in Right(Limb(poly[i], j), w - s)
      <4>1. PICK m \in Limb(poly[i], j) : m >= w - s /\ b = m - (w - s)
        BY <1>1, <3>2 DEF Right
      <4>2. m \in 0 .. w - 1 /\ j * w + m \in C
        BY <1>4, <4>1
      <4>3. b = m + s - w /\ b \in 0 .. w - 1
        BY <1>1, <3>2, <4>1, <4>2
      <4> QED BY <3>2, <4>2, <4>3
    <3> QED BY <2>1, <3>1, <3>2
  <2> HIDE DEF w, o, s, C
  <2>3. (o * w + s) + (j * w + m) = k * w + b
    BY <1>1, <1>2, <2>2, WordOfBit
  <2>4. j * w + m \in Int /\ k * w \in Int
    BY <1>1, <1>2
  <2>5. (k * w + b) - i * Bits = j * w + m
    BY <1>1, <2>2, <2>3, <2>4
  <2> QED BY <2>2, <2>5
<1>6. ASSUME NEW b \in 0 .. w - 1, (k * w + b) - i * Bits \in C
      PROVE  b \in Written(i, k)
  <2> DEFINE c == (k * w + b) - i * Bits
             j == c \div w
             m == c % w
  <2>1. c \in 0 .. Bits - 1 /\ k * w \in Int
    BY <1>1, <1>3, <1>6
  <2>2. c \in Int /\ c >= 0 /\ c < Bits /\ i * Bits + c = k * w + b
    BY <1>1, <1>2, <2>1
  <2>3. c \in C
    BY <1>6
  <2> HIDE DEF w, o, s, C, c
  <2>4. j \in Int /\ m \in 0 .. w - 1 /\ c = j * w + m
    BY <1>1, <2>2, DivMod
  <2> HIDE DEF j, m
  <2>5. j \in 0 .. LimbCount - 1
    <3>1. LimbCount * w \in Int /\ j * w \in Int /\ -1 * w = -w
      BY <1>1, <1>2, <2>4
    <3>2. -1 * w < j * w /\ j * w < LimbCount * w
      BY <1>1, <1>2, <2>2, <2>4, <3>1
    <3>3. -1 < j /\ j < LimbCount
      BY <1>1, <1>2, <2>4, <3>2, TimesCancel
    <3> QED BY <1>2, <2>4, <3>3
  <2>6. (k = o + j /\ b = m + s) \/ (k = o + j + 1 /\ b = m + s - w)
    <3>1. (o * w + s) + (j * w + m) = k * w + b
      BY <1>1, <2>2, <2>4
    <3> QED BY <1>1, <2>4, <2>5, <3>1, WordOfBit
  <2>7. m \in Limb(poly[i], j)
    BY <1>4, <2>3, <2>4, <2>5
  <2>8. CASE k = o + j /\ b = m + s
    <3>1. b \in Left(Limb(poly[i], j), s)
      BY <1>1, <1>6, <2>7, <2>8 DEF Left, w
    <3> QED BY <2>5, <2>8, <3>1 DEF Written, o, s
  <2>9. CASE k = o + j + 1 /\ b = m + s - w
    <3>1. s > 0 /\ m >= w - s /\ b = m - (w - s)
      BY <1>1, <1>6, <2>4, <2>9
    <3>2. b \in Right(Limb(poly[i], j), w - s)
      BY <1>1, <2>7, <3>1 DEF Right, w
    <3> QED BY <2>5, <2>9, <3>1, <3>2 DEF Written, o, s, w
  <2> QED BY <2>6, <2>8, <2>9
<1> HIDE DEF w, C
<1>7. Written(i, k) = {b \in 0 .. w - 1 : (k * w + b) - i * Bits \in C}
  BY <1>5, <1>6
<1> QED BY <1>7 DEF w, C

LEMMA LoadWordIs ==
  ASSUME NEW offset, NEW first, NEW past,
         offset * ByteBits = first, (offset + WordBytes) * ByteBits = past
  PROVE  LoadWord(offset) = {b - first : b \in data.bits \cap first .. past - 1}
  BY Zenon DEF LoadWord

(* A limb that is read holds the bits of its place in the bytes, cut where *)
(* the coefficient ends.                                                   *)
LEMMA LoadedIs ==
  ASSUME KnownModulus, NEW i \in Index, NEW j \in 0 .. LimbCount - 1
  PROVE  Loaded(i, j) =
           {m \in 0 .. LimbBits - 1 :
              j * LimbBits + m < Bits /\ i * Bits + (j * LimbBits + m) \in data.bits}
<1> DEFINE w == LimbBits
           o == Offset(i)
           s == Shift(i)
           D == data.bits
           from == (o + j) * WordBytes
           word == Right(LoadWord(from), s)
             \cup (IF s > 0 THEN Left(LoadWord(from + WordBytes), w - s) ELSE {})
<1>1. /\ w \in Nat /\ w > 0 /\ i \in Nat /\ o \in Nat /\ s \in 0 .. w - 1
      /\ i * Bits = o * w + s /\ i * Bits \in Nat /\ w = WordBytes * ByteBits
      /\ WordBytes \in Nat /\ ByteBits \in Nat
  BY WordSize, PlaceOfField, PackedAssumption DEF Index
<1>2. LimbCount \in Nat \ {0} /\ Bits \in Nat \ {0} /\ j \in Nat
  BY LimbFacts, ModulusFacts
<1>3. PICK e : e = (o + j) * w
  OBVIOUS
<1>4. e \in Nat /\ i * Bits + j * w = e + s
  <2> HIDE DEF w, o, s
  <2>1. (o + j) * w = o * w + j * w /\ o * w \in Nat /\ j * w \in Nat
    BY <1>1, <1>2
  <2> QED BY <1>1, <1>2, <1>3, <2>1
<1>5. PICK e2 : e2 = e + w
  OBVIOUS
<1>6. PICK e3 : e3 = e2 + w
  OBVIOUS
<1>7. /\ LoadWord(from) = {b - e : b \in D \cap e .. e2 - 1}
      /\ LoadWord(from + WordBytes) = {b - e2 : b \in D \cap e2 .. e3 - 1}
  <2>1. from \in Int /\ from * ByteBits = (o + j) * (WordBytes * ByteBits)
    BY <1>1, <1>2
  <2>2. from * ByteBits = e
    BY <1>1, <1>3, <2>1
  <2> HIDE DEF from, w, o, s
  <2>3. (from + WordBytes) * ByteBits = e2 /\ ((from + WordBytes) + WordBytes) * ByteBits = e3
    BY <1>1, <1>5, <1>6, <2>1, <2>2
  <2> QED BY <2>2, <2>3, LoadWordIs
<1> HIDE DEF from
<1>8. ASSUME NEW m PROVE m \in word <=> m \in 0 .. w - 1 /\ e + s + m \in D
  <2> HIDE DEF w, o, s, D
  <2>1. ASSUME m \in 0 .. w - 1, e + s + m \in D, m < w - s PROVE m \in word
    <3>1. e + s + m \in D \cap e .. e2 - 1 /\ (e + s + m) - e = s + m
      BY <1>1, <1>4, <1>5, <1>6, <2>1
    <3>2. s + m \in LoadWord(from) /\ s + m >= s /\ (s + m) - s = m
      BY <1>1, <1>7, <2>1, <3>1
    <3>3. m \in Right(LoadWord(from), s)
      BY <1>1, <3>2 DEF Right, w
    <3> QED BY <3>3
  <2>2. ASSUME m \in 0 .. w - 1, e + s + m \in D, m >= w - s PROVE m \in word
    <3>1. /\ s > 0 /\ e + s + m \in D \cap e2 .. e3 - 1
          /\ (e + s + m) - e2 = m + s - w
      BY <1>1, <1>4, <1>5, <1>6, <2>2
    <3>2. m + s - w \in LoadWord(from + WordBytes) /\ (m + s - w) + (w - s) = m
      BY <1>1, <1>7, <2>2, <3>1
    <3>3. m \in Left(LoadWord(from + WordBytes), w - s)
      BY <1>1, <2>2, <3>1, <3>2 DEF Left, w
    <3> QED BY <3>1, <3>3
  <2>3. ASSUME m \in Right(LoadWord(from), s)
        PROVE  m \in 0 .. w - 1 /\ e + s + m \in D
    <3>1. PICK t \in LoadWord(from) : t >= s /\ m = t - s
      BY <1>1, <2>3 DEF Right, w
    <3>2. PICK b \in D \cap e .. e2 - 1 : t = b - e
      BY <1>7, <3>1
    <3>3. m \in 0 .. w - 1 /\ e + s + m = b
      BY <1>1, <1>4, <1>5, <1>6, <3>1, <3>2
    <3> QED BY <3>2, <3>3
  <2>4. ASSUME s > 0, m \in Left(LoadWord(from + WordBytes), w - s)
        PROVE  m \in 0 .. w - 1 /\ e + s + m \in D
    <3>1. PICK t \in LoadWord(from + WordBytes) : m = t + (w - s) /\ m \in 0 .. w - 1
      BY <1>1, <2>4 DEF Left, w
    <3>2. PICK b \in D \cap e2 .. e3 - 1 : t = b - e2
      BY <1>7, <3>1
    <3>3. e + s + m = b
      BY <1>1, <1>4, <1>5, <1>6, <3>1, <3>2
    <3> QED BY <3>1, <3>2, <3>3
  <2>5. m \in word => m \in 0 .. w - 1 /\ e + s + m \in D
    BY <2>3, <2>4
  <2>6. m \in 0 .. w - 1 => m < w - s \/ m >= w - s
    BY <1>1
  <2> QED BY <2>1, <2>2, <2>5, <2>6
<1>9. Loaded(i, j) = IF j = LimbCount - 1 /\ Bits % w > 0
                     THEN word \cap 0 .. (Bits % w) - 1 ELSE word
  <2>1. (Offset(i) + j) * WordBytes = from
    BY DEF from
  <2> QED BY <2>1, Zenon DEF Loaded
<1> DEFINE g == Bits \div w
           r == Bits % w
<1>10. g \in Int /\ r \in Int /\ Bits = g * w + r /\ 0 <= r /\ r < w
  BY <1>1, <1>2, DivMod
<1> HIDE DEF g
<1>11. /\ (r > 0 => Bits = (LimbCount - 1) * w + r)
       /\ (r = 0 => Bits = LimbCount * w)
  <2> HIDE DEF r, w
  <2>1. /\ (LimbCount - 1) * w < Bits /\ Bits <= LimbCount * w
        /\ (LimbCount - 1) * w \in Int /\ LimbCount * w \in Int /\ g * w \in Int
        /\ (g + 1) * w = g * w + w
    BY <1>1, <1>2, <1>10, LimbFacts DEF w
  <2>2. (LimbCount - 1) * w < (g + 1) * w
    BY <1>1, <1>10, <2>1
  <2>3. LimbCount - 1 < g + 1
    BY <1>1, <1>2, <1>10, <2>2, TimesCancel
  <2>4. CASE r > 0
    <3>1. g * w < LimbCount * w
      BY <1>10, <2>1, <2>4
    <3>2. g < LimbCount
      BY <1>1, <1>2, <1>10, <3>1, TimesCancel
    <3>3. g = LimbCount - 1
      BY <1>2, <1>10, <2>3, <3>2
    <3> QED BY <1>10, <2>4, <3>3
  <2>5. CASE r = 0
    <3>1. (LimbCount - 1) * w < g * w
      BY <1>10, <2>1, <2>5
    <3>2. LimbCount - 1 < g
      BY <1>1, <1>2, <1>10, <3>1, TimesCancel
    <3>3. g * w < (LimbCount + 1) * w
      BY <1>1, <1>2, <1>10, <2>1, <2>5
    <3>4. g < LimbCount + 1
      BY <1>1, <1>2, <1>10, <3>3, TimesCancel
    <3>5. g = LimbCount
      BY <1>2, <1>10, <3>2, <3>4
    <3>6. g * w = LimbCount * w
      BY <3>5
    <3> QED BY <1>10, <2>1, <2>5, <3>6
  <2> QED BY <2>4, <2>5, Zenon
<1>12. ASSUME NEW m \in 0 .. w - 1
       PROVE  j * w + m < Bits <=> (j = LimbCount - 1 /\ r > 0 => m < r)
  <2> HIDE DEF r, w
  <2>1. j * w \in Int /\ LimbCount * w \in Int
    BY <1>1, <1>2
  <2>2. LimbCount * w = (LimbCount - 1) * w + w
    BY <1>1, <1>2
  <2>3. CASE j = LimbCount - 1
    <3>1. j * w = (LimbCount - 1) * w
      BY <2>3
    <3> QED BY <1>1, <1>2, <1>10, <1>11, <2>1, <2>2, <2>3, <3>1
  <2>4. CASE j # LimbCount - 1
    <3>1. j + 1 <= LimbCount - 1 /\ (j + 1) * w = j * w + w
      BY <1>1, <1>2, <2>4
    <3>2. (j + 1) * w <= (LimbCount - 1) * w
      BY <1>1, <1>2, <3>1, TimesMonotone
    <3>3. (LimbCount - 1) * w < Bits
      BY LimbFacts DEF w
    <3> QED BY <1>1, <1>2, <2>1, <2>2, <2>4, <3>1, <3>2, <3>3
  <2> QED BY <2>3, <2>4
<1>13. ASSUME NEW m
       PROVE  m \in Loaded(i, j) <=>
                m \in 0 .. w - 1 /\ j * w + m < Bits /\ i * Bits + (j * w + m) \in D
  <2> HIDE DEF word, w, r, D
  <2>1. m \in Loaded(i, j) <=>
          m \in 0 .. w - 1 /\ e + s + m \in D /\ (j = LimbCount - 1 /\ r > 0 => m < r)
    <3>1. CASE j = LimbCount - 1 /\ r > 0
      <4>1. Loaded(i, j) = word \cap 0 .. r - 1
        BY <1>9, <3>1 DEF r
      <4> QED BY <1>1, <1>8, <1>10, <3>1, <4>1
    <3>2. CASE ~ (j = LimbCount - 1 /\ r > 0)
      <4>1. Loaded(i, j) = word
        BY <1>9, <3>2 DEF r
      <4> QED BY <1>8, <3>2, <4>1
    <3> QED BY <3>1, <3>2
  <2>2. m \in 0 .. w - 1 => i * Bits + (j * w + m) = e + s + m
    BY <1>1, <1>2, <1>4
  <2> QED BY <1>12, <2>1, <2>2
<1> HIDE DEF w, D
<1>14. Loaded(i, j) = {m \in 0 .. w - 1 : j * w + m < Bits /\ i * Bits + (j * w + m) \in D}
  BY <1>13
<1> QED BY <1>14 DEF w, D

(* A coefficient that is read is the number of the bits at its place.      *)
Field(i) == {c \in 0 .. Bits - 1 : i * Bits + c \in data.bits}

LEMMA CoefficientIs ==
  ASSUME KnownModulus, NEW i \in Index
  PROVE  Coefficient(i) = Number(Field(i))
<1> DEFINE w == LimbBits
           Part(j) == {m + j * w : m \in Loaded(i, j)}
           All == UNION {Part(j) : j \in 0 .. LimbCount - 1}
<1>1. /\ LimbCount \in Nat \ {0} /\ Bits \in Nat \ {0} /\ w \in Nat /\ w > 0
      /\ Bits <= LimbCount * w
  BY LimbFacts, ModulusFacts, WordSize
<1>2. ASSUME NEW c \in All PROVE c \in Field(i)
  <2>1. PICK j \in 0 .. LimbCount - 1 : \E m \in Loaded(i, j) : c = m + j * w
    OBVIOUS
  <2>2. PICK m \in Loaded(i, j) : c = m + j * w
    BY <2>1
  <2>3. m \in 0 .. w - 1 /\ j * w + m < Bits /\ i * Bits + (j * w + m) \in data.bits
    BY LoadedIs
  <2>4. j * w \in Int /\ j * w >= 0
    BY <1>1
  <2>5. c = j * w + m /\ c \in 0 .. Bits - 1
    BY <1>1, <2>2, <2>3, <2>4
  <2> QED BY <2>3, <2>5 DEF Field
<1>3. ASSUME NEW c \in Field(i) PROVE c \in All
  <2>1. c \in 0 .. Bits - 1 /\ i * Bits + c \in data.bits
    BY DEF Field
  <2> DEFINE j == c \div w
             m == c % w
  <2>2. c \in Int /\ j \in Int /\ m \in 0 .. w - 1 /\ c = j * w + m
    BY <1>1, <2>1, DivMod
  <2> HIDE DEF j, m
  <2>3. j \in 0 .. LimbCount - 1
    <3>1. LimbCount * w \in Int /\ j * w \in Int /\ -1 * w = -w
      BY <1>1, <2>2
    <3>2. -1 * w < j * w /\ j * w < LimbCount * w
      BY <1>1, <2>1, <2>2, <3>1
    <3>3. -1 < j /\ j < LimbCount
      BY <1>1, <2>2, <3>2, TimesCancel
    <3> QED BY <1>1, <2>2, <3>3
  <2>4. m \in Loaded(i, j)
    BY <1>1, <2>1, <2>2, <2>3, LoadedIs
  <2>5. c = m + j * w
    BY <1>1, <2>2
  <2> QED BY <2>3, <2>4, <2>5
<1>4. All = Field(i)
  <2> HIDE DEF All
  <2> QED BY <1>2, <1>3
<1>5. Coefficient(i) = Number(All)
  BY Zenon DEF Coefficient
<1> QED BY <1>4, <1>5

(* A bit belongs to one coefficient only.                                  *)
LEMMA OneField ==
  ASSUME NEW m \in Nat, NEW i \in Int, NEW j \in Int,
         NEW b \in 0 .. m - 1, NEW c \in 0 .. m - 1, i * m + b = j * m + c
  PROVE  i = j /\ b = c
<1>1. m > 0 /\ b \in Int /\ 0 <= b /\ b < m /\ c \in Int /\ 0 <= c /\ c < m
  OBVIOUS
<1>2. (i * m + b) \div m = i /\ (i * m + b) % m = b
  BY <1>1, DivModUnique
<1>3. (j * m + c) \div m = j /\ (j * m + c) % m = c
  BY <1>1, DivModUnique
<1> QED BY <1>2, <1>3

-----------------------------------------------------------------------------

(* The bits of the first n coefficients, where the format has them.        *)
FormatTo(n) == UNION {{i * Bits + b : b \in BitsOf(poly[i])} : i \in 0 .. n - 1}

(* What is written so far are the bits of the coefficients so far, word by *)
(* word; what is sent is the format of the polynomial; and what is read so *)
(* far are the numbers of the bits at their places.                        *)
WireInv ==
  /\ KnownModulus /\ next \in 0 .. WireDegree
  /\ side \in {"export", "import", "done", "refused"}
  /\ poly # <<>> => poly \in [Index -> 0 .. q - 1]
  /\ received \in [Index -> 0 .. q - 1]
  /\ \A k \in PackedWords : packed[k] \subseteq 0 .. LimbBits - 1
  /\ side = "export" =>
       /\ poly # <<>>
       /\ packed = [k \in PackedWords |->
                      {b \in 0 .. LimbBits - 1 : k * LimbBits + b \in FormatTo(next)}]
  /\ side # "export" =>
       /\ data = [size |-> data.size, bits |-> data.bits]
       /\ data.bits \subseteq 0 .. data.size * ByteBits - 1
       /\ poly # <<>> => data = [size |-> ByteCount, bits |-> Format(poly)]
  /\ side \in {"import", "done"} => \A i \in 0 .. next - 1 : received[i] = Number(Field(i))
  /\ side = "import" /\ next > 0 => data.size = ByteCount
  /\ side = "done" => next = WireDegree /\ data.size = ByteCount
  /\ side = "refused" => poly = <<>>

LEMMA CoefficientBits ==
  ASSUME KnownModulus, NEW x \in 0 .. q - 1
  PROVE  BitsOf(x) \subseteq 0 .. Bits - 1 /\ Number(BitsOf(x)) = x
<1>1. Bits \in 0 .. MaxBits /\ MaxBits \in Nat \ {0} /\ MaxBits \in 0 .. MaxBits
  BY ModulusFacts, PackedAssumption
<1>2. PowerOfTwo[Bits] \in Nat /\ PowerOfTwo[MaxBits] \in Nat
      /\ PowerOfTwo[Bits] <= PowerOfTwo[MaxBits]
  BY <1>1, PowersOfTwo, PowersGrow
<1>3. q \in Nat /\ q <= PowerOfTwo[Bits]
  BY ModulusFacts
<1>4. x \in 0 .. PowerOfTwo[Bits] - 1 /\ x \in 0 .. PowerOfTwo[MaxBits] - 1
  BY <1>2, <1>3
<1> QED BY <1>1, <1>4, BitsBelow, NumberOfBits

(* The format of a polynomial lies in its bytes, and has each coefficient  *)
(* at its place.                                                           *)
LEMMA FormatIs ==
  ASSUME KnownModulus, NEW f \in [Index -> 0 .. q - 1]
  PROVE  /\ Format(f) \subseteq 0 .. WireDegree * Bits - 1
         /\ \A i \in Index : {c \in 0 .. Bits - 1 : i * Bits + c \in Format(f)} = BitsOf(f[i])
<1>1. /\ Bits \in Nat \ {0} /\ WireDegree \in Nat \ {0} /\ Index = 0 .. WireDegree - 1
      /\ WireDegree * Bits \in Nat
  BY ModulusFacts, ByteFacts, PackedAssumption DEF Index
<1>2. \A i \in Index : BitsOf(f[i]) \subseteq 0 .. Bits - 1
  BY CoefficientBits
<1>3. \A x : x \in Format(f) <=> \E i \in Index : \E b \in BitsOf(f[i]) : x = i * Bits + b
  BY DEF Format
<1>4. ASSUME NEW x \in Format(f) PROVE x \in 0 .. WireDegree * Bits - 1
  <2>1. PICK i \in Index : \E b \in BitsOf(f[i]) : x = i * Bits + b
    BY <1>3
  <2>2. PICK b \in BitsOf(f[i]) : x = i * Bits + b
    BY <2>1
  <2>3. b \in 0 .. Bits - 1
    BY <1>2
  <2>4. (i + 1) * Bits <= WireDegree * Bits /\ (i + 1) * Bits = i * Bits + Bits
    <3>1. i + 1 <= WireDegree /\ i \in Int
      BY <1>1
    <3> QED BY <1>1, <3>1, TimesMonotone
  <2>5. i * Bits \in Int /\ i * Bits >= 0
    BY <1>1
  <2> QED BY <1>1, <2>2, <2>3, <2>4, <2>5
<1>5. ASSUME NEW i \in Index
      PROVE  {c \in 0 .. Bits - 1 : i * Bits + c \in Format(f)} = BitsOf(f[i])
  <2>1. ASSUME NEW c \in 0 .. Bits - 1, i * Bits + c \in Format(f) PROVE c \in BitsOf(f[i])
    <3>1. PICK j \in Index : \E b \in BitsOf(f[j]) : i * Bits + c = j * Bits + b
      BY <1>3, <2>1
    <3>2. PICK b \in BitsOf(f[j]) : i * Bits + c = j * Bits + b
      BY <3>1
    <3>3. b \in 0 .. Bits - 1 /\ i \in Int /\ j \in Int
      BY <1>1, <1>2
    <3>4. i = j /\ c = b
      BY <1>1, <3>2, <3>3, OneField
    <3> QED BY <3>4
  <2>2. ASSUME NEW c \in BitsOf(f[i]) PROVE c \in 0 .. Bits - 1 /\ i * Bits + c \in Format(f)
    BY <1>2, <1>3
  <2> QED BY <2>1, <2>2
<1> QED BY <1>4, <1>5

(* Bytes are the format of the numbers at the places in them.              *)
LEMMA FieldsAreFormat ==
  ASSUME KnownModulus, data.bits \subseteq 0 .. WireDegree * Bits - 1,
         NEW f \in [Index -> 0 .. q - 1], \A i \in Index : f[i] = Number(Field(i))
  PROVE  Format(f) = data.bits
<1>1. /\ Bits \in Nat \ {0} /\ WireDegree \in Nat \ {0} /\ Index = 0 .. WireDegree - 1
      /\ WireDegree * Bits \in Nat /\ Bits <= MaxBits /\ MaxBits \in Nat
  BY ModulusFacts, ByteFacts, PackedAssumption DEF Index
<1>2. \A i \in Index : BitsOf(f[i]) = Field(i)
  <2> SUFFICES ASSUME NEW i \in Index PROVE BitsOf(f[i]) = Field(i)
    OBVIOUS
  <2>1. Field(i) \in SUBSET (0 .. MaxBits - 1)
    BY <1>1 DEF Field
  <2> QED BY <2>1, BitsOfNumber
<1>3. \A x : x \in Format(f) <=> \E i \in Index : \E b \in BitsOf(f[i]) : x = i * Bits + b
  BY DEF Format
<1>4. ASSUME NEW x \in Format(f) PROVE x \in data.bits
  BY <1>2, <1>3 DEF Field
<1>5. ASSUME NEW x \in data.bits PROVE x \in Format(f)
  <2> DEFINE i == x \div Bits
             c == x % Bits
  <2>1. x \in Int /\ 0 <= x /\ x < WireDegree * Bits
    BY <1>1
  <2>2. i \in Int /\ c \in 0 .. Bits - 1 /\ x = i * Bits + c
    BY <1>1, <2>1, DivMod
  <2> HIDE DEF i, c
  <2>3. i \in Index
    <3>1. i * Bits \in Int /\ -1 * Bits = -Bits /\ Bits \in Nat
      BY <1>1, <2>2
    <3> DEFINE y == i * Bits
               z == WireDegree * Bits
    <3>2. x = y + c /\ c \in 0 .. Bits - 1 /\ y \in Int /\ z \in Int /\ 0 <= x /\ x < z
      BY <1>1, <2>1, <2>2, <3>1
    <3> HIDE DEF y, z
    <3>3. -Bits < y /\ y < z
      BY <3>1, <3>2
    <3>4. -1 * Bits < i * Bits /\ i * Bits < WireDegree * Bits
      BY <3>1, <3>3 DEF y, z
    <3>5. -1 < i /\ i < WireDegree
      BY <1>1, <2>2, <3>4, TimesCancel
    <3> QED BY <1>1, <2>2, <3>5
  <2>4. c \in Field(i)
    BY <2>2 DEF Field
  <2> QED BY <1>2, <1>3, <2>2, <2>3, <2>4
<1> QED BY <1>4, <1>5

LEMMA WireInitial == WireInit => WireInv
<1> SUFFICES ASSUME WireInit PROVE WireInv
  OBVIOUS
<1>1. KnownModulus
  BY DEF WireInit, KnownModulus
<1>2. WireDegree \in Nat \ {0} /\ q \in Nat /\ q > 2 /\ Index = 0 .. WireDegree - 1
  BY <1>1, PackedAssumption, ModulusFacts DEF Index
<1>3. /\ next = 0 /\ next \in 0 .. WireDegree /\ received = [i \in Index |-> 0]
      /\ received \in [Index -> 0 .. q - 1]
      /\ packed = [k \in PackedWords |-> {}]
  BY <1>2 DEF WireInit
<1>4. CASE side = "export"
  <2>1. PICK f \in [Index -> Samples] : poly = [i \in Index |-> f[i] % q]
    BY <1>4 DEF WireInit
  <2>2. \A i \in Index : f[i] % q \in 0 .. q - 1
    <3> SUFFICES ASSUME NEW i \in Index PROVE f[i] % q \in 0 .. q - 1
      OBVIOUS
    <3>1. f[i] \in Int
      BY PackedAssumption
    <3> QED BY <1>2, <3>1, DivMod
  <2>3. poly \in [Index -> 0 .. q - 1]
    BY <2>1, <2>2
  <2>4. poly # <<>>
    <3>1. 0 \in DOMAIN poly
      BY <1>2, <2>3
    <3>2. 0 \notin DOMAIN <<>>
      OBVIOUS
    <3> QED BY <3>1, <3>2
  <2>5. FormatTo(next) = {}
    BY <1>3 DEF FormatTo
  <2> QED BY <1>1, <1>3, <1>4, <2>3, <2>4, <2>5 DEF WireInv
<1>5. CASE side = "import"
  <2>1. poly = <<>>
    BY <1>5 DEF WireInit
  <2>2. PICK size \in ByteCount - 1 .. ByteCount + 1, ones \in SUBSET (0 .. WireDegree * Bits - 1) :
          data = [size |-> size, bits |-> ones \cap 0 .. size * ByteBits - 1]
    BY <1>5 DEF WireInit
  <2>3. /\ data = [size |-> data.size, bits |-> data.bits]
        /\ data.bits \subseteq 0 .. data.size * ByteBits - 1
    BY <2>2
  <2> QED BY <1>1, <1>3, <1>5, <2>1, <2>3 DEF WireInv
<1> QED BY <1>4, <1>5 DEF WireInit

LEMMA ExportKeeps == ASSUME WireInv, Export PROVE WireInv'
<1>1. /\ KnownModulus /\ side = "export" /\ next \in Nat /\ next < WireDegree
      /\ WireDegree \in Nat /\ next \in Index
      /\ poly \in [Index -> 0 .. q - 1] /\ poly # <<>>
  BY PackedAssumption DEF WireInv, Export, Index
<1>2. /\ q' = q /\ poly' = poly /\ data' = data /\ received' = received /\ side' = side
      /\ next' = next + 1
      /\ packed' = [k \in PackedWords |-> packed[k] \cup Written(next, k)]
  BY DEF Export
<1>3. KnownModulus' /\ Bits' = Bits /\ PackedWords' = PackedWords
  BY <1>1, <1>2 DEF KnownModulus, Bits, PackedWords
<1>4. PICK w \in Nat : PackedWords = 0 .. w
  BY <1>1, WordFacts
<1>5. next * Bits \in Nat /\ LimbBits \in Nat /\ BitsOf(poly[next]) \subseteq Int
  BY <1>1, PlaceOfField, WordSize, PackedAssumption DEF BitsOf
<1>6. \A x : x \in FormatTo(next)' <=>
               x \in FormatTo(next) \/ \E b \in BitsOf(poly[next]) : x = next * Bits + b
  <2> DEFINE Part(i) == {i * Bits + b : b \in BitsOf(poly[i])}
  <2>1. FormatTo(next) = UNION {Part(i) : i \in 0 .. next - 1}
    BY Zenon DEF FormatTo
  <2>2. FormatTo(next)' = UNION {Part(i) : i \in 0 .. next' - 1}
    BY <1>2, <1>3 DEF FormatTo, BitsOf
  <2>3. 0 .. next' - 1 = (0 .. next - 1) \cup {next}
    BY <1>1, <1>2
  <2>4. \A x : x \in Part(next) <=> \E b \in BitsOf(poly[next]) : x = next * Bits + b
    OBVIOUS
  <2> HIDE DEF Part
  <2>5. (UNION {Part(i) : i \in 0 .. next' - 1}) =
          (UNION {Part(i) : i \in 0 .. next - 1}) \cup Part(next)
    BY <2>3
  <2> QED BY <2>1, <2>2, <2>4, <2>5, Zenon
<1>7. ASSUME NEW k \in PackedWords
      PROVE  packed[k] \cup Written(next, k) =
               {b \in 0 .. LimbBits - 1 : k * LimbBits + b \in FormatTo(next)'}
  <2>1. packed[k] = {b \in 0 .. LimbBits - 1 : k * LimbBits + b \in FormatTo(next)}
    BY <1>1 DEF WireInv
  <2>2. Written(next, k) =
          {b \in 0 .. LimbBits - 1 : (k * LimbBits + b) - next * Bits \in BitsOf(poly[next])}
    BY <1>1, <1>4, WrittenIs
  <2>3. ASSUME NEW b \in 0 .. LimbBits - 1
        PROVE  (k * LimbBits + b) - next * Bits \in BitsOf(poly[next]) <=>
                 \E c \in BitsOf(poly[next]) : k * LimbBits + b = next * Bits + c
    <3>1. k * LimbBits + b \in Int
      BY <1>4, <1>5
    <3> QED BY <1>5, <3>1
  <2> QED BY <1>6, <2>1, <2>2, <2>3
<1>8. packed' = [k \in PackedWords' |->
                   {b \in 0 .. LimbBits - 1 : k * LimbBits + b \in FormatTo(next)'}]
  BY <1>2, <1>3, <1>7
<1>9. \A k \in PackedWords' : packed'[k] \subseteq 0 .. LimbBits - 1
  BY <1>8
<1>10. next' \in 0 .. WireDegree
  BY <1>1, <1>2
<1> QED BY <1>1, <1>2, <1>3, <1>8, <1>9, <1>10 DEF WireInv

LEMMA SendKeeps == ASSUME WireInv, Send PROVE WireInv'
<1>1. /\ KnownModulus /\ side = "export" /\ next = WireDegree /\ WireDegree \in Nat \ {0}
      /\ poly \in [Index -> 0 .. q - 1] /\ poly # <<>>
  BY PackedAssumption DEF WireInv, Send
<1>2. /\ q' = q /\ poly' = poly /\ packed' = packed /\ received' = received
      /\ side' = "import" /\ next' = 0
      /\ data' = [size |-> ByteCount,
                  bits |-> (UNION {{k * LimbBits + b : b \in packed[k]} : k \in PackedWords})
                             \cap 0 .. ByteCount * ByteBits - 1]
  BY DEF Send
<1>3. /\ KnownModulus' /\ PackedWords' = PackedWords /\ ByteCount' = ByteCount
      /\ Format(poly)' = Format(poly)
  BY <1>1, <1>2 DEF KnownModulus, Bits, PackedWords, ByteCount, Format
<1>4. PICK w \in Nat : PackedWords = 0 .. w /\ WireDegree * Bits <= w * LimbBits
  BY <1>1, WordFacts
<1>5. /\ ByteCount * ByteBits = WireDegree * Bits /\ WireDegree * Bits \in Nat
      /\ LimbBits \in Nat \ {0} /\ w * LimbBits \in Nat
  BY <1>1, ByteFacts, WordSize
<1>6. Format(poly) \subseteq 0 .. WireDegree * Bits - 1
  BY <1>1, FormatIs
<1>7. FormatTo(next) = Format(poly)
  BY <1>1, Zenon DEF FormatTo, Format, Index
<1>8. \A k \in PackedWords :
        packed[k] = {b \in 0 .. LimbBits - 1 : k * LimbBits + b \in Format(poly)}
  BY <1>1, <1>7 DEF WireInv
<1> DEFINE All == UNION {{k * LimbBits + b : b \in packed[k]} : k \in PackedWords}
<1>9. All = Format(poly)
  <2>1. ASSUME NEW x \in All PROVE x \in Format(poly)
    BY <1>8
  <2>2. ASSUME NEW x \in Format(poly) PROVE x \in All
    <3> DEFINE k == x \div LimbBits
               b == x % LimbBits
    <3>1. x \in Int /\ 0 <= x /\ x < w * LimbBits
      BY <1>4, <1>5, <1>6
    <3>2. k \in Int /\ b \in 0 .. LimbBits - 1 /\ x = k * LimbBits + b
      BY <1>5, <3>1, DivMod
    <3> HIDE DEF k, b
    <3>3. k \in PackedWords
      <4>1. k * LimbBits \in Int /\ -1 * LimbBits = -LimbBits
        BY <1>5, <3>2
      <4>2. -1 * LimbBits < k * LimbBits /\ k * LimbBits < w * LimbBits
        BY <1>5, <3>1, <3>2, <4>1
      <4>3. -1 < k /\ k < w
        BY <1>4, <1>5, <3>2, <4>2, TimesCancel
      <4> QED BY <1>4, <3>2, <4>3
    <3>4. b \in packed[k]
      BY <1>8, <3>2, <3>3
    <3> QED BY <3>2, <3>3, <3>4
  <2> HIDE DEF All
  <2> QED BY <2>1, <2>2
<1>10. data' = [size |-> ByteCount, bits |-> Format(poly)]
  <2>1. Format(poly) \cap 0 .. ByteCount * ByteBits - 1 = Format(poly)
    BY <1>5, <1>6
  <2> QED BY <1>2, <1>9, <2>1
<1>11. /\ data' = [size |-> data'.size, bits |-> data'.bits]
       /\ data'.bits \subseteq 0 .. data'.size * ByteBits - 1
  BY <1>5, <1>6, <1>10
<1>12. next' \in 0 .. WireDegree /\ ~ next' > 0 /\ 0 .. next' - 1 = {}
  BY <1>1, <1>2
<1>13. /\ received' \in [Index -> 0 .. q' - 1] /\ poly' \in [Index -> 0 .. q' - 1]
       /\ \A k \in PackedWords' : packed'[k] \subseteq 0 .. LimbBits - 1
  BY <1>1, <1>2, <1>3 DEF WireInv
<1> QED BY <1>1, <1>2, <1>3, <1>10, <1>11, <1>12, <1>13 DEF WireInv

(* What was sent is read as it was.                                        *)
LEMMA FieldOfSent ==
  ASSUME WireInv, side # "export", poly # <<>>, NEW i \in Index
  PROVE  data.size = ByteCount /\ Number(Field(i)) = poly[i]
<1>1. /\ KnownModulus /\ poly \in [Index -> 0 .. q - 1]
      /\ data = [size |-> ByteCount, bits |-> Format(poly)]
  BY DEF WireInv
<1>2. Field(i) = BitsOf(poly[i])
  BY <1>1, FormatIs DEF Field
<1> QED BY <1>1, <1>2, CoefficientBits

LEMMA RefuseKeeps == ASSUME WireInv, Refuse PROVE WireInv'
<1>1. /\ KnownModulus /\ side = "import" /\ side' = "refused"
      /\ q' = q /\ poly' = poly /\ packed' = packed /\ data' = data
      /\ received' = received /\ next' = next
  BY DEF WireInv, Refuse
<1>2. poly = <<>>
  <2> SUFFICES ASSUME poly # <<>> PROVE FALSE
    OBVIOUS
  <2>1. data = [size |-> ByteCount, bits |-> Format(poly)] /\ poly \in [Index -> 0 .. q - 1]
    BY <1>1 DEF WireInv
  <2>2. next < WireDegree /\ Coefficient(next) >= q
    BY <2>1 DEF Refuse
  <2>3. next \in Index /\ q \in Nat
    BY <1>1, <2>2, ModulusFacts, PackedAssumption DEF WireInv, Index
  <2>4. Coefficient(next) = poly[next]
    BY <1>1, <2>3, CoefficientIs, FieldOfSent
  <2>5. poly[next] \in 0 .. q - 1
    BY <2>1, <2>3
  <2> QED BY <2>2, <2>3, <2>4, <2>5
<1>3. KnownModulus' /\ PackedWords' = PackedWords
  BY <1>1 DEF KnownModulus, Bits, PackedWords
<1> QED BY <1>1, <1>2, <1>3 DEF WireInv

LEMMA ReadKeepsWire == ASSUME WireInv, Read PROVE WireInv'
<1>1. /\ KnownModulus /\ side = "import" /\ next \in Nat /\ next < WireDegree
      /\ WireDegree \in Nat /\ next \in Index /\ data.size = ByteCount
      /\ Coefficient(next) < q /\ q \in Nat /\ Index = 0 .. WireDegree - 1
  BY PackedAssumption, ModulusFacts DEF WireInv, Read, Index
<1>2. /\ q' = q /\ poly' = poly /\ packed' = packed /\ data' = data /\ side' = "import"
      /\ next' = next + 1
      /\ received' = [received EXCEPT ![next] = Coefficient(next)]
  BY <1>1 DEF Read
<1>3. /\ KnownModulus' /\ PackedWords' = PackedWords /\ ByteCount' = ByteCount
      /\ Format(poly)' = Format(poly)
  BY <1>1, <1>2 DEF KnownModulus, Bits, PackedWords, ByteCount, Format
<1>4. Coefficient(next) = Number(Field(next))
  BY <1>1, CoefficientIs
<1>5. Number(Field(next)) \in 0 .. q - 1
  <2>1. Bits <= MaxBits /\ Bits \in Nat /\ MaxBits \in Nat
    BY <1>1, ModulusFacts, PackedAssumption
  <2>2. Field(next) \in SUBSET (0 .. MaxBits - 1)
    BY <2>1 DEF Field
  <2>3. Number(Field(next)) \in Nat
    BY <2>2, BitsOfNumber
  <2> QED BY <1>1, <1>4, <2>3
<1>6. received \in [Index -> 0 .. q - 1]
  BY DEF WireInv
<1>7. received' \in [Index -> 0 .. q' - 1]
  BY <1>2, <1>4, <1>5, <1>6
<1>8. \A i : Number(Field(i))' = Number(Field(i))
  BY <1>2 DEF Number, Field, Bits
<1>9. \A i \in 0 .. next' - 1 : received'[i] = Number(Field(i))'
  <2> SUFFICES ASSUME NEW i \in 0 .. next' - 1 PROVE received'[i] = Number(Field(i))
    BY <1>8
  <2>1. i \in Index /\ (i = next \/ i \in 0 .. next - 1)
    BY <1>1, <1>2
  <2>2. CASE i = next
    BY <1>2, <1>4, <1>6, <2>1, <2>2
  <2>3. CASE i \in 0 .. next - 1 /\ i # next
    <3>1. received[i] = Number(Field(i))
      BY <1>1, <2>3 DEF WireInv
    <3> QED BY <1>2, <1>6, <2>1, <2>3, <3>1
  <2> QED BY <2>1, <2>2, <2>3
<1>10. next' \in 0 .. WireDegree
  BY <1>1, <1>2
<1> QED BY <1>1, <1>2, <1>3, <1>7, <1>9, <1>10 DEF WireInv

LEMMA ReturnKeeps == ASSUME WireInv, Return PROVE WireInv'
<1>1. /\ KnownModulus /\ side = "import" /\ side' = "done" /\ next = WireDegree
      /\ data.size = ByteCount
      /\ q' = q /\ poly' = poly /\ packed' = packed /\ data' = data
      /\ received' = received /\ next' = next
  BY DEF WireInv, Return
<1>2. /\ KnownModulus' /\ PackedWords' = PackedWords /\ ByteCount' = ByteCount
      /\ Format(poly)' = Format(poly) /\ \A i : Number(Field(i))' = Number(Field(i))
  BY <1>1 DEF KnownModulus, Bits, PackedWords, ByteCount, Format, Number, Field
<1> QED BY <1>1, <1>2 DEF WireInv

LEMMA WireInductive == WireSpec => []WireInv
<1>1. WireInit => WireInv
  BY WireInitial
<1>2. WireInv /\ [WireNext]_wireVars => WireInv'
  <2> SUFFICES ASSUME WireInv, [WireNext]_wireVars PROVE WireInv'
    OBVIOUS
  <2>1. CASE Export BY <2>1, ExportKeeps
  <2>2. CASE Send BY <2>2, SendKeeps
  <2>3. CASE Refuse BY <2>3, RefuseKeeps
  <2>4. CASE Read BY <2>4, ReadKeepsWire
  <2>5. CASE Return BY <2>5, ReturnKeeps
  <2>6. CASE UNCHANGED wireVars
    <3>1. /\ q' = q /\ poly' = poly /\ packed' = packed /\ data' = data
          /\ received' = received /\ next' = next /\ side' = side
      BY <2>6 DEF wireVars
    <3>2. /\ KnownModulus' = KnownModulus /\ PackedWords' = PackedWords
          /\ ByteCount' = ByteCount /\ FormatTo(next)' = FormatTo(next)
          /\ Format(poly)' = Format(poly) /\ \A i : Number(Field(i))' = Number(Field(i))
      BY <3>1 DEF KnownModulus, Bits, PackedWords, ByteCount, Format, FormatTo, Number, Field
    <3> QED BY <3>1, <3>2 DEF WireInv
  <2> QED BY <2>1, <2>2, <2>3, <2>4, <2>5, <2>6 DEF WireNext
<1> QED BY <1>1, <1>2, PTL DEF WireSpec

(* No coefficient touches a word that there is not.                        *)
LEMMA TouchedWords ==
  ASSUME KnownModulus, NEW i \in Index
  PROVE  Touched(i) \subseteq PackedWords
<1> DEFINE w == LimbBits
           o == Offset(i)
           s == Shift(i)
           l == LimbCount
<1>1. /\ w \in Nat /\ w > 0 /\ i \in Nat /\ o \in Nat /\ s \in 0 .. w - 1
      /\ i * Bits = o * w + s /\ i * Bits \in Nat
      /\ l \in Nat \ {0} /\ (l - 1) * w < Bits /\ Bits \in Nat \ {0}
      /\ WireDegree \in Nat /\ i + 1 <= WireDegree
  <2>1. i \in Nat /\ WireDegree \in Nat /\ i + 1 <= WireDegree
    BY PackedAssumption DEF Index
  <2>2. o \in Nat /\ s \in 0 .. w - 1 /\ i * Bits = o * w + s /\ i * Bits \in Nat
    BY <2>1, PlaceOfField
  <2>3. w \in Nat /\ w > 0
    BY WordSize
  <2>4. l \in Nat \ {0} /\ (l - 1) * w < Bits
    BY LimbFacts
  <2> QED BY <2>1, <2>2, <2>3, <2>4, ModulusFacts
<1>2. PICK k \in Nat : PackedWords = 0 .. k /\ WireDegree * Bits <= k * w
  BY WordFacts
<1> HIDE DEF w, o, s, l
<1>3. (i + 1) * Bits <= WireDegree * Bits /\ (i + 1) * Bits = i * Bits + Bits
  BY <1>1, TimesMonotone
<1>4. /\ (o + (l - 1)) * w = o * w + (l - 1) * w
      /\ o * w \in Int /\ (l - 1) * w \in Int /\ k * w \in Int /\ WireDegree * Bits \in Int
  BY <1>1, <1>2
<1>5. (o + (l - 1)) * w < k * w
  BY <1>1, <1>2, <1>3, <1>4
<1>6. o + (l - 1) < k
  BY <1>1, <1>2, <1>5, TimesCancel
<1>7. Touched(i) = o .. o + (IF s > 0 THEN l ELSE l - 1)
  BY DEF Touched, o, s, l
<1> QED BY <1>1, <1>2, <1>6, <1>7

(* The packed wire, for every number of bits of a modulus, every number of *)
(* coefficients and every size of words (packed_wire.h): the bytes sent    *)
(* are those of the format, they are read back as what was sent, and bytes *)
(* that are accepted are the only ones of the polynomial read from them.   *)
THEOREM WireRoundTrip == WireSpec => []WireIsExact
<1>1. WireInv => WireIsExact
  <2> SUFFICES ASSUME WireInv PROVE WireIsExact
    OBVIOUS
  <2>1. /\ KnownModulus /\ WireDegree \in Nat \ {0} /\ Index = 0 .. WireDegree - 1
        /\ received \in [Index -> 0 .. q - 1]
    BY PackedAssumption DEF WireInv, Index
  <2>2. side # "export" => WireTypeOK
    <3>1. side # "export" => data.bits \subseteq 0 .. data.size * ByteBits - 1
      BY DEF WireInv
    <3>2. \A i \in Index : received[i] \in 0 .. q - 1
      BY <2>1
    <3>3. \A k \in PackedWords : packed[k] \subseteq 0 .. LimbBits - 1
      BY DEF WireInv
    <3> QED BY <2>1, <3>1, <3>2, <3>3, TouchedWords DEF WireTypeOK
  <2>3. side = "import" /\ poly # <<>> => data = [size |-> ByteCount, bits |-> Format(poly)]
    BY DEF WireInv
  <2>4. side = "refused" => poly = <<>>
    BY DEF WireInv
  <2>5. side = "done" => \A i \in Index : received[i] = Number(Field(i))
    BY <2>1 DEF WireInv
  <2>6. side = "done" /\ poly # <<>> => received = poly
    <3> SUFFICES ASSUME side = "done", poly # <<>> PROVE received = poly
      OBVIOUS
    <3>1. poly \in [Index -> 0 .. q - 1]
      BY DEF WireInv
    <3>2. \A i \in Index : Number(Field(i)) = poly[i]
      BY FieldOfSent
    <3>3. \A i \in Index : received[i] = poly[i]
      BY <2>5, <3>2
    <3> QED BY <2>1, <3>1, <3>3
  <2>7. side = "done" => data = [size |-> ByteCount, bits |-> Format(received)]
    <3> SUFFICES ASSUME side = "done"
                 PROVE  data = [size |-> ByteCount, bits |-> Format(received)]
      OBVIOUS
    <3>1. /\ data = [size |-> ByteCount, bits |-> data.bits]
          /\ data.bits \subseteq 0 .. ByteCount * ByteBits - 1
      BY DEF WireInv
    <3>2. data.bits \subseteq 0 .. WireDegree * Bits - 1
      BY <2>1, <3>1, ByteFacts
    <3>3. Format(received) = data.bits
      BY <2>1, <2>5, <3>2, FieldsAreFormat
    <3> QED BY <3>1, <3>3
  <2> QED BY <2>2, <2>3, <2>4, <2>6, <2>7 DEF WireIsExact
<1> QED BY <1>1, WireInductive, PTL

-----------------------------------------------------------------------------

(* The digits of a gadget.                                                 *)

(* Recursive functions: a value for every step exists, ...                 *)
Runs(f, m, V, a, F) ==
  f \in [0 .. m -> V] /\ f[0] = a /\ \A n \in 1 .. m : f[n] = F[n][f[n - 1]]
Run(m, V, a, F) == CHOOSE f : Runs(f, m, V, a, F)

LEMMA Recursion ==
  ASSUME NEW m \in Nat, NEW V, NEW a \in V, NEW F \in [1 .. m -> [V -> V]]
  PROVE  Runs(Run(m, V, a, F), m, V, a, F)
<1> DEFINE S == {k \in Nat : k <= m => \E f : Runs(f, k, V, a, F)}
<1>1. 0 \in S
  <2>1. Runs([n \in 0 .. 0 |-> a], 0, V, a, F)
    BY DEF Runs
  <2> QED BY <2>1
<1>2. ASSUME NEW k \in Nat, k \in S PROVE k + 1 \in S
  <2> SUFFICES ASSUME k + 1 <= m PROVE \E f : Runs(f, k + 1, V, a, F)
    OBVIOUS
  <2>1. PICK f : Runs(f, k, V, a, F)
    BY <1>2
  <2>0. f \in [0 .. k -> V] /\ f[0] = a /\ \A n \in 1 .. k : f[n] = F[n][f[n - 1]]
    BY <2>1 DEF Runs
  <2> DEFINE g == [n \in 0 .. k + 1 |-> IF n = k + 1 THEN F[k + 1][f[k]] ELSE f[n]]
  <2>2. g \in [0 .. k + 1 -> V]
    BY <2>0
  <2>3. ASSUME NEW n \in 1 .. k + 1 PROVE g[n] = F[n][g[n - 1]]
    <3>1. CASE n = k + 1
      BY <3>1
    <3>2. CASE n # k + 1
      <4>1. n \in 1 .. k /\ n - 1 \in 0 .. k
        BY <3>2
      <4>2. g[n] = f[n] /\ g[n - 1] = f[n - 1]
        BY <4>1
      <4> QED BY <2>0, <4>1, <4>2
    <3> QED BY <3>1, <3>2
  <2>4. g[0] = a
    BY <2>0
  <2> HIDE DEF g
  <2>5. Runs(g, k + 1, V, a, F)
    BY <2>2, <2>3, <2>4 DEF Runs
  <2> QED BY <2>5
<1> HIDE DEF S
<1>3. m \in S
  BY <1>1, <1>2, SetInduction
<1>4. \E f : Runs(f, m, V, a, F)
  BY <1>3 DEF S
<1> QED BY <1>4, Zenon DEF Run

(* ... and there is no other.                                              *)
Follows(f, g, m) == f[0] = g[0] /\ \A n \in 1 .. m : f[n - 1] = g[n - 1] => f[n] = g[n]
Agree(f, g, m) == \A n \in 0 .. m : f[n] = g[n]

LEMMA SameRecursion ==
  ASSUME NEW m \in Nat, NEW f, NEW g, Follows(f, g, m)
  PROVE  Agree(f, g, m)
<1>0. f[0] = g[0] /\ \A n \in 1 .. m : f[n - 1] = g[n - 1] => f[n] = g[n]
  BY DEF Follows
<1> DEFINE S == {n \in Nat : n <= m => f[n] = g[n]}
<1>1. 0 \in S
  BY <1>0
<1>2. ASSUME NEW n \in Nat, n \in S PROVE n + 1 \in S
  <2>1. ASSUME n + 1 <= m PROVE f[n + 1] = g[n + 1]
    <3>1. n + 1 \in 1 .. m /\ (n + 1) - 1 = n
      BY <2>1
    <3> QED BY <1>0, <1>2, <2>1, <3>1
  <2> QED BY <2>1
<1> HIDE DEF S
<1>3. \A n \in Nat : n \in S
  BY <1>1, <1>2, SetInduction
<1> QED BY <1>3 DEF S, Agree

(* Induction from all smaller numbers.                                     *)
LEMMA StrongInduction ==
  ASSUME NEW m \in Nat, NEW S, \A n \in 0 .. m : (\A k \in 0 .. n - 1 : k \in S) => n \in S
  PROVE  \A n \in 0 .. m : n \in S
<1> DEFINE T == {n \in Nat : \A k \in 0 .. n : k <= m => k \in S}
<1>1. 0 \in T
  OBVIOUS
<1>2. ASSUME NEW n \in Nat, n \in T PROVE n + 1 \in T
  <2> SUFFICES ASSUME NEW k \in 0 .. n + 1, k <= m PROVE k \in S
    OBVIOUS
  <2>1. \A i \in 0 .. k - 1 : i \in S
    BY <1>2
  <2> QED BY <2>1
<1> HIDE DEF T
<1>3. \A n \in Nat : n \in T
  BY <1>1, <1>2, SetInduction
<1> QED BY <1>3 DEF T

(* Division in two steps.                                                  *)
LEMMA DivDiv ==
  ASSUME NEW a \in Int, NEW b \in Int, NEW d \in Int, b > 0, d > 0
  PROVE  /\ b * d \in Int /\ b * d > 0
         /\ (a \div b) \div d = a \div (b * d)
         /\ a % (b * d) = (a % b) + ((a \div b) % d) * b
<1> DEFINE k == a \div b
           r == a % b
           h == k \div d
           s == k % d
<1>1. k \in Int /\ r \in Int /\ a = k * b + r /\ 0 <= r /\ r < b
  BY DivMod
<1> HIDE DEF k, r
<1>2. h \in Int /\ s \in Int /\ k = h * d + s /\ 0 <= s /\ s < d
  BY <1>1, DivMod
<1> HIDE DEF h, s
<1>3. b * d \in Int /\ b * d > 0
  BY TimesStrict
<1>4. PICK c : c = b * d
  OBVIOUS
<1>5. PICK z : z = s * b + r
  OBVIOUS
<1>6. a = h * c + z
  <2>1. (h * d + s) * b = h * (b * d) + s * b
    BY <1>2
  <2>2. h * (b * d) \in Int /\ s * b \in Int
    BY <1>2, <1>3
  <2> QED BY <1>1, <1>2, <1>4, <1>5, <2>1, <2>2
<1>7. z \in Int /\ 0 <= z /\ z < c
  <2>1. s * b \in Int /\ 0 <= s * b
    BY <1>2, TimesSign
  <2>2. (s + 1) * b <= d * b
    BY <1>2, TimesMonotone
  <2>3. (s + 1) * b = s * b + b /\ d * b = b * d
    BY <1>2
  <2> QED BY <1>1, <1>3, <1>4, <1>5, <2>1, <2>2, <2>3
<1>8. a \div c = h /\ a % c = z
  BY <1>2, <1>3, <1>4, <1>6, <1>7, DivModUnique
<1> QED BY <1>3, <1>4, <1>5, <1>8 DEF k, r, h, s

(* A factor may be reduced first.                                          *)
LEMMA ModTimes ==
  ASSUME NEW a \in Int, NEW c \in Int, NEW b \in Int, b > 0
  PROVE  ((a % b) * c) % b = (a * c) % b
<1> DEFINE d == a \div b
           m == a % b
<1>1. d \in Int /\ m \in Int /\ a = d * b + m
  BY DivMod
<1> HIDE DEF d, m
<1>2. a * c = m * c + (d * c) * b
  BY <1>1
<1>3. m * c \in Int /\ d * c \in Int
  BY <1>1
<1>4. (m * c + (d * c) * b) % b = (m * c) % b
  BY <1>3, ModShift
<1> QED BY <1>2, <1>4 DEF m

(* A remainder by a multiple has the same remainder.                       *)
LEMMA ModMod ==
  ASSUME NEW a \in Int, NEW b \in Int, NEW d \in Int, b > 0, d > 0
  PROVE  (a % (b * d)) % b = a % b
<1> DEFINE r == a % b
           s == (a \div b) % d
<1>1. a % (b * d) = r + s * b
  BY DivDiv
<1>2. r \in Int /\ 0 <= r /\ r < b /\ a \div b \in Int
  BY DivMod
<1>3. s \in Int
  BY <1>2, DivMod
<1> HIDE DEF r, s
<1>4. (r + s * b) % b = r % b
  BY <1>2, <1>3, ModShift
<1>5. r % b = r
  BY <1>2, ModSmall
<1> QED BY <1>1, <1>4, <1>5 DEF r

TopBit == WordBits * WordCount

LEMMA RadixSizes ==
  /\ PrimeBits \in Nat \ {0} /\ WordCount \in Nat \ {0} /\ Count \in Nat \ {0}
  /\ WordBits \in Nat \ {0} /\ WordBits = PrimeBits + 4
  /\ TopBit \in Nat /\ TopBit > 0 /\ WordBits <= TopBit
  /\ PrimeBits * Count \in Nat /\ PrimeBits * Count > 0 /\ PrimeBits * Count <= TopBit
<1>1. /\ PrimeBits \in Nat \ {0} /\ WordCount \in Nat \ {0} /\ Count \in Nat \ {0}
      /\ WordBits \in Nat \ {0} /\ WordBits = PrimeBits + 4
  BY RadixAssumption DEF Count, WordBits
<1>2. WordBits * WordCount \in Int /\ 1 * WordBits <= WordCount * WordBits
  BY <1>1, TimesMonotone
<1>3. PrimeBits * Count \in Int /\ 0 < PrimeBits * Count
  BY <1>1, TimesStrict
<1>4. PrimeBits * Count <= WordBits * WordCount
  BY RadixAssumption
<1> QED BY <1>1, <1>2, <1>3, <1>4 DEF TopBit

LEMMA BitPowers ==
  /\ BitPower[0] = 1
  /\ \A b \in 0 .. TopBit : BitPower[b] \in Nat \ {0}
  /\ \A b \in 1 .. TopBit : BitPower[b] = 2 * BitPower[b - 1]
<1> DEFINE V == Nat \ {0}
           F == [n \in 1 .. TopBit |-> [x \in V |-> 2 * x]]
           Table(f) == f = [b \in 0 .. TopBit |-> IF b = 0 THEN 1 ELSE 2 * f[b - 1]]
<1>1. TopBit \in Nat
  BY RadixSizes
<1>2. F \in [1 .. TopBit -> [V -> V]] /\ 1 \in V
  OBVIOUS
<1> HIDE DEF F, V
<1>3. PICK f : Runs(f, TopBit, V, 1, F)
  BY <1>1, <1>2, Recursion
<1> USE DEF F, V
<1>4. \A n \in 1 .. TopBit : f[n] = 2 * f[n - 1]
  <2> SUFFICES ASSUME NEW n \in 1 .. TopBit PROVE f[n] = 2 * f[n - 1]
    OBVIOUS
  <2>1. f[n - 1] \in V
    BY <1>1, <1>3 DEF Runs
  <2> QED BY <1>3, <2>1 DEF Runs
<1>5. Table(f)
  BY <1>1, <1>3, <1>4 DEF Runs
<1>6. Table(BitPower)
  BY <1>5, Zenon DEF BitPower, TopBit
<1>7. BitPower[0] = 1 /\ \A b \in 1 .. TopBit : BitPower[b] = 2 * BitPower[b - 1]
  BY <1>1, <1>6
<1>8. \A b \in 0 .. TopBit : f[b] = BitPower[b]
  <2>1. \A n \in 1 .. TopBit : f[n - 1] = BitPower[n - 1] => f[n] = BitPower[n]
    BY <1>4, <1>7
  <2>2. f[0] = BitPower[0]
    BY <1>3, <1>7 DEF Runs
  <2>3. Follows(f, BitPower, TopBit)
    BY <2>1, <2>2 DEF Follows
  <2>4. Agree(f, BitPower, TopBit)
    BY <1>1, <2>3, SameRecursion
  <2> QED BY <2>4 DEF Agree
<1> QED BY <1>1, <1>3, <1>7, <1>8 DEF Runs

LEMMA BitPowerAdds ==
  ASSUME NEW a \in Nat, NEW b \in Nat, a + b <= TopBit
  PROVE  BitPower[a + b] = BitPower[a] * BitPower[b]
<1> DEFINE S == {k \in Nat : a + k <= TopBit => BitPower[a + k] = BitPower[a] * BitPower[k]}
<1>0. TopBit \in Nat
  BY RadixSizes
<1>1. 0 \in S
  BY <1>0, BitPowers
<1>2. ASSUME NEW k \in Nat, k \in S PROVE k + 1 \in S
  <2>1. ASSUME a + (k + 1) <= TopBit
        PROVE  BitPower[a + (k + 1)] = BitPower[a] * BitPower[k + 1]
    <3>1. a + k \in 0 .. TopBit /\ a + (k + 1) \in 1 .. TopBit /\ k + 1 \in 1 .. TopBit
          /\ a \in 0 .. TopBit /\ k \in 0 .. TopBit
      BY <1>0, <2>1
    <3>2. (a + (k + 1)) - 1 = a + k /\ (k + 1) - 1 = k
      OBVIOUS
    <3>3. BitPower[a + (k + 1)] = 2 * BitPower[a + k] /\ BitPower[k + 1] = 2 * BitPower[k]
      BY <3>1, <3>2, BitPowers
    <3>4. BitPower[a + k] = BitPower[a] * BitPower[k]
      BY <1>2, <1>0, <2>1
    <3>5. BitPower[a] \in Int /\ BitPower[k] \in Int
      BY <3>1, BitPowers
    <3> QED BY <3>3, <3>4, <3>5
  <2> QED BY <2>1
<1> HIDE DEF S
<1>3. b \in S
  BY <1>1, <1>2, SetInduction
<1> QED BY <1>3 DEF S

LEMMA BitPowersGrow ==
  ASSUME NEW a \in Nat, NEW b \in Nat, a <= b, b <= TopBit
  PROVE  /\ BitPower[a] \in Nat \ {0} /\ BitPower[b] \in Nat \ {0}
         /\ BitPower[a] <= BitPower[b]
         /\ BitPower[b] = BitPower[b - a] * BitPower[a]
<1>0. TopBit \in Nat
  BY RadixSizes
<1>1. /\ BitPower[a] \in Nat \ {0} /\ BitPower[b - a] \in Nat \ {0} /\ BitPower[b] \in Nat \ {0}
  BY <1>0, BitPowers
<1>2. b - a \in Nat /\ (b - a) + a = b
  OBVIOUS
<1>3. BitPower[(b - a) + a] = BitPower[b - a] * BitPower[a]
  BY <1>2, BitPowerAdds
<1>4. 1 * BitPower[a] <= BitPower[b - a] * BitPower[a]
  BY <1>1, TimesMonotone
<1> QED BY <1>1, <1>2, <1>3, <1>4

(* The primes leave four bits of a word free, and differ by less than a    *)
(* factor of two.                                                          *)
LEMMA RadixPrimeFacts ==
  ASSUME NEW j \in 1 .. Count
  PROVE  /\ M[j] \in Int /\ M[j] > 1 /\ Fits(M[j]) /\ M[j] < BitPower[PrimeBits]
         /\ BitPower[PrimeBits] <= 2 * M[j] /\ 16 * BitPower[PrimeBits] = B
<1>1. M[j] \in BitPower[PrimeBits - 1] + 1 .. BitPower[PrimeBits] - 1
  <2>1. PICK X : X = BitPower[PrimeBits - 1] + 1 .. BitPower[PrimeBits] - 1
    OBVIOUS
  <2>2. M \in Seq(X)
    BY <2>1, RadixAssumption
  <2>3. M[j] \in X
    BY <2>2 DEF Count
  <2> QED BY <2>1, <2>3
<1>2. /\ PrimeBits \in 1 .. TopBit /\ PrimeBits - 1 \in 0 .. TopBit
      /\ 4 \in Nat /\ PrimeBits \in Nat /\ PrimeBits + 4 <= TopBit
      /\ \A i \in 1 .. 4 : i \in 1 .. TopBit
  BY RadixSizes
<1>3. /\ BitPower[PrimeBits] = 2 * BitPower[PrimeBits - 1]
      /\ BitPower[PrimeBits - 1] \in Nat \ {0} /\ BitPower[PrimeBits] \in Nat
  BY <1>2, BitPowers
<1>4. BitPower[1] = 2 /\ BitPower[2] = 4 /\ BitPower[3] = 8 /\ BitPower[4] = 16
  <2>1. \A i \in 1 .. 4 : BitPower[i] = 2 * BitPower[i - 1]
    BY <1>2, BitPowers
  <2>2. BitPower[0] = 1
    BY BitPowers
  <2>3. BitPower[1] = 2 * BitPower[0]
    BY <2>1, 1 - 1 = 0
  <2>4. BitPower[2] = 2 * BitPower[1]
    BY <2>1, 2 - 1 = 1
  <2>5. BitPower[3] = 2 * BitPower[2]
    BY <2>1, 3 - 1 = 2
  <2>6. BitPower[4] = 2 * BitPower[3]
    BY <2>1, 4 - 1 = 3
  <2> QED BY <2>2, <2>3, <2>4, <2>5, <2>6
<1>5. BitPower[PrimeBits + 4] = BitPower[PrimeBits] * BitPower[4]
  BY <1>2, BitPowerAdds
<1>6. B = BitPower[PrimeBits + 4]
  BY RadixAssumption, RadixSizes
<1>7. M[j] \in Int /\ M[j] > 1 /\ M[j] < BitPower[PrimeBits] /\ BitPower[PrimeBits] <= 2 * M[j]
  BY <1>1, <1>3
<1>8. 16 * BitPower[PrimeBits] = B
  BY <1>3, <1>4, <1>5, <1>6
<1> QED BY <1>3, <1>7, <1>8 DEF Fits

LEMMA ProductsTo ==
  /\ ProductTo[0] = 1
  /\ \A j \in 0 .. Count : ProductTo[j] \in Nat \ {0}
  /\ \A j \in 1 .. Count : ProductTo[j] = ProductTo[j - 1] * M[j]
<1> DEFINE V == Nat \ {0}
           F == [n \in 1 .. Count |-> [x \in V |-> x * M[n]]]
           Table(f) == f = [j \in 0 .. Count |-> IF j = 0 THEN 1 ELSE f[j - 1] * M[j]]
<1>1. Count \in Nat
  BY RadixSizes
<1>2. F \in [1 .. Count -> [V -> V]] /\ 1 \in V
  <2> SUFFICES ASSUME NEW n \in 1 .. Count, NEW x \in V PROVE x * M[n] \in V
    OBVIOUS
  <2>1. M[n] \in Int /\ M[n] > 0
    BY RadixPrimeFacts
  <2>2. 0 * M[n] < x * M[n] /\ x * M[n] \in Int
    BY <2>1, TimesStrict
  <2> QED BY <2>1, <2>2
<1> HIDE DEF F, V
<1>3. PICK f : Runs(f, Count, V, 1, F)
  BY <1>1, <1>2, Recursion
<1> USE DEF F, V
<1>4. \A n \in 1 .. Count : f[n] = f[n - 1] * M[n]
  <2> SUFFICES ASSUME NEW n \in 1 .. Count PROVE f[n] = f[n - 1] * M[n]
    OBVIOUS
  <2>1. f[n - 1] \in V
    BY <1>1, <1>3 DEF Runs
  <2> QED BY <1>3, <2>1 DEF Runs
<1>5. Table(f)
  BY <1>1, <1>3, <1>4 DEF Runs
<1>6. Table(ProductTo)
  BY <1>5, Zenon DEF ProductTo
<1>7. ProductTo[0] = 1 /\ \A j \in 1 .. Count : ProductTo[j] = ProductTo[j - 1] * M[j]
  BY <1>1, <1>6
<1>8. \A j \in 0 .. Count : f[j] = ProductTo[j]
  <2>1. \A n \in 1 .. Count : f[n - 1] = ProductTo[n - 1] => f[n] = ProductTo[n]
    BY <1>4, <1>7
  <2>2. f[0] = ProductTo[0]
    BY <1>3, <1>7 DEF Runs
  <2>3. Follows(f, ProductTo, Count)
    BY <2>1, <2>2 DEF Follows
  <2>4. Agree(f, ProductTo, Count)
    BY <1>1, <2>3, SameRecursion
  <2> QED BY <2>4 DEF Agree
<1> QED BY <1>1, <1>3, <1>7, <1>8 DEF Runs

(* x is d more than y times m.                                             *)
Splits(x, y, m, d) == x = y * m + d

LEMMA SameRemainder ==
  ASSUME NEW p \in Int, p > 0, NEW a \in Int, NEW k \in Int, NEW c, Splits(c, k, p, a)
  PROVE  c % p = a % p
<1>1. (a + k * p) % p = a % p
  BY ModShift
<1>2. c = a + k * p
  BY DEF Splits
<1> QED BY <1>1, <1>2

(* A multiple m * y with d added, reduced and freed of d, times an inverse *)
(* of m is y again.                                                        *)
LEMMA InverseUndoes ==
  ASSUME NEW p \in Int, NEW m \in Int, NEW i \in Int, NEW g \in Int, Splits(i * m, g, p, 1),
         NEW y \in Int, NEW t \in Int, NEW b \in Int, NEW s \in Int, NEW a \in Int,
         Splits(s * p + a, y, m, t * p + b)
  PROVE  \E z \in Int : Splits((a + p - b) * i, z, p, y)
<1>1. a + p - b = y * m + (1 - s + t) * p
  <2>1. s * p \in Int /\ t * p \in Int /\ y * m \in Int /\ (1 - s + t) * p = p - s * p + t * p
    OBVIOUS
  <2> QED BY <2>1 DEF Splits
<1>2. PICK u \in Int : u = 1 - s + t
  OBVIOUS
<1>3. (y * m + u * p) * i = y * (i * m) + (u * i) * p
  OBVIOUS
<1>4. y * (g * p + 1) = y + (y * g) * p
  OBVIOUS
<1>5. (y * g + u * i) * p = (y * g) * p + (u * i) * p
  OBVIOUS
<1>6. PICK v \in Int, w \in Int : v = (y * g) * p /\ w = (u * i) * p
  OBVIOUS
<1>7. (a + p - b) * i = (y * m + u * p) * i
  BY <1>1, <1>2
<1>8. y * (i * m) = y * (g * p + 1)
  BY DEF Splits
<1>9. (a + p - b) * i = (y + v) + w
  BY <1>3, <1>4, <1>6, <1>7, <1>8, Zenon
<1>10. (y * g + u * i) * p = v + w
  BY <1>5, <1>6, Zenon
<1>11. (y + v) + w = y + (v + w)
  OBVIOUS
<1>12. (a + p - b) * i = y + (y * g + u * i) * p
  BY <1>9, <1>10, <1>11, Zenon
<1>13. y * g + u * i \in Int
  OBVIOUS
<1>14. PICK z \in Int : z = y * g + u * i
  BY <1>13
<1>15. y + z * p = z * p + y
  OBVIOUS
<1> QED BY <1>12, <1>14, <1>15, Zenon DEF Splits

Inverts(i, m, p) == (i * m) % p = 1
Freed(x, d, i, p, y) == (((x % p) + p - (d % p)) * i) % p = y % p

LEMMA GarnerStep ==
  ASSUME NEW p \in Int, p > 1, NEW m \in Int, NEW i \in Int, Inverts(i, m, p),
         NEW y \in Int, NEW d \in Int, NEW x \in Int, Splits(x, y, m, d)
  PROVE  Freed(x, d, i, p, y)
<1>1. x % p \in Int /\ x \div p \in Int /\ x = (x \div p) * p + (x % p)
  BY DivMod
<1>2. d % p \in Int /\ d \div p \in Int /\ d = (d \div p) * p + (d % p)
  BY DivMod
<1>3. PICK a \in Int, s \in Int, b \in Int, t \in Int :
        a = x % p /\ s = x \div p /\ b = d % p /\ t = d \div p
  BY <1>1, <1>2
<1>4. PICK n \in Int : n = i * m /\ n % p = 1
  BY DEF Inverts
<1>5. PICK g \in Int : n = g * p + 1
  <2>1. n \div p \in Int /\ n = (n \div p) * p + (n % p)
    BY <1>4, DivMod
  <2> QED BY <1>4, <2>1
<1>6. Splits(i * m, g, p, 1) /\ Splits(s * p + a, y, m, t * p + b)
  BY <1>1, <1>2, <1>3, <1>4, <1>5 DEF Splits
<1>7. PICK z \in Int : Splits((a + p - b) * i, z, p, y)
  BY <1>6, InverseUndoes
<1>8. PICK c : c = (a + p - b) * i
  OBVIOUS
<1>9. p > 0 /\ Splits(c, z, p, y)
  BY <1>7, <1>8
<1>10. c % p = y % p
  BY <1>9, SameRemainder
<1> QED BY <1>3, <1>8, <1>10 DEF Freed

(* What is above the first k digits.                                       *)
Above(k) == coefficient \div ProductTo[k]

Represented == coefficient \in 0 .. RadixModulus - 1

LEMMA AboveFacts ==
  ASSUME Represented
  PROVE  /\ coefficient \in Nat /\ Above(0) = coefficient
         /\ \A k \in 0 .. Count : Above(k) \in Nat
         /\ \A k \in 1 .. Count : Above(k) = Above(k - 1) \div M[k]
         /\ Above(Count) = 0
<1>1. ProductTo[0] = 1 /\ ProductTo[Count] \in Nat \ {0} /\ Count \in Nat \ {0}
  BY ProductsTo, RadixSizes
<1>2. coefficient \in Nat /\ coefficient < ProductTo[Count]
  BY <1>1 DEF Represented, RadixModulus
<1>3. Above(0) = coefficient
  <2>1. coefficient \div 1 = coefficient
    BY <1>2
  <2> QED BY <1>1, <2>1 DEF Above
<1>4. ASSUME NEW k \in 0 .. Count PROVE Above(k) \in Nat
  <2>1. ProductTo[k] \in Int /\ ProductTo[k] > 0
    BY ProductsTo
  <2>2. PICK P \in Int : P = ProductTo[k]
    BY <2>1
  <2>3. coefficient \div P \in Int /\ coefficient \div P >= 0
    BY <1>2, <2>1, <2>2
  <2> QED BY <2>2, <2>3 DEF Above
<1>5. ASSUME NEW k \in 1 .. Count PROVE Above(k) = Above(k - 1) \div M[k]
  <2>1. k - 1 \in 0 .. Count
    BY <1>1
  <2>2. ProductTo[k - 1] \in Int /\ ProductTo[k - 1] > 0 /\ M[k] \in Int /\ M[k] > 0
    BY <2>1, ProductsTo, RadixPrimeFacts
  <2>3. ProductTo[k] = ProductTo[k - 1] * M[k]
    BY ProductsTo
  <2>4. coefficient \in Int
    BY <1>2
  <2>5. (coefficient \div ProductTo[k - 1]) \div M[k] = coefficient \div (ProductTo[k - 1] * M[k])
    BY <2>2, <2>4, DivDiv
  <2> QED BY <2>3, <2>5 DEF Above
<1>6. Above(Count) = 0
  <2>1. PICK P \in Int : P = ProductTo[Count]
    BY <1>1
  <2>2. P > 0 /\ coefficient < P
    BY <1>1, <1>2, <2>1
  <2>3. coefficient \div P = 0
    <3>1. (0 * P + coefficient) \div P = 0
      BY <1>2, <2>2, DivModUnique
    <3> QED BY <1>2, <3>1
  <2> QED BY <2>1, <2>3 DEF Above
<1> QED BY <1>2, <1>3, <1>4, <1>5, <1>6

(* A digit of one prime is at most once too large for another.             *)
LEMMA DigitBelow ==
  ASSUME NEW j \in 1 .. Count, NEW z \in Nat, z < BitPower[PrimeBits]
  PROVE  Below(z, M[j]) = z % M[j]
<1>1. /\ M[j] \in Int /\ M[j] > 0 /\ BitPower[PrimeBits] <= 2 * M[j]
      /\ BitPower[PrimeBits] \in Nat
  <2>1. PrimeBits \in 0 .. TopBit
    BY RadixSizes
  <2> QED BY <2>1, RadixPrimeFacts, BitPowers
<1>2. z \in 0 .. 2 * M[j] - 1
  BY <1>1
<1>3. (IF z >= M[j] THEN z - M[j] ELSE z) = z % M[j]
  BY <1>1, <1>2, OneSubtraction
<1> QED BY <1>3 DEF Below

(* A round of the subtraction is exact.                                    *)
LEMMA RoundIs ==
  ASSUME NEW j \in 1 .. Count, NEW k \in 1 .. j - 1, NEW x \in 0 .. M[j] - 1,
         NEW d \in 0 .. M[k] - 1
  PROVE  LET z == Multiply(Multiplier(GarnerInverse(k, j), M[j]), x + M[j] - Below(d, M[j]), M[j])
         IN  /\ z = ((x + M[j] - (d % M[j])) * GarnerInverse(k, j)) % M[j]
             /\ z \in 0 .. M[j] - 1
<1>1. k \in 1 .. Count
  BY RadixSizes
<1>2. PICK p : p = M[j]
  OBVIOUS
<1>3. p \in Int /\ p > 1 /\ Fits(p) /\ 2 * p < B
  <2>1. p \in Int /\ p > 1 /\ Fits(p)
    BY <1>2, RadixPrimeFacts
  <2>2. 16 * p < B
    BY <2>1, FitsFacts
  <2> QED BY <2>1, <2>2, BaseFacts
<1>4. PICK i : i = GarnerInverse(k, j)
  OBVIOUS
<1>5. i \in 0 .. p - 1
  BY <1>2, <1>4, InverseAssumption
<1>6. Below(d, p) = d % p
  <2>1. M[k] \in Int /\ M[k] < BitPower[PrimeBits]
    BY <1>1, RadixPrimeFacts
  <2>2. BitPower[PrimeBits] \in Nat
    <3>1. PrimeBits \in 0 .. TopBit
      BY RadixSizes
    <3> QED BY <3>1, BitPowers
  <2>3. d \in Nat /\ d < BitPower[PrimeBits]
    BY <2>1, <2>2
  <2> QED BY <1>2, <2>3, DigitBelow
<1>7. PICK e : e = d % p
  OBVIOUS
<1>8. e \in Int /\ 0 <= e /\ e < p
  <2>1. d \in Int
    BY RadixPrimeFacts, <1>1
  <2> QED BY <1>3, <1>7, <2>1, DivMod
<1>9. x + p - e \in Words
  BY <1>2, <1>3, <1>8, BaseFacts DEF Words
<1>10. Multiply(Multiplier(i, p), x + p - e, p) = ((x + p - e) * i) % p
  BY <1>3, <1>5, <1>9, ProductIsExact
<1>11. ((x + p - e) * i) % p \in 0 .. p - 1
  <2>1. PICK y : y = (x + p - e) * i
    OBVIOUS
  <2>2. y \in Int
    BY <1>2, <1>3, <1>5, <1>8, <2>1
  <2>3. y % p \in 0 .. p - 1
    BY <1>3, <2>2, DivMod
  <2> QED BY <2>1, <2>3
<1> QED BY <1>2, <1>4, <1>6, <1>7, <1>10, <1>11

(* The digits found so far are those of the coefficient.                   *)
DigitsFound(n) == \A k \in 1 .. n : digits[k] = Above(k - 1) % M[k]

LEMMA RemainingIs ==
  ASSUME Represented, NEW j \in 1 .. Count, DigitsFound(j - 1)
  PROVE  \A k \in 0 .. j - 1 : Remaining(j)[k] = Above(k) % M[j]
<1> DEFINE p == M[j]
           V == 0 .. p - 1
           Part(k, x) ==
             Multiply(Multiplier(GarnerInverse(k, j), p), x + p - Below(digits[k], p), p)
           F == [k \in 1 .. j - 1 |-> [x \in V |-> Part(k, x)]]
           Table(f) == f = [k \in 0 .. j - 1 |->
                              IF k = 0 THEN coefficient % p ELSE Part(k, f[k - 1])]
<1>0. p \in Int /\ p > 1 /\ Count \in Nat /\ j - 1 \in Nat
  BY RadixPrimeFacts, RadixSizes
<1>1. coefficient % p \in V
  <2> HIDE DEF p
  <2> QED BY <1>0, AboveFacts, DivMod
<1>2. ASSUME NEW k \in 1 .. j - 1
      PROVE  /\ k \in 1 .. Count /\ k - 1 \in 0 .. Count
             /\ digits[k] \in 0 .. M[k] - 1
             /\ \A x \in V : Part(k, x) \in V
  <2>1. k \in 1 .. Count /\ k - 1 \in 0 .. Count
    BY <1>0
  <2>2. M[k] \in Int /\ M[k] > 0 /\ Above(k - 1) \in Int
    BY <2>1, RadixPrimeFacts, AboveFacts
  <2>3. digits[k] = Above(k - 1) % M[k]
    BY DEF DigitsFound
  <2>4. digits[k] \in 0 .. M[k] - 1
    BY <2>2, <2>3, DivMod
  <2>5. \A x \in V : Part(k, x) \in V
    BY <2>4, RoundIs
  <2> QED BY <2>1, <2>4, <2>5
<1> HIDE DEF p
<1>3. F \in [1 .. j - 1 -> [V -> V]]
  <2> HIDE DEF V, Part
  <2> QED BY <1>2
<1>4. PICK f : Runs(f, j - 1, V, coefficient % p, F)
  <2> HIDE DEF F, V
  <2> QED BY <1>0, <1>1, <1>3, Recursion
<1>5. /\ f \in [0 .. j - 1 -> V] /\ f[0] = coefficient % p
      /\ \A k \in 1 .. j - 1 : f[k] = F[k][f[k - 1]]
  <2> HIDE DEF F, V
  <2> QED BY <1>4 DEF Runs
<1>6. ASSUME NEW k \in 1 .. j - 1 PROVE f[k - 1] \in V /\ f[k] = Part(k, f[k - 1])
  <2> HIDE DEF Part, V
  <2>1. f[k - 1] \in V
    BY <1>5, <1>0
  <2> QED BY <1>5, <2>1
<1>7. Table(f)
  <2> HIDE DEF Part, V
  <2>1. \A k \in 0 .. j - 1 : f[k] = IF k = 0 THEN coefficient % p ELSE Part(k, f[k - 1])
    BY <1>0, <1>5, <1>6
  <2> QED BY <1>5, <2>1
<1>8. Table(Remaining(j))
  BY <1>7, Zenon DEF Remaining, p
<1>9. /\ Remaining(j)[0] = coefficient % p
      /\ \A k \in 1 .. j - 1 : Remaining(j)[k] = Part(k, Remaining(j)[k - 1])
  <2> HIDE DEF Part
  <2> QED BY <1>0, <1>8
<1> DEFINE g == [k \in 0 .. j - 1 |-> Above(k) % p]
<1>10. g[0] = coefficient % p
  BY <1>0, AboveFacts
<1>11. ASSUME NEW k \in 1 .. j - 1, Remaining(j)[k - 1] = g[k - 1]
       PROVE  Remaining(j)[k] = g[k]
  <2>1. PICK y \in Int : y = Above(k)
    BY <1>2, AboveFacts
  <2>2. PICK d \in Int : d = digits[k] /\ d \in 0 .. M[k] - 1 /\ d = Above(k - 1) % M[k]
    <3>1. M[k] \in Int
      BY <1>2, RadixPrimeFacts
    <3> QED BY <1>2, <3>1 DEF DigitsFound
  <2>3. PICK m \in Int : m = M[k] /\ m > 1
    BY <1>2, RadixPrimeFacts
  <2>4. Above(k - 1) = y * m + d
    <3>1. Above(k - 1) \in Int /\ Above(k) = Above(k - 1) \div M[k]
      BY <1>2, AboveFacts
    <3>2. PICK a \in Int : a = Above(k - 1)
      BY <3>1
    <3>3. a = (a \div m) * m + (a % m)
      BY <2>3, DivMod
    <3> QED BY <2>1, <2>2, <2>3, <3>1, <3>2, <3>3
  <2>5. PICK i \in Int : i = GarnerInverse(k, j) /\ Inverts(i, m, p)
    <3>1. GarnerInverse(k, j) \in 0 .. M[j] - 1 /\ (GarnerInverse(k, j) * M[k]) % M[j] = 1
      BY InverseAssumption
    <3> QED BY <1>0, <2>3, <3>1 DEF p, Inverts
  <2>6. PICK n \in Int : n = y * m + d /\ Splits(n, y, m, d)
    BY DEF Splits
  <2>7. PICK x : x = n % p
    OBVIOUS
  <2>8. x \in V
    BY <1>0, <2>7, DivMod
  <2>9. ((x + p - (d % p)) * i) % p = y % p
    <3>1. Freed(n, d, i, p, y)
      <4>1. p \in Int /\ p > 1 /\ Inverts(i, m, p) /\ Splits(n, y, m, d)
        BY <1>0, <2>5, <2>6
      <4> QED BY <4>1, GarnerStep
    <3> QED BY <2>7, <3>1 DEF Freed
  <2>10. Part(k, x) = ((x + p - (d % p)) * i) % p
    BY <2>2, <2>5, <2>8, RoundIs DEF p
  <2>11. k - 1 \in 0 .. j - 1 /\ k \in 0 .. j - 1
    BY <1>0
  <2>12. Remaining(j)[k - 1] = x
    BY <1>11, <2>4, <2>6, <2>7, <2>11
  <2>13. Remaining(j)[k] = Part(k, x)
    <3> HIDE DEF Part
    <3> QED BY <1>9, <2>12
  <2>14. g[k] = y % p
    BY <2>1, <2>11
  <2> QED BY <2>10, <2>13, <2>14, <2>9
<1>12. \A k \in 0 .. j - 1 : Remaining(j)[k] = g[k]
  <2> HIDE DEF g
  <2>1. Remaining(j)[0] = g[0]
    BY <1>9, <1>10
  <2>2. Follows(Remaining(j), g, j - 1)
    BY <1>11, <2>1 DEF Follows
  <2>3. Agree(Remaining(j), g, j - 1)
    BY <1>0, <2>2, SameRecursion
  <2> QED BY <2>3 DEF Agree
<1> QED BY <1>12 DEF p

(* Partial sums.                                                           *)
Sums(f, s, n) ==
  f \in [0 .. n -> Nat] /\ f[0] = 0 /\ \A k \in 1 .. n : f[k] = f[k - 1] + s[k]

LEMMA SumsExist ==
  ASSUME NEW n \in Nat, NEW s \in [1 .. n -> Nat]
  PROVE  \E f : Sums(f, s, n)
<1> DEFINE F == [k \in 1 .. n |-> [x \in Nat |-> x + s[k]]]
<1>1. F \in [1 .. n -> [Nat -> Nat]] /\ 0 \in Nat
  OBVIOUS
<1> HIDE DEF F
<1>2. PICK f : Runs(f, n, Nat, 0, F)
  BY <1>1, Recursion
<1>3. f \in [0 .. n -> Nat] /\ f[0] = 0 /\ \A k \in 1 .. n : f[k] = F[k][f[k - 1]]
  BY <1>2 DEF Runs
<1>4. ASSUME NEW k \in 1 .. n PROVE f[k] = f[k - 1] + s[k]
  <2>1. f[k - 1] \in Nat
    BY <1>3
  <2> QED BY <1>3, <2>1 DEF F
<1>5. Sums(f, s, n)
  BY <1>3, <1>4 DEF Sums
<1> QED BY <1>5

(* The numbers of digits and of words.                                     *)
LEMMA DigitValuesAre ==
  ASSUME NEW d \in Seq(Nat), Len(d) <= Count
  PROVE  /\ DigitValues(d)[0] = 0
         /\ \A k \in 1 .. Len(d) :
              DigitValues(d)[k] = DigitValues(d)[k - 1] + d[k] * ProductTo[k - 1]
<1> DEFINE n == Len(d)
           s == [k \in 1 .. n |-> d[k] * ProductTo[k - 1]]
           Table(f) == f = [k \in 0 .. n |-> IF k = 0 THEN 0
                                             ELSE f[k - 1] + d[k] * ProductTo[k - 1]]
<1>1. n \in Nat /\ n <= Count /\ Count \in Nat
  BY RadixSizes
<1>2. ASSUME NEW k \in 1 .. n PROVE d[k] * ProductTo[k - 1] \in Nat
  <2>1. k - 1 \in 0 .. Count
    BY <1>1
  <2>2. d[k] \in Nat /\ ProductTo[k - 1] \in Nat
    BY <2>1, ProductsTo
  <2> QED BY <2>2, TimesSign
<1>3. s \in [1 .. n -> Nat]
  BY <1>2
<1>4. PICK f : Sums(f, s, n)
  <2> HIDE DEF s, n
  <2> QED BY <1>1, <1>3, SumsExist
<1>5. Table(f)
  BY <1>1, <1>4 DEF Sums
<1>6. Table(DigitValues(d))
  BY <1>5, Zenon DEF DigitValues
<1>7. ASSUME NEW k \in 1 .. n
      PROVE  DigitValues(d)[k] = DigitValues(d)[k - 1] + d[k] * ProductTo[k - 1]
  <2>1. k \in 0 .. n /\ k # 0
    BY <1>1
  <2> HIDE DEF n
  <2> QED BY <1>6, <2>1
<1>8. DigitValues(d)[0] = 0
  BY <1>1, <1>6
<1> QED BY <1>7, <1>8

(* The numbers of words.                                                   *)
Place(i) == BitPower[WordBits * i]

LEMMA PlaceFacts ==
  /\ Place(0) = 1 /\ Place(WordCount) = BitPower[TopBit]
  /\ \A i \in 0 .. WordCount : WordBits * i \in 0 .. TopBit /\ Place(i) \in Nat \ {0}
  /\ \A i \in 1 .. WordCount : Place(i) = Place(i - 1) * B
<1>1. ASSUME NEW i \in 0 .. WordCount PROVE WordBits * i \in 0 .. TopBit
  <2>1. i \in Int /\ WordCount \in Int /\ WordBits \in Int /\ WordBits >= 0
    BY RadixSizes
  <2>2. 0 * WordBits <= i * WordBits /\ i * WordBits <= WordCount * WordBits
    BY <2>1, TimesMonotone
  <2> QED BY <2>1, <2>2 DEF TopBit
<1>2. ASSUME NEW i \in 0 .. WordCount PROVE Place(i) \in Nat \ {0}
  BY <1>1, BitPowers DEF Place
<1>3. Place(0) = 1 /\ Place(WordCount) = BitPower[TopBit]
  <2>1. WordBits * 0 = 0
    BY RadixSizes
  <2> QED BY <2>1, BitPowers DEF Place, TopBit
<1>4. ASSUME NEW i \in 1 .. WordCount PROVE Place(i) = Place(i - 1) * B
  <2>1. i \in 0 .. WordCount /\ i - 1 \in 0 .. WordCount
    BY RadixSizes
  <2>2. PICK a \in Nat : a = WordBits * (i - 1)
    BY <1>1, <2>1
  <2>3. WordBits * i = a + WordBits /\ WordBits \in Nat
    BY <2>2, RadixSizes
  <2>4. a + WordBits <= TopBit
    BY <1>1, <2>1, <2>3, RadixSizes
  <2>5. BitPower[a + WordBits] = BitPower[a] * BitPower[WordBits]
    BY <2>3, <2>4, BitPowerAdds
  <2> QED BY <2>2, <2>3, <2>5, RadixAssumption DEF Place
<1> QED BY <1>1, <1>2, <1>3, <1>4

LEMMA WordValuesAre ==
  ASSUME NEW w \in Seq(Words), Len(w) <= WordCount
  PROVE  /\ WordValues(w)[0] = 0
         /\ \A i \in 0 .. Len(w) : WordValues(w)[i] \in Nat
         /\ \A i \in 1 .. Len(w) : WordValues(w)[i] = WordValues(w)[i - 1] + w[i] * Place(i - 1)
<1> DEFINE n == Len(w)
           s == [i \in 1 .. n |-> w[i] * Place(i - 1)]
           Table(f) == f = [i \in 0 .. n |-> IF i = 0 THEN 0
                                             ELSE f[i - 1] + w[i] * BitPower[WordBits * (i - 1)]]
<1>1. n \in Nat /\ n <= WordCount /\ WordCount \in Nat
  BY RadixSizes
<1>2. ASSUME NEW i \in 1 .. n PROVE w[i] \in Words /\ w[i] * Place(i - 1) \in Nat
  <2>1. i - 1 \in 0 .. WordCount
    BY <1>1
  <2>2. w[i] \in Words
    OBVIOUS
  <2>3. w[i] \in Nat /\ Place(i - 1) \in Nat
    BY <2>1, <2>2, PlaceFacts, BaseFacts DEF Words
  <2> QED BY <2>2, <2>3, TimesSign
<1>3. s \in [1 .. n -> Nat]
  BY <1>2
<1>4. PICK f : Sums(f, s, n)
  <2> HIDE DEF s, n
  <2> QED BY <1>1, <1>3, SumsExist
<1>5. f \in [0 .. n -> Nat] /\ f[0] = 0 /\ \A i \in 1 .. n : f[i] = f[i - 1] + w[i] * Place(i - 1)
  BY <1>4 DEF Sums
<1>6. Table(f)
  BY <1>1, <1>5 DEF Place
<1>7. Table(WordValues(w))
  BY <1>6, Zenon DEF WordValues
<1>8. /\ WordValues(w)[0] = 0
      /\ \A i \in 1 .. n : WordValues(w)[i] = WordValues(w)[i - 1] + w[i] * Place(i - 1)
  BY <1>1, <1>7 DEF Place
<1>9. \A i \in 0 .. n : WordValues(w)[i] = f[i]
  <2>1. \A i \in 1 .. n : WordValues(w)[i - 1] = f[i - 1] => WordValues(w)[i] = f[i]
    BY <1>5, <1>8
  <2>2. WordValues(w)[0] = f[0]
    BY <1>5, <1>8
  <2> HIDE DEF n
  <2>3. Follows(WordValues(w), f, n)
    BY <2>1, <2>2 DEF Follows
  <2>4. Agree(WordValues(w), f, n)
    BY <1>1, <2>3, SameRecursion
  <2> QED BY <2>4 DEF Agree
<1> QED BY <1>5, <1>8, <1>9

(* The first words have the same number whatever follows them.             *)
LEMMA WordPrefix ==
  ASSUME NEW w \in Seq(Words), Len(w) <= WordCount, NEW v \in Seq(Words), Len(v) <= WordCount,
         NEW n \in Nat, n <= Len(w), n <= Len(v), \A i \in 1 .. n : w[i] = v[i]
  PROVE  WordValues(w)[n] = WordValues(v)[n]
<1>1. WordValues(w)[0] = WordValues(v)[0]
  BY WordValuesAre
<1>2. ASSUME NEW i \in 1 .. n, WordValues(w)[i - 1] = WordValues(v)[i - 1]
      PROVE  WordValues(w)[i] = WordValues(v)[i]
  <2>1. i \in 1 .. Len(w) /\ i \in 1 .. Len(v)
    OBVIOUS
  <2>2. WordValues(w)[i] = WordValues(w)[i - 1] + w[i] * Place(i - 1)
    BY <2>1, WordValuesAre
  <2>3. WordValues(v)[i] = WordValues(v)[i - 1] + v[i] * Place(i - 1)
    BY <2>1, WordValuesAre
  <2> QED BY <1>2, <2>2, <2>3
<1>3. Follows(WordValues(w), WordValues(v), n)
  BY <1>1, <1>2 DEF Follows
<1>4. Agree(WordValues(w), WordValues(v), n)
  BY <1>3, SameRecursion
<1> QED BY <1>4 DEF Agree

(* A quotient by B stays below p.                                          *)
LEMMA CarryBound ==
  ASSUME NEW p \in Int, p > 0, NEW w \in Words, NEW c \in 0 .. p - 1
  PROVE  /\ w * p + c \in Nat /\ (w * p + c) \div B \in 0 .. p - 1
         /\ (w * p + c) % B \in Words
         /\ w * p + c = ((w * p + c) \div B) * B + ((w * p + c) % B)
<1>1. B \in Int /\ B > 0 /\ w \in Int /\ 0 <= w /\ w <= B - 1
  BY BaseFacts DEF Words
<1>2. PICK y \in Int : y = w * p
  BY <1>1
<1>3. 0 <= y /\ y <= p * B - p
  <2>1. 0 * p <= w * p /\ w * p <= (B - 1) * p
    BY <1>1, TimesMonotone
  <2>2. (B - 1) * p = p * B - p /\ p * B \in Int
    BY <1>1
  <2> QED BY <1>2, <2>1, <2>2
<1>4. PICK x \in Int : x = y + c
  BY <1>2
<1>5. PICK k \in Int, r \in Int : k = x \div B /\ r = x % B /\ x = k * B + r /\ 0 <= r /\ r < B
  BY <1>1, DivMod
<1>6. p * B \in Int /\ k * B \in Int
  BY <1>1
<1>7. 0 <= x /\ x < p * B
  BY <1>3, <1>4, <1>6
<1>8. k < p
  <2>1. k * B < p * B
    BY <1>5, <1>6, <1>7
  <2> QED BY <1>1, <2>1, TimesCancel
<1>9. k >= 0
  <2>1. -1 * B < k * B
    BY <1>1, <1>5, <1>6, <1>7
  <2>2. -1 < k
    BY <1>1, <2>1, TimesCancel
  <2> QED BY <2>2
<1> QED BY <1>1, <1>2, <1>4, <1>5, <1>7, <1>8, <1>9 DEF Words

LEMMA CarriesAre ==
  ASSUME NEW p \in Int, p > 0, NEW w \in Seq(Words), NEW d \in 0 .. p - 1
  PROVE  /\ Carries(w, p, d)[0] = d
         /\ \A i \in 0 .. Len(w) : Carries(w, p, d)[i] \in 0 .. p - 1
         /\ \A i \in 1 .. Len(w) :
              Carries(w, p, d)[i] = (w[i] * p + Carries(w, p, d)[i - 1]) \div B
<1> DEFINE n == Len(w)
           V == 0 .. p - 1
           F == [i \in 1 .. n |-> [x \in V |-> (w[i] * p + x) \div B]]
           Table(f) == f = [i \in 0 .. n |-> IF i = 0 THEN d ELSE (w[i] * p + f[i - 1]) \div B]
<1>1. n \in Nat /\ \A i \in 1 .. n : w[i] \in Words
  OBVIOUS
<1>2. ASSUME NEW i \in 1 .. n, NEW x \in V PROVE (w[i] * p + x) \div B \in V
  BY <1>1, CarryBound
<1>3. F \in [1 .. n -> [V -> V]] /\ d \in V
  <2> HIDE DEF V
  <2>1. d \in V
    BY DEF V
  <2> QED BY <1>2, <2>1
<1>4. PICK f : Runs(f, n, V, d, F)
  <2> HIDE DEF F, V, n
  <2> QED BY <1>1, <1>3, Recursion
<1> HIDE DEF V
<1>5. /\ f \in [0 .. n -> V] /\ f[0] = d
      /\ \A i \in 1 .. n : f[i] = (w[i] * p + f[i - 1]) \div B
  <2> HIDE DEF F
  <2>1. f \in [0 .. n -> V] /\ f[0] = d /\ \A i \in 1 .. n : f[i] = F[i][f[i - 1]]
    BY <1>4 DEF Runs
  <2>2. ASSUME NEW i \in 1 .. n PROVE f[i] = (w[i] * p + f[i - 1]) \div B
    <3>1. f[i - 1] \in V
      BY <1>1, <2>1
    <3>2. F[i][f[i - 1]] = (w[i] * p + f[i - 1]) \div B
      BY <3>1 DEF F
    <3> QED BY <2>1, <3>2
  <2> QED BY <2>1, <2>2
<1>6. Table(f)
  <2> HIDE DEF n
  <2>1. \A i \in 0 .. n : f[i] = IF i = 0 THEN d ELSE (w[i] * p + f[i - 1]) \div B
    BY <1>1, <1>5
  <2> QED BY <1>5, <2>1
<1>7. Table(Carries(w, p, d))
  BY <1>6, Zenon DEF Carries
<1>8. ASSUME NEW i \in 1 .. n
      PROVE  Carries(w, p, d)[i] = (w[i] * p + Carries(w, p, d)[i - 1]) \div B
  <2>1. i \in 0 .. n /\ i # 0
    BY <1>1
  <2> HIDE DEF n
  <2> QED BY <1>7, <2>1
<1>9. Carries(w, p, d)[0] = d
  BY <1>1, <1>7
<1>10. Follows(Carries(w, p, d), f, n)
  BY <1>5, <1>8, <1>9 DEF Follows
<1>11. Agree(Carries(w, p, d), f, n)
  <2> HIDE DEF n
  <2> QED BY <1>1, <1>10, SameRecursion
<1>12. ASSUME NEW i \in 0 .. n PROVE Carries(w, p, d)[i] \in V
  BY <1>5, <1>11 DEF Agree
<1> QED BY <1>8, <1>9, <1>12 DEF V

LowWords(w, p, d) == [i \in 1 .. Len(w) |-> (w[i] * p + Carries(w, p, d)[i - 1]) % B]

(* Every word and carry together are that word of the product.             *)
LEMMA LowWordsAre ==
  ASSUME NEW p \in Int, p > 0, NEW w \in Seq(Words), NEW d \in 0 .. p - 1, Len(w) <= WordCount
  PROVE  /\ LowWords(w, p, d) \in Seq(Words) /\ Len(LowWords(w, p, d)) = Len(w)
         /\ \A i \in 0 .. Len(w) :
              WordValues(LowWords(w, p, d))[i] + Carries(w, p, d)[i] * Place(i)
                = WordValues(w)[i] * p + d
<1> DEFINE n == Len(w)
           low == LowWords(w, p, d)
           c == Carries(w, p, d)
           f == [i \in 0 .. n |-> WordValues(low)[i] + c[i] * Place(i)]
           g == [i \in 0 .. n |-> WordValues(w)[i] * p + d]
<1>1. n \in Nat /\ n <= WordCount /\ WordCount \in Nat /\ \A i \in 1 .. n : w[i] \in Words
  BY RadixSizes
<1>2. ASSUME NEW i \in 1 .. n
      PROVE  /\ low[i] \in Words /\ c[i] \in 0 .. p - 1 /\ c[i - 1] \in 0 .. p - 1
             /\ low[i] + c[i] * B = w[i] * p + c[i - 1]
  <2>1. i \in 0 .. n /\ i - 1 \in 0 .. n
    BY <1>1
  <2>2. c[i - 1] \in 0 .. p - 1 /\ c[i] \in 0 .. p - 1 /\ c[i] = (w[i] * p + c[i - 1]) \div B
    BY <2>1, CarriesAre
  <2>3. low[i] = (w[i] * p + c[i - 1]) % B
    BY DEF LowWords
  <2>4. PICK x : x = w[i] * p + c[i - 1]
    OBVIOUS
  <2>5. x \in Nat /\ x \div B \in 0 .. p - 1 /\ x % B \in Words /\ x = (x \div B) * B + (x % B)
    BY <1>1, <2>2, <2>4, CarryBound
  <2>6. low[i] \in Words
    BY <2>3, <2>4, <2>5
  <2>7. low[i] \in Int /\ c[i] \in Int /\ B \in Int /\ c[i] * B \in Int
    BY <2>2, <2>6, BaseFacts DEF Words
  <2>8. x = c[i] * B + low[i]
    BY <2>2, <2>3, <2>4, <2>5
  <2> QED BY <2>2, <2>4, <2>6, <2>7, <2>8
<1>3. low \in Seq(Words) /\ Len(low) = n
  BY <1>1, <1>2 DEF LowWords
<1>4. f[0] = g[0]
  <2>1. WordValues(low)[0] = 0 /\ WordValues(w)[0] = 0 /\ c[0] = d /\ Place(0) = 1 /\ 0 \in 0 .. n
    BY <1>1, <1>3, WordValuesAre, CarriesAre, PlaceFacts
  <2> HIDE DEF low, c, n
  <2> QED BY <2>1
<1>5. ASSUME NEW i \in 1 .. n, f[i - 1] = g[i - 1] PROVE f[i] = g[i]
  <2>1. /\ i \in 1 .. WordCount /\ i - 1 \in 0 .. n /\ i \in 0 .. n
        /\ i \in 0 .. WordCount /\ i - 1 \in 0 .. WordCount
    BY <1>1
  <2>2. PICK P \in Int, Q \in Int : P = Place(i - 1) /\ Q = Place(i) /\ Q = P * B
    BY <2>1, PlaceFacts
  <2>3. PICK u \in Int, l \in Int, a \in Int, b \in Int :
          u = w[i] /\ l = low[i] /\ a = c[i - 1] /\ b = c[i] /\ l + b * B = u * p + a
    <3>1. /\ w[i] \in Words /\ low[i] \in Words /\ c[i] \in 0 .. p - 1 /\ c[i - 1] \in 0 .. p - 1
          /\ low[i] + c[i] * B = w[i] * p + c[i - 1]
      BY <1>1, <1>2
    <3> HIDE DEF low, c
    <3>2. w[i] \in Int /\ low[i] \in Int /\ c[i] \in Int /\ c[i - 1] \in Int
      <4>1. w[i] \in Words /\ low[i] \in Words /\ c[i] \in 0 .. p - 1 /\ c[i - 1] \in 0 .. p - 1
        BY <3>1
      <4>2. \A z \in Words : z \in Int
        BY BaseFacts DEF Words
      <4> QED BY <4>1, <4>2
    <3> QED BY <3>1, <3>2, Zenon
  <2>4. PICK s \in Int, t \in Int : /\ s = WordValues(low)[i - 1]
                                   /\ t = WordValues(w)[i - 1]
    <3>1. low \in Seq(Words) /\ Len(low) = n /\ n <= WordCount /\ i - 1 \in 0 .. n
      BY <1>1, <1>3, <2>1
    <3> HIDE DEF low
    <3>2. WordValues(low)[i - 1] \in Nat /\ WordValues(w)[i - 1] \in Nat
      BY <3>1, WordValuesAre
    <3> QED BY <3>2
  <2>5. WordValues(low)[i] = s + l * P /\ WordValues(w)[i] = t + u * P
    BY <1>3, <2>2, <2>3, <2>4, WordValuesAre
  <2>6. f[i - 1] = s + a * P /\ g[i - 1] = t * p + d
    BY <2>1, <2>2, <2>3, <2>4
  <2>7. f[i] = (s + l * P) + b * Q /\ g[i] = (t + u * P) * p + d
    BY <2>1, <2>2, <2>3, <2>5
  <2> HIDE DEF f, g
  <2>8. s + a * P = t * p + d
    BY <1>5, <2>6
  <2>9. B \in Int
    BY BaseFacts
  <2>10. l * P + b * (P * B) = (l + b * B) * P
    BY <2>9
  <2>11. (u * p + a) * P = (u * P) * p + a * P
    OBVIOUS
  <2>12. (t + u * P) * p = t * p + (u * P) * p
    OBVIOUS
  <2>13. PICK e1 \in Int, e2 \in Int, e3 \in Int, e4 \in Int, e5 \in Int :
           e1 = l * P /\ e2 = b * Q /\ e3 = a * P /\ e4 = t * p /\ e5 = (u * P) * p
    OBVIOUS
  <2>14. e1 + e2 = e5 + e3
    BY <2>2, <2>3, <2>10, <2>11, <2>13
  <2>15. f[i] = (s + e1) + e2 /\ g[i] = (e4 + e5) + d /\ s + e3 = e4 + d
    BY <2>7, <2>8, <2>12, <2>13
  <2> QED BY <2>14, <2>15
<1>6. \A i \in 0 .. n : f[i] = g[i]
  <2> HIDE DEF f, g, n
  <2>1. Follows(f, g, n)
    BY <1>4, <1>5 DEF Follows
  <2>2. Agree(f, g, n)
    BY <1>1, <2>1, SameRecursion
  <2> QED BY <2>2 DEF Agree
<1> QED BY <1>3, <1>6

LEMMA TimesPlusIs ==
  ASSUME NEW p \in Int, p > 0, p < B, NEW w \in Seq(Words), NEW d \in 0 .. p - 1,
         Len(w) \in 1 .. WordCount, WordValues(w)[Len(w)] * p + d < BitPower[TopBit]
  PROVE  /\ TimesPlus(w, p, d) \in Seq(Words) /\ Len(TimesPlus(w, p, d)) \in 1 .. WordCount
         /\ WordValues(TimesPlus(w, p, d))[Len(TimesPlus(w, p, d))] = WordValues(w)[Len(w)] * p + d
<1>1. PICK n \in Nat : n = Len(w) /\ n >= 1 /\ n <= WordCount
  OBVIOUS
<1>2. PICK low : low = LowWords(w, p, d)
  OBVIOUS
<1>3. PICK c : c = Carries(w, p, d)
  OBVIOUS
<1>4. low \in Seq(Words) /\ Len(low) = n /\ n \in 0 .. n /\ WordCount \in Nat
  BY <1>1, <1>2, LowWordsAre, RadixSizes
<1>5. PICK k \in 0 .. p - 1 : k = c[n]
  BY <1>1, <1>3, <1>4, CarriesAre
<1>6. PICK x : x = WordValues(w)[n] * p + d
  OBVIOUS
<1>7. WordValues(low)[n] + k * Place(n) = x
  <2>1. \A i \in 0 .. Len(w) :
          WordValues(LowWords(w, p, d))[i] + Carries(w, p, d)[i] * Place(i)
            = WordValues(w)[i] * p + d
    BY <1>1, LowWordsAre
  <2> QED BY <1>1, <1>2, <1>3, <1>4, <1>5, <1>6, <2>1
<1>8. TimesPlus(w, p, d) = IF k = 0 THEN low ELSE Append(low, k)
  BY <1>1, <1>2, <1>3, <1>5 DEF TimesPlus, LowWords
<1>9. WordValues(low)[n] \in Nat /\ n \in 0 .. WordCount /\ Place(n) \in Nat
  <2>1. Len(low) <= WordCount /\ n \in 0 .. Len(low) /\ n \in 0 .. WordCount
    BY <1>1, <1>4
  <2> QED BY <1>4, <2>1, WordValuesAre, PlaceFacts
<1>10. CASE k = 0
  <2>1. k * Place(n) = 0
    BY <1>9, <1>10
  <2>2. WordValues(low)[n] = x
    BY <1>7, <1>9, <2>1
  <2> QED BY <1>1, <1>4, <1>6, <1>8, <1>10, <2>2
<1>11. CASE k # 0
  <2>1. n < WordCount
    <3>1. x < BitPower[TopBit]
      BY <1>1, <1>6
    <3>2. 1 * Place(n) <= k * Place(n) /\ k * Place(n) \in Int
      BY <1>9, <1>11, TimesMonotone
    <3>3. Place(n) <= x
      BY <1>7, <1>9, <3>2
    <3>4. Place(WordCount) = BitPower[TopBit]
      BY PlaceFacts
    <3>5. n # WordCount
      <4>1. n = WordCount => Place(n) = BitPower[TopBit]
        BY <3>4
      <4>2. BitPower[TopBit] \in Int /\ x \in Int
        <5>1. TopBit \in 0 .. TopBit
          BY RadixSizes
        <5> QED BY <5>1, <1>7, <1>9, <3>2, BitPowers
      <4>3. ~ (Place(n) = BitPower[TopBit])
        <5>1. PICK a \in Int, b \in Int : a = Place(n) /\ b = BitPower[TopBit]
          BY <1>9, <4>2
        <5>2. a <= x /\ x < b /\ x \in Int
          BY <3>1, <3>3, <4>2, <5>1
        <5>3. a # b
          BY <5>2
        <5> QED BY <5>1, <5>3
      <4> QED BY <4>1, <4>3, Zenon
    <3> QED BY <1>1, <1>4, <3>5
  <2>2. PICK v : v = Append(low, k)
    OBVIOUS
  <2>3. k \in Words
    BY BaseFacts DEF Words
  <2>4. /\ v \in Seq(Words) /\ Len(v) = n + 1 /\ v[n + 1] = k
        /\ \A i \in 1 .. n : v[i] = low[i]
    BY <1>4, <2>2, <2>3
  <2>5. n + 1 \in 1 .. WordCount /\ Len(v) <= WordCount /\ Len(low) <= WordCount
    BY <1>1, <1>4, <2>1, <2>4
  <2>6. WordValues(v)[n] = WordValues(low)[n]
    <3>1. /\ v \in Seq(Words) /\ low \in Seq(Words) /\ n \in Nat /\ n <= Len(v) /\ n <= Len(low)
          /\ \A i \in 1 .. n : v[i] = low[i]
      BY <1>4, <2>4
    <3> QED BY <2>5, <3>1, WordPrefix
  <2>7. WordValues(v)[n + 1] = WordValues(v)[n] + k * Place(n)
    <3>1. n + 1 \in 1 .. Len(v) /\ (n + 1) - 1 = n
      BY <2>4
    <3>2. WordValues(v)[n + 1] = WordValues(v)[(n + 1) - 1] + v[n + 1] * Place((n + 1) - 1)
      BY <2>4, <2>5, <3>1, WordValuesAre
    <3> QED BY <2>4, <3>1, <3>2
  <2>8. WordValues(v)[n + 1] = x
    BY <1>7, <2>6, <2>7
  <2> QED BY <1>1, <1>6, <1>8, <1>11, <2>2, <2>4, <2>5, <2>8
<1> QED BY <1>10, <1>11

LEMMA DivSplits ==
  ASSUME NEW b \in Int, b > 0, NEW k \in Int, NEW r \in Int, 0 <= r, r < b,
         NEW x, Splits(x, k, b, r)
  PROVE  x \div b = k /\ x % b = r
<1>1. (k * b + r) \div b = k /\ (k * b + r) % b = r
  BY DivModUnique
<1> QED BY <1>1 DEF Splits

(* The words below a place are a number below it, ...                      *)
LEMMA WordsBelow ==
  ASSUME NEW w \in Seq(Words), Len(w) <= WordCount
  PROVE  \A i \in 0 .. Len(w) : WordValues(w)[i] < Place(i)
<1> DEFINE S == {i \in Nat : i <= Len(w) => WordValues(w)[i] < Place(i)}
<1>1. 0 \in S
  BY WordValuesAre, PlaceFacts
<1>2. ASSUME NEW i \in Nat, i \in S PROVE i + 1 \in S
  <2> SUFFICES ASSUME i + 1 <= Len(w) PROVE WordValues(w)[i + 1] < Place(i + 1)
    OBVIOUS
  <2>1. /\ WordValues(w)[i] < Place(i) /\ i + 1 \in 1 .. Len(w) /\ (i + 1) - 1 = i
        /\ i \in 0 .. Len(w) /\ i \in 0 .. WordCount /\ i + 1 \in 1 .. WordCount
    BY <1>2, RadixSizes
  <2>2. WordValues(w)[i + 1] = WordValues(w)[(i + 1) - 1] + w[i + 1] * Place((i + 1) - 1)
    BY <2>1, WordValuesAre
  <2>3. Place(i + 1) = Place((i + 1) - 1) * B
    BY <2>1, PlaceFacts
  <2>4. PICK P \in Int, x \in Int, u \in Int :
          P = Place(i) /\ x = WordValues(w)[i] /\ u = w[i + 1] /\ P > 0 /\ u <= B - 1 /\ u >= 0
    <3>1. Place(i) \in Nat \ {0} /\ WordValues(w)[i] \in Nat
      BY <2>1, PlaceFacts, WordValuesAre
    <3>2. w[i + 1] \in Words
      BY <2>1
    <3>3. w[i + 1] \in Int /\ w[i + 1] <= B - 1 /\ w[i + 1] >= 0
      BY <3>2, BaseFacts DEF Words
    <3> QED BY <3>1, <3>3
  <2>5. u * P <= (B - 1) * P /\ (B - 1) * P = P * B - P /\ P * B \in Int /\ u * P \in Int
    <3>1. B - 1 \in Int /\ (B - 1) * P = P * B - P /\ P * B \in Int /\ u * P \in Int
      BY BaseFacts
    <3>2. u * P <= (B - 1) * P
      BY <2>4, <3>1, TimesMonotone
    <3> QED BY <3>1, <3>2
  <2>6. x < P
    BY <2>1, <2>4
  <2>7. x + u * P < P * B
    BY <2>5, <2>6
  <2>8. WordValues(w)[i + 1] = x + u * P /\ Place(i + 1) = P * B
    BY <2>1, <2>2, <2>3, <2>4
  <2> QED BY <2>7, <2>8
<1> HIDE DEF S
<1>3. \A i \in Nat : i \in S
  BY <1>1, <1>2, SetInduction
<1>4. \A i \in 0 .. Len(w) : i \in Nat /\ i <= Len(w)
  OBVIOUS
<1> QED BY <1>3, <1>4 DEF S

(* ... and those from it on a multiple of it.                              *)
LEMMA WordsAbove ==
  ASSUME NEW w \in Seq(Words), Len(w) <= WordCount
  PROVE  \A i \in 0 .. Len(w) :
           \E t \in Nat : WordValues(w)[Len(w)] = WordValues(w)[i] + t * Place(i)
<1> DEFINE n == Len(w)
           V == WordValues(w)[n]
           Has(i) == \E t \in Nat : V = WordValues(w)[i] + t * Place(i)
           S == {k \in Nat : k <= n => Has(n - k)}
<1>0. n \in Nat /\ n <= WordCount /\ WordCount \in Nat
  BY RadixSizes
<1>1. 0 \in S
  <2>1. n \in 0 .. n /\ n \in 0 .. WordCount
    BY <1>0
  <2>2. V \in Int /\ Place(n) \in Int
    BY <2>1, WordValuesAre, PlaceFacts
  <2>3. V = WordValues(w)[n] + 0 * Place(n)
    BY <2>2
  <2> HIDE DEF V
  <2>4. Has(n)
    BY <2>3
  <2> HIDE DEF Has
  <2>5. n - 0 = n
    BY <1>0
  <2> QED BY <2>4, <2>5
<1>2. ASSUME NEW k \in Nat, k \in S PROVE k + 1 \in S
  <2> SUFFICES ASSUME k + 1 <= n PROVE Has(n - (k + 1))
    <3> HIDE DEF Has, n
    <3> QED OBVIOUS
  <2>1. PICK i \in Nat : i = n - (k + 1) /\ n - k = i + 1 /\ k <= n
    <3>1. n - (k + 1) \in Nat /\ n - k = (n - (k + 1)) + 1 /\ k <= n
      BY <1>0
    <3> QED BY <3>1, Zenon
  <2>2. PICK t \in Nat : V = WordValues(w)[i + 1] + t * Place(i + 1)
    <3> HIDE DEF Has
    <3>1. Has(i + 1)
      BY <1>2, <2>1
    <3> QED BY <3>1 DEF Has
  <2>3. /\ i + 1 \in 1 .. n /\ (i + 1) - 1 = i /\ i + 1 \in 1 .. WordCount
        /\ i \in 0 .. n /\ i \in 0 .. WordCount
    BY <1>0, <2>1
  <2>4. WordValues(w)[i + 1] = WordValues(w)[(i + 1) - 1] + w[i + 1] * Place((i + 1) - 1)
    BY <2>3, WordValuesAre
  <2>5. Place(i + 1) = Place((i + 1) - 1) * B
    BY <2>3, PlaceFacts
  <2>6. PICK P \in Int, x \in Int, u \in Nat : P = Place(i) /\ x = WordValues(w)[i] /\ u = w[i + 1]
    <3>1. Place(i) \in Int /\ WordValues(w)[i] \in Int
      BY <2>3, PlaceFacts, WordValuesAre
    <3>2. w[i + 1] \in Words
      BY <2>3
    <3>3. w[i + 1] \in Nat
      BY <3>2, BaseFacts DEF Words
    <3> QED BY <3>1, <3>3
  <2>7. V = (x + u * P) + t * (P * B)
    BY <2>2, <2>3, <2>4, <2>5, <2>6
  <2>8. t * (P * B) = (t * B) * P /\ (u + t * B) * P = u * P + (t * B) * P
        /\ u * P \in Int /\ (t * B) * P \in Int
    BY BaseFacts
  <2> HIDE DEF V
  <2>9. V = x + (u + t * B) * P
    BY <2>7, <2>8
  <2>10. t * B \in Nat
    BY BaseFacts, TimesSign
  <2>11. PICK s \in Nat : s = u + t * B
    BY <2>10
  <2>12. V = WordValues(w)[i] + s * Place(i)
    BY <2>6, <2>9, <2>11
  <2> QED BY <2>1, <2>12
<1> HIDE DEF S
<1>3. \A k \in Nat : k \in S
  BY <1>1, <1>2, SetInduction
<1>4. ASSUME NEW i \in 0 .. n PROVE Has(i)
  <2>1. n - i \in Nat /\ n - i <= n /\ n - (n - i) = i
    BY <1>0
  <2> HIDE DEF Has
  <2> QED BY <1>3, <2>1 DEF S
<1> QED BY <1>4

(* A word is the number divided by its place.                              *)
LEMMA WordOf ==
  ASSUME NEW w \in Seq(Words), Len(w) <= WordCount, NEW i \in 0 .. WordCount - 1
  PROVE  (WordValues(w)[Len(w)] \div Place(i)) % B = IF i < Len(w) THEN w[i + 1] ELSE 0
<1>1. PICK n \in Nat, V \in Nat : n = Len(w) /\ V = WordValues(w)[n]
  <2>1. Len(w) \in 0 .. Len(w)
    OBVIOUS
  <2> QED BY <2>1, WordValuesAre
<1>2. i \in 0 .. WordCount /\ i \in Nat /\ WordCount \in Nat
  BY RadixSizes
<1>3. PICK P \in Int : P = Place(i) /\ P > 0
  BY <1>2, PlaceFacts
<1>4. CASE i < n
  <2>1. /\ i + 1 \in 1 .. n /\ i + 1 \in 0 .. n /\ (i + 1) - 1 = i /\ i \in 0 .. n
        /\ i + 1 \in 1 .. WordCount
    BY <1>1, <1>2, <1>4
  <2>2. PICK t \in Nat : V = WordValues(w)[i + 1] + t * Place(i + 1)
    BY <1>1, <2>1, WordsAbove
  <2>3. WordValues(w)[i + 1] = WordValues(w)[(i + 1) - 1] + w[i + 1] * Place((i + 1) - 1)
    BY <1>1, <2>1, WordValuesAre
  <2>4. Place(i + 1) = Place((i + 1) - 1) * B
    BY <2>1, PlaceFacts
  <2>5. PICK x \in Nat, u \in Nat : /\ x = WordValues(w)[i] /\ u = w[i + 1]
                                    /\ x < P /\ u < B
    <3>1. WordValues(w)[i] \in Nat /\ WordValues(w)[i] < Place(i)
      BY <1>1, <2>1, WordValuesAre, WordsBelow
    <3>2. w[i + 1] \in Words
      BY <1>1, <2>1
    <3>3. w[i + 1] \in Nat /\ w[i + 1] < B
      BY <3>2, BaseFacts DEF Words
    <3> QED BY <1>3, <3>1, <3>3
  <2>6. V = (x + u * P) + t * (P * B)
    BY <1>3, <2>1, <2>2, <2>3, <2>4, <2>5
  <2>7. t * (P * B) = (t * B) * P /\ (t * B + u) * P = (t * B) * P + u * P
        /\ u * P \in Int /\ (t * B) * P \in Int
    BY BaseFacts
  <2>8. V = (t * B + u) * P + x
    BY <2>6, <2>7
  <2>9. PICK k \in Int : k = t * B + u
    BY BaseFacts
  <2>10. V \div P = k
    <3>1. Splits(V, k, P, x)
      BY <2>8, <2>9 DEF Splits
    <3>2. 0 <= x /\ x < P /\ x \in Int
      BY <2>5
    <3> QED BY <1>3, <3>1, <3>2, DivSplits
  <2>11. k % B = u
    <3>1. Splits(k, t, B, u)
      BY <2>9 DEF Splits
    <3>2. 0 <= u /\ u < B /\ u \in Int /\ t \in Int
      BY <2>5
    <3> QED BY <3>1, <3>2, BaseFacts, DivSplits
  <2> QED BY <1>1, <1>3, <1>4, <2>5, <2>10, <2>11
<1>5. CASE i >= n
  <2>1. V \in Nat /\ V < Place(n) /\ n \in 0 .. WordCount
    <3>1. n \in 0 .. n /\ n \in 0 .. WordCount
      BY <1>1, <1>2
    <3> QED BY <1>1, <3>1, WordValuesAre, WordsBelow
  <2>2. Place(n) <= P
    <3>1. n * WordBits <= i * WordBits
      BY <1>2, <1>5, RadixSizes, TimesMonotone
    <3>2. WordBits * n \in 0 .. TopBit /\ WordBits * i \in 0 .. TopBit
      BY <1>2, <2>1, PlaceFacts
    <3>3. PICK a \in Nat, b \in Nat : a = WordBits * n /\ b = WordBits * i /\ b <= TopBit
      BY <3>2, RadixSizes
    <3>4. a <= b
      BY <1>2, <3>1, <3>3, RadixSizes
    <3>5. BitPower[a] <= BitPower[b]
      BY <3>3, <3>4, BitPowersGrow
    <3> QED BY <1>3, <3>3, <3>5 DEF Place
  <2>3. V < P
    <3>1. Place(n) \in Int
      BY <2>1, PlaceFacts
    <3> QED BY <2>1, <2>2, <3>1
  <2>4. V \div P = 0
    <3>1. (0 * P + V) \div P = 0
      BY <1>3, <2>1, <2>3, DivModUnique
    <3> QED BY <2>1, <3>1, <1>3
  <2>5. 0 % B = 0
    BY BaseFacts, ModSmall
  <2> QED BY <1>1, <1>3, <1>5, <2>4, <2>5
<1> QED BY <1>1, <1>2, <1>4, <1>5

(* Two numbers with the same remainder.                                    *)
SameRest(a, c, b) == a % b = c % b

LEMMA RestOfProduct ==
  ASSUME NEW a \in Int, NEW c \in Int, NEW b \in Int, b > 0
  PROVE  SameRest((a % b) * c, a * c, b)
  BY ModTimes DEF SameRest

LEMMA RestOfSum ==
  ASSUME NEW a \in Int, NEW c \in Int, NEW b \in Int, b > 0
  PROVE  SameRest((a % b) + c, a + c, b)
  BY ModAdd DEF SameRest

LEMMA RestOfRest ==
  ASSUME NEW a \in Int, NEW b \in Int, NEW d \in Int, b > 0, d > 0, NEW e, e = b * d
  PROVE  SameRest(a % e, a, b)
  BY ModMod DEF SameRest

TotalBits == PrimeBits * Count

(* The coefficient from a bit on.                                          *)
Shifted(b) == coefficient \div BitPower[b]

LEMMA ShiftedFacts ==
  ASSUME Represented
  PROVE  /\ coefficient < BitPower[TotalBits]
         /\ TotalBits \in 1 .. TopBit /\ TopBit \in Nat
         /\ \A b \in 0 .. TopBit : Shifted(b) \in Nat
         /\ \A a, b \in Nat : a + b <= TopBit => Shifted(a + b) = Shifted(a) \div BitPower[b]
<1>1. TotalBits \in 1 .. TopBit /\ TopBit \in Nat
  BY RadixSizes DEF TotalBits
<1>2. coefficient \in Nat
  BY AboveFacts
<1>3. coefficient < BitPower[TotalBits]
  <2>1. RadixModulus <= BitPower[TotalBits] /\ RadixModulus \in Int
    <3>1. RadixModulus \in BitPower[TotalBits - 1] .. BitPower[TotalBits]
      BY RadixAssumption DEF TotalBits
    <3>2. BitPower[TotalBits - 1] \in Int /\ BitPower[TotalBits] \in Int
      <4>1. TotalBits - 1 \in 0 .. TopBit /\ TotalBits \in 0 .. TopBit
        BY <1>1
      <4> QED BY <4>1, BitPowers
    <3> QED BY <3>1, <3>2
  <2>2. BitPower[TotalBits] \in Int
    <3>1. TotalBits \in 0 .. TopBit
      BY <1>1
    <3> QED BY <3>1, BitPowers
  <2> QED BY <1>2, <2>1, <2>2 DEF Represented
<1>4. ASSUME NEW b \in 0 .. TopBit PROVE Shifted(b) \in Nat
  <2>1. PICK P \in Int : P = BitPower[b] /\ P > 0
    BY BitPowers
  <2>2. coefficient \div P \in Nat
    BY <1>2, <2>1
  <2> QED BY <2>1, <2>2 DEF Shifted
<1>5. ASSUME NEW a \in Nat, NEW b \in Nat, a + b <= TopBit
      PROVE  Shifted(a + b) = Shifted(a) \div BitPower[b]
  <2>1. a \in 0 .. TopBit /\ b \in 0 .. TopBit
    BY <1>1, <1>5
  <2>2. PICK P \in Int, Q \in Int : P = BitPower[a] /\ Q = BitPower[b] /\ P > 0 /\ Q > 0
    BY <2>1, BitPowers
  <2>3. BitPower[a + b] = P * Q
    BY <1>5, <2>2, BitPowerAdds
  <2>4. (coefficient \div P) \div Q = coefficient \div (P * Q)
    BY <1>2, <2>2, DivDiv
  <2> QED BY <2>2, <2>3, <2>4 DEF Shifted
<1> QED BY <1>1, <1>3, <1>4, <1>5

(* The words in memory are those of the coefficient.                       *)
WordsHold ==
  /\ words \in Seq(Words) /\ Len(words) <= WordCount
  /\ WordValues(words)[Len(words)] = coefficient

LEMMA WordAtIs ==
  ASSUME Represented, WordsHold, NEW i \in 0 .. WordCount - 1
  PROVE  WordAt(i) = Shifted(WordBits * i) % B
<1>1. (WordValues(words)[Len(words)] \div Place(i)) % B = IF i < Len(words) THEN words[i + 1] ELSE 0
  BY WordOf DEF WordsHold
<1> QED BY <1>1 DEF WordsHold, WordAt, Shifted, Place

(* Bits of a number that lie in two words: y is the number from the first  *)
(* word on, o and v are the powers of two that split a word.               *)
SpansWords(y, b, o, high, W) == (((y % b) \div o) + high) % W = (y \div o) % W

LEMMA TwoWords ==
  ASSUME NEW y \in Nat, NEW o \in Nat \ {0}, NEW v \in Nat \ {0}, NEW b, b = o * v,
         NEW W \in Nat \ {0}, NEW r \in Nat \ {0}, b = W * r,
         NEW high \in Int, high = ((y \div b) * v) % b
  PROVE  SpansWords(y, b, o, high, W)
<1>1. b \in Int /\ b > 0 /\ W * r = b
  BY TimesStrict
<1>2. PICK k \in Int, x \in Int : k = y \div b /\ x = y % b /\ y = k * b + x /\ 0 <= x /\ x < b
  BY <1>1, DivMod
<1>3. PICK g \in Int, e \in Int : g = x \div o /\ x = g * o + e /\ 0 <= e /\ e < o
  <2>1. x \div o \in Int /\ x % o \in Int /\ x = (x \div o) * o + (x % o) /\ 0 <= x % o /\ x % o < o
    BY DivMod
  <2> QED BY <2>1
<1>4. PICK h \in Int : h = k * v
  OBVIOUS
<1>5. y \div o = h + g
  <2>1. k * (o * v) = h * o /\ (h + g) * o = h * o + g * o
    BY <1>4
  <2>2. PICK s \in Int, t \in Int : s = h * o /\ t = g * o
    OBVIOUS
  <2>3. y = k * b + x /\ k * b = s
    BY <1>2, <2>1, <2>2
  <2>4. y = s + (t + e)
    BY <1>3, <2>2, <2>3
  <2>5. s + (t + e) = (s + t) + e
    BY <1>3
  <2>6. y = (h + g) * o + e
    BY <2>1, <2>2, <2>4, <2>5, Zenon
  <2>7. Splits(y, h + g, o, e)
    BY <2>6 DEF Splits
  <2>8. h + g \in Int /\ o \in Int /\ o > 0
    OBVIOUS
  <2> QED BY <1>3, <2>7, <2>8, DivSplits
<1>6. high % W = h % W
  <2>1. high = h % b
    BY <1>2, <1>4
  <2>2. h \in Int /\ W \in Int /\ r \in Int /\ W > 0 /\ r > 0 /\ b = W * r
    BY <1>1
  <2>3. SameRest(h % b, h, W)
    BY <2>2, RestOfRest
  <2> QED BY <2>1, <2>3 DEF SameRest
<1>7. (g + high) % W = (g + h) % W
  <2>1. high \in Int /\ h \in Int /\ g \in Int /\ W \in Int /\ W > 0
    OBVIOUS
  <2>2. SameRest((high % W) + g, high + g, W)
    BY <2>1, RestOfSum, Zenon
  <2>3. SameRest((h % W) + g, h + g, W)
    BY <2>1, RestOfSum, Zenon
  <2>4. high + g = g + high /\ h + g = g + h
    OBVIOUS
  <2> QED BY <1>6, <2>2, <2>3, <2>4 DEF SameRest
<1>8. h + g = g + h
  OBVIOUS
<1> QED BY <1>2, <1>3, <1>5, <1>7, <1>8 DEF SpansWords

LEMMA ExtractIs ==
  ASSUME Represented, WordsHold, NEW bit \in 0 .. TotalBits - 1, NEW width \in 1 .. PrimeBits
  PROVE  Extract(bit, width) = Shifted(bit) % BitPower[width]
<1>1. /\ WordBits \in Nat \ {0} /\ WordCount \in Nat \ {0} /\ PrimeBits \in Nat
      /\ WordBits = PrimeBits + 4 /\ WordBits <= TopBit
      /\ TotalBits \in Nat /\ TotalBits <= TopBit /\ TopBit \in Nat
  BY RadixSizes DEF TotalBits
<1>2. PICK limb \in Int, offset \in Int :
        /\ limb = bit \div WordBits /\ offset = bit % WordBits
        /\ bit = limb * WordBits + offset /\ 0 <= offset /\ offset < WordBits
  <2>1. bit \in Int
    OBVIOUS
  <2> QED BY <1>1, <2>1, DivMod
<1>3. limb \in 0 .. WordCount - 1
  <2>1. limb * WordBits < WordCount * WordBits
    <3>1. limb * WordBits \in Int /\ WordCount * WordBits = TopBit
      BY <1>1 DEF TopBit
    <3> QED BY <1>1, <1>2, <3>1
  <2>2. limb < WordCount
    BY <1>1, <2>1, TimesCancel
  <2>3. -1 * WordBits < limb * WordBits
    <3>1. limb * WordBits \in Int
      BY <1>1
    <3> QED BY <1>1, <1>2, <3>1
  <2>4. -1 < limb
    BY <1>1, <2>3, TimesCancel
  <2> QED BY <1>1, <2>2, <2>4
<1>4. PICK s \in Nat : s = WordBits * limb /\ s + offset = bit /\ s + offset <= TopBit
  BY <1>1, <1>2, <1>3, PlaceFacts
<1>5. PICK y \in Nat : y = Shifted(s)
  BY <1>1, <1>2, <1>4, ShiftedFacts
<1>6. /\ offset \in 0 .. TopBit /\ WordBits - offset \in 0 .. TopBit
      /\ width \in 0 .. TopBit /\ WordBits - width \in 0 .. TopBit
  BY <1>1, <1>2
<1>7. PICK o \in Nat \ {0}, v \in Nat \ {0}, W \in Nat \ {0}, r \in Nat \ {0} :
        /\ o = BitPower[offset] /\ v = BitPower[WordBits - offset]
        /\ W = BitPower[width] /\ r = BitPower[WordBits - width]
  BY <1>6, BitPowers
<1>8. B = o * v /\ B = W * r
  <2>1. offset + (WordBits - offset) = WordBits /\ width + (WordBits - width) = WordBits
    BY <1>1, <1>2
  <2>2. BitPower[offset + (WordBits - offset)] = BitPower[offset] * BitPower[WordBits - offset]
    BY <1>1, <1>2, <1>6, BitPowerAdds
  <2>3. BitPower[width + (WordBits - width)] = BitPower[width] * BitPower[WordBits - width]
    BY <1>1, <1>6, BitPowerAdds
  <2> QED BY <1>7, <2>1, <2>2, <2>3, RadixAssumption
<1>9. WordAt(limb) = y % B
  BY <1>3, <1>4, <1>5, WordAtIs
<1>10. PICK k \in Int : k = y \div B
  BY BaseFacts, DivMod
<1>11. PICK high : high = IF offset > 0 /\ limb + 1 < WordCount
                          THEN (WordAt(limb + 1) * v) % B ELSE 0
  OBVIOUS
<1>12. high = (k * v) % B
  <2>1. CASE offset > 0 /\ limb + 1 < WordCount
    <3>1. limb + 1 \in 0 .. WordCount - 1
      BY <1>1, <1>3, <2>1
    <3>2. WordBits * (limb + 1) = s + WordBits /\ s + WordBits <= TopBit
      <4>1. WordBits * (limb + 1) = s + WordBits
        BY <1>1, <1>4
      <4>2. limb + 1 \in 0 .. WordCount
        BY <1>1, <3>1
      <4> QED BY <1>1, <4>1, <4>2, PlaceFacts
    <3>3. Shifted(s + WordBits) = k
      BY <1>1, <1>5, <1>10, <3>2, ShiftedFacts, RadixAssumption
    <3>4. WordAt(limb + 1) = k % B
      BY <3>1, <3>2, <3>3, WordAtIs
    <3>5. ((k % B) * v) % B = (k * v) % B
      <4>1. k \in Int /\ v \in Int /\ B \in Int /\ B > 0
        BY BaseFacts
      <4>2. SameRest((k % B) * v, k * v, B)
        BY <4>1, RestOfProduct, Zenon
      <4> QED BY <4>2 DEF SameRest
    <3> QED BY <1>11, <2>1, <3>4, <3>5
  <2>2. CASE offset = 0
    <3>1. v = B
      BY <1>1, <1>7, <2>2, RadixAssumption
    <3>2. (0 + k * B) % B = 0 % B
      BY BaseFacts, ModShift
    <3>3. 0 % B = 0 /\ 0 + k * B = k * B
      BY BaseFacts, ModSmall
    <3> QED BY <1>11, <2>2, <3>1, <3>2, <3>3
  <2>3. CASE limb + 1 >= WordCount
    <3>1. s + WordBits = TopBit
      <4>1. limb = WordCount - 1
        BY <1>1, <1>3, <2>3
      <4>2. WordBits * (WordCount - 1) + WordBits = WordBits * WordCount
        BY <1>1
      <4> QED BY <1>4, <4>1, <4>2 DEF TopBit
    <3>2. Shifted(s + WordBits) = k
      BY <1>1, <1>5, <1>10, <3>1, ShiftedFacts, RadixAssumption
    <3>3. k = 0
      <4>1. PICK P \in Int : P = BitPower[TopBit] /\ P > 0 /\ BitPower[TotalBits] <= P
              /\ BitPower[TotalBits] \in Int
        <5>1. TotalBits \in Nat /\ TopBit \in Nat /\ TotalBits <= TopBit
          BY <1>1
        <5>2. /\ BitPower[TotalBits] \in Nat \ {0} /\ BitPower[TopBit] \in Nat \ {0}
              /\ BitPower[TotalBits] <= BitPower[TopBit]
          BY <5>1, BitPowersGrow
        <5> QED BY <5>2
      <4>2. coefficient \in Nat /\ coefficient < P
        BY <4>1, ShiftedFacts, AboveFacts
      <4>3. Splits(coefficient, 0, P, coefficient)
        BY <4>1, <4>2 DEF Splits
      <4>4. coefficient \div P = 0
        <5>1. 0 <= coefficient /\ coefficient \in Int
          BY <4>2
        <5> QED BY <4>1, <4>2, <4>3, <5>1, DivSplits
      <4> QED BY <3>1, <3>2, <4>1, <4>4 DEF Shifted
    <3>4. k * v = 0
      BY <3>3
    <3>5. 0 % B = 0
      BY BaseFacts, ModSmall
    <3>6. ~ (offset > 0 /\ limb + 1 < WordCount)
      BY <1>1, <1>3, <2>3
    <3> QED BY <1>11, <3>4, <3>5, <3>6
  <2> QED BY <1>1, <1>2, <1>3, <2>1, <2>2, <2>3
<1>13. high \in Int
  <2>1. k * v \in Int
    OBVIOUS
  <2>2. PICK z \in Int : z = k * v
    BY <2>1
  <2> QED BY <1>12, <2>2, BaseFacts, DivMod
<1>14. (((y % B) \div o) + high) % W = (y \div o) % W
  <2>1. high = ((y \div B) * v) % B
    BY <1>10, <1>12
  <2>2. B = o * v /\ B = W * r /\ high \in Int
    BY <1>8, <1>13
  <2>3. SpansWords(y, B, o, high, W)
    BY <2>1, <2>2, TwoWords, Zenon
  <2> QED BY <2>3 DEF SpansWords
<1>15. Extract(bit, width) = ((WordAt(limb) \div o) + high) % W
  BY <1>2, <1>7, <1>11 DEF Extract
<1>16. Shifted(bit) = y \div o
  BY <1>1, <1>2, <1>4, <1>5, <1>7, ShiftedFacts
<1> QED BY <1>7, <1>9, <1>14, <1>15, <1>16

(* The parts of a wide digit: at most PrimeBits bits, and of those left.   *)
LEMMA TakeFacts ==
  ASSUME NEW n \in Nat \ {0}
  PROVE  Take(n) \in 1 .. PrimeBits /\ Take(n) <= n
<1>1. PrimeBits \in Int /\ PrimeBits > 0
  BY RadixSizes
<1>2. PICK k \in Int, r \in Int :
        r = n % PrimeBits /\ n = k * PrimeBits + r /\ 0 <= r /\ r < PrimeBits
  <2>1. n \in Int
    OBVIOUS
  <2> QED BY <1>1, <2>1, DivMod
<1>3. k >= 0
  <2>1. k * PrimeBits \in Int
    BY <1>1
  <2>2. -1 * PrimeBits < k * PrimeBits
    BY <1>1, <1>2, <2>1
  <2>3. -1 < k
    BY <1>1, <2>2, TimesCancel
  <2> QED BY <2>3
<1>4. 0 <= k * PrimeBits /\ k * PrimeBits \in Int
  BY <1>1, <1>3, TimesSign
<1>5. CASE r = 0
  <2>1. k # 0
    BY <1>1, <1>2, <1>5
  <2>2. 1 * PrimeBits <= k * PrimeBits
    BY <1>1, <1>3, <2>1, TimesMonotone
  <2>3. PrimeBits <= n
    BY <1>1, <1>2, <1>4, <1>5, <2>2
  <2> QED BY <1>1, <1>2, <1>5, <2>3 DEF Take
<1>6. CASE r # 0
  <2>1. r <= n
    BY <1>1, <1>2, <1>4
  <2> QED BY <1>1, <1>2, <1>6, <2>1 DEF Take
<1> QED BY <1>5, <1>6

(* n bits of the coefficient up to a bit.                                  *)
BitsUpTo(top, n) == Shifted(top - n) % BitPower[n]

LEMMA BitsUpToFacts ==
  ASSUME Represented, NEW top \in 0 .. TotalBits, NEW n \in 0 .. top
  PROVE  BitsUpTo(top, n) \in Nat /\ BitsUpTo(top, n) < BitPower[n]
<1>1. top - n \in 0 .. TopBit /\ n \in 0 .. TopBit
  BY ShiftedFacts
<1>2. PICK P \in Int, y \in Int : P = BitPower[n] /\ P > 0 /\ y = Shifted(top - n)
  BY <1>1, BitPowers, ShiftedFacts
<1>3. y % P \in Nat /\ y % P < P
  BY <1>2, DivMod
<1> QED BY <1>2, <1>3 DEF BitsUpTo

(* Bits n - t and t more.                                                  *)
LEMMA BitsJoin ==
  ASSUME Represented, NEW top \in 0 .. TotalBits, NEW n \in 0 .. top, NEW t \in 0 .. n
  PROVE  BitsUpTo(top, n)
           = BitsUpTo(top, n - t) * BitPower[t] + (Shifted(top - n) % BitPower[t])
<1>1. /\ top \in Nat /\ n \in Nat /\ t \in Nat /\ top - n \in Nat /\ n - t \in Nat
      /\ (top - n) + t = top - (n - t) /\ (top - n) + t <= TopBit /\ t + (n - t) = n
      /\ t \in 0 .. TopBit /\ n - t \in 0 .. TopBit /\ top - n \in 0 .. TopBit /\ n <= TopBit
  BY ShiftedFacts
<1>2. PICK T \in Int, R \in Int, y \in Int :
        T = BitPower[t] /\ R = BitPower[n - t] /\ y = Shifted(top - n) /\ T > 0 /\ R > 0
  <2>1. BitPower[t] \in Nat \ {0} /\ BitPower[n - t] \in Nat \ {0}
    BY <1>1, BitPowers
  <2>2. Shifted(top - n) \in Nat
    BY <1>1, ShiftedFacts
  <2> QED BY <2>1, <2>2
<1>3. BitPower[n] = T * R
  <2>1. BitPower[t + (n - t)] = BitPower[t] * BitPower[n - t]
    BY <1>1, BitPowerAdds
  <2> QED BY <1>1, <1>2, <2>1
<1>4. Shifted(top - (n - t)) = y \div T
  <2>1. Shifted((top - n) + t) = Shifted(top - n) \div BitPower[t]
    BY <1>1, ShiftedFacts
  <2> QED BY <1>1, <1>2, <2>1
<1>5. y % (T * R) = (y % T) + (((y \div T) % R) * T)
  BY <1>2, DivDiv
<1>6. PICK a \in Int, b \in Int : a = y % T /\ b = ((y \div T) % R) * T
  <2>1. y % T \in Int /\ y \div T \in Int
    BY <1>2, DivMod
  <2>2. PICK z \in Int : z = y \div T
    BY <2>1
  <2>3. z % R \in Int
    BY <1>2, DivMod
  <2>4. PICK x \in Int : x = (y \div T) % R
    BY <2>2, <2>3
  <2>5. x * T \in Int
    OBVIOUS
  <2> QED BY <2>1, <2>5, <2>4
<1> QED BY <1>2, <1>3, <1>4, <1>5, <1>6 DEF BitsUpTo

(* A round of the reduction of a wide digit is exact.                      *)
LEMMA WideRound ==
  ASSUME Represented, WordsHold, NEW j \in 1 .. Count,
         NEW top \in 1 .. TotalBits, NEW n \in 1 .. top, NEW t, t = Take(n)
  PROVE  /\ t \in 1 .. n
         /\ Reduce((BitsUpTo(top, n - t) % M[j]) * BitPower[t] + Extract(top - n, t), M[j])
              = BitsUpTo(top, n) % M[j]
<1>1. t \in 1 .. PrimeBits /\ t <= n /\ t \in 1 .. n
  BY TakeFacts
<1>2. /\ top \in 0 .. TotalBits /\ n \in 0 .. top /\ n - t \in 0 .. top /\ t \in 0 .. n
      /\ top - n \in 0 .. TotalBits - 1 /\ t \in 0 .. TopBit /\ t \in Nat
      /\ PrimeBits \in Nat /\ PrimeBits <= TopBit
  BY <1>1, ShiftedFacts, RadixSizes
<1>3. PICK p \in Int : p = M[j] /\ p > 1 /\ Fits(p) /\ p < BitPower[PrimeBits]
  BY RadixPrimeFacts
<1>4. PICK H \in Int : H = BitPower[PrimeBits] /\ H > 0 /\ 16 * H = B
  <2>1. BitPower[PrimeBits] \in Nat \ {0}
    BY <1>2, BitPowers
  <2> QED BY <2>1, RadixPrimeFacts
<1>5. PICK T \in Int : T = BitPower[t] /\ T > 0 /\ T <= H
  BY <1>1, <1>2, <1>4, BitPowersGrow
<1>6. PICK a \in Int : a = BitsUpTo(top, n - t)
  BY <1>2, BitsUpToFacts
<1>7. PICK e \in Int : e = Shifted(top - n) % T /\ 0 <= e /\ e < T
  <2>1. Shifted(top - n) \in Int
    BY <1>2, ShiftedFacts
  <2> QED BY <1>5, <2>1, DivMod
<1>8. Extract(top - n, t) = e
  BY <1>1, <1>2, <1>5, <1>7, ExtractIs
<1>9. PICK r \in Int : r = a % p /\ 0 <= r /\ r < p
  BY <1>3, DivMod
<1>10. r * T + e \in Wide
  <2>1. 0 <= r * T /\ r * T \in Int
    BY <1>5, <1>9, TimesSign
  <2>2. (r + 1) * T <= H * T /\ H * T <= H * H
    <3>1. r + 1 <= H
      BY <1>3, <1>4, <1>9
    <3>2. (r + 1) * T <= H * T
      BY <1>5, <3>1, TimesMonotone
    <3>3. T * H <= H * H
      BY <1>4, <1>5, TimesMonotone
    <3>4. T * H = H * T
      OBVIOUS
    <3> QED BY <3>2, <3>3, <3>4
  <2>3. (r + 1) * T = r * T + T
    OBVIOUS
  <2>4. H * H \in Int /\ B * B = 256 * (H * H) /\ 0 < H * H
    <3>1. (16 * H) * (16 * H) = 256 * (H * H)
      OBVIOUS
    <3>2. 0 * H < H * H
      BY <1>4, TimesStrict
    <3> QED BY <1>4, <3>1, <3>2
  <2>5. PICK h \in Int, s \in Int, x \in Int : h = H * H /\ s = r * T /\ x = H * T
    BY <2>1, <2>4
  <2>6. 0 <= s + e /\ s + e <= 256 * h - 1
    <3>1. s + T <= h /\ 0 < h /\ 0 <= s
      BY <2>1, <2>2, <2>3, <2>4, <2>5
    <3> QED BY <1>7, <3>1
  <2>7. B * B = 256 * h
    BY <2>4, <2>5
  <2> QED BY <2>5, <2>6, <2>7 DEF Wide
<1>11. Reduce(r * T + e, p) = (r * T + e) % p
  BY <1>3, <1>10, ReduceIsRemainder
<1>12. (r * T + e) % p = (a * T + e) % p
  <2>1. a \in Int /\ T \in Int /\ p \in Int /\ p > 0
    BY <1>3
  <2>2. SameRest((a % p) * T, a * T, p)
    BY <2>1, RestOfProduct, Zenon
  <2>3. PICK u \in Int, v \in Int : u = r * T /\ v = a * T
    OBVIOUS
  <2>4. u % p = v % p
    BY <1>9, <2>2, <2>3 DEF SameRest
  <2>5. SameRest((u % p) + e, u + e, p) /\ SameRest((v % p) + e, v + e, p)
    BY <2>1, RestOfSum, Zenon
  <2>6. (u + e) % p = (v + e) % p
    BY <2>4, <2>5 DEF SameRest
  <2> QED BY <2>3, <2>6
<1>13. BitsUpTo(top, n) = a * T + e
  BY <1>2, <1>5, <1>6, <1>7, BitsJoin
<1> QED BY <1>1, <1>3, <1>5, <1>6, <1>8, <1>9, <1>11, <1>12, <1>13

LEMMA WideIs ==
  ASSUME Represented, WordsHold, NEW j \in 1 .. Count, NEW start \in 0 .. TotalBits - 1,
         NEW width \in 1 .. TotalBits - start
  PROVE  \A n \in 0 .. width : WideResidues(start, width, j)[n] = BitsUpTo(start + width, n) % M[j]
<1> DEFINE top == start + width
           Round(n, r) == Reduce(r * BitPower[Take(n)] + Extract(top - n, Take(n)), M[j])
           f == [n \in 0 .. width |-> BitsUpTo(top, n) % M[j]]
           Table(g) == g = [n \in 0 .. width |-> IF n = 0 THEN 0 ELSE Round(n, g[n - Take(n)])]
           W == WideResidues(start, width, j)
           S == {n \in 0 .. width : W[n] = f[n]}
<1>1. /\ top \in 1 .. TotalBits /\ width \in 1 .. top /\ width \in Nat
      /\ TotalBits \in Nat
  BY ShiftedFacts
<1>2. f[0] = 0
  <2>1. top \in 0 .. TotalBits /\ 0 \in 0 .. top /\ 0 \in 0 .. width
    BY <1>1
  <2> HIDE DEF top
  <2>2. BitsUpTo(top, 0) \in Nat /\ BitsUpTo(top, 0) < BitPower[0]
    BY <2>1, BitsUpToFacts
  <2>3. BitsUpTo(top, 0) = 0
    BY <2>2, BitPowers
  <2>4. 0 % M[j] = 0
    BY RadixPrimeFacts, ModSmall
  <2> QED BY <2>1, <2>3, <2>4
<1>3. ASSUME NEW n \in 1 .. width
      PROVE  n - Take(n) \in 0 .. n - 1 /\ f[n] = Round(n, f[n - Take(n)])
  <2>1. n \in 1 .. top
    BY <1>1
  <2> HIDE DEF top
  <2>2. PICK t : t = Take(n)
    OBVIOUS
  <2>3. /\ t \in 1 .. n
        /\ Reduce((BitsUpTo(top, n - t) % M[j]) * BitPower[t] + Extract(top - n, t), M[j])
             = BitsUpTo(top, n) % M[j]
    BY <1>1, <2>1, <2>2, WideRound
  <2>4. n - t \in 0 .. n - 1 /\ n - t \in 0 .. width /\ n \in 0 .. width
    BY <1>1, <2>3
  <2>5. f[n - t] = BitsUpTo(top, n - t) % M[j] /\ f[n] = BitsUpTo(top, n) % M[j]
    BY <2>4
  <2> HIDE DEF f
  <2> QED BY <2>2, <2>3, <2>4, <2>5
<1>4. Table(f)
  <2>1. \A n \in 0 .. width : f[n] = IF n = 0 THEN 0 ELSE Round(n, f[n - Take(n)])
    <3> HIDE DEF f, Round
    <3> QED BY <1>1, <1>2, <1>3
  <2> HIDE DEF Round
  <2> QED BY <2>1
<1>5. Table(W)
  <2>1. PICK g : Table(g)
    <3> HIDE DEF f, Table
    <3> QED BY <1>4
  <2> QED BY <2>1, Zenon DEF WideResidues
<1>6. W[0] = 0 /\ \A n \in 1 .. width : W[n] = Round(n, W[n - Take(n)])
  <2> HIDE DEF Round, W
  <2> QED BY <1>1, <1>5
<1>7. ASSUME NEW n \in 0 .. width, \A k \in 0 .. n - 1 : k \in S PROVE n \in S
  <2>1. CASE n = 0
    BY <1>2, <1>6, <2>1
  <2>2. CASE n # 0
    <3>1. n \in 1 .. width
      BY <1>1, <2>2
    <3>2. n - Take(n) \in 0 .. n - 1 /\ f[n] = Round(n, f[n - Take(n)])
      BY <1>3, <3>1
    <3> HIDE DEF f, Round, W
    <3>3. W[n - Take(n)] = f[n - Take(n)]
      <4>1. n - Take(n) \in S
        BY <1>7, <3>2
      <4> QED BY <4>1
    <3>4. W[n] = Round(n, W[n - Take(n)])
      BY <1>6, <3>1
    <3> QED BY <3>2, <3>3, <3>4
  <2> QED BY <2>1, <2>2
<1>8. \A n \in 0 .. width : n \in S
  <2> HIDE DEF S
  <2> QED BY <1>1, <1>7, StrongInduction
<1> QED BY <1>8

(* What starts at a bit fits in the bits left.                             *)
LEMMA ShiftedBelow ==
  ASSUME Represented, NEW start \in 0 .. TotalBits - 1
  PROVE  Shifted(start) < BitPower[TotalBits - start]
<1>1. /\ start \in Nat /\ TotalBits \in Nat /\ start <= TotalBits /\ TotalBits <= TopBit
      /\ start \in 0 .. TopBit /\ TotalBits - start \in 0 .. TopBit
  BY ShiftedFacts
<1>2. PICK P \in Int, Q \in Int : P = BitPower[start] /\ Q = BitPower[TotalBits - start] /\ P > 0
  BY <1>1, BitPowers
<1>3. BitPower[TotalBits] = Q * P
  BY <1>1, <1>2, BitPowersGrow
<1>4. PICK c \in Int : c = coefficient /\ c < Q * P
  BY <1>3, ShiftedFacts, AboveFacts
<1>5. PICK k \in Int, r \in Int : k = c \div P /\ c = k * P + r /\ 0 <= r
  BY <1>2, DivMod
<1>6. k * P < Q * P
  <2>1. k * P \in Int /\ Q * P \in Int
    OBVIOUS
  <2> QED BY <1>4, <1>5, <2>1
<1>7. k < Q
  BY <1>2, <1>6, TimesCancel
<1> QED BY <1>2, <1>4, <1>5, <1>7 DEF Shifted

(* A gadget digit lies in the coefficient, and is cut off at its end.      *)
LEMMA DigitPlace ==
  ASSUME NEW bits \in GadgetBits, NEW i \in 0 .. DigitCount(bits) - 1
  PROVE  /\ bits \in 1 .. TotalBits /\ TotalBits \in Nat
         /\ i * bits \in 0 .. TotalBits - 1
         /\ DigitWidth(i * bits, bits)
              = IF bits <= TotalBits - i * bits THEN bits ELSE TotalBits - i * bits
<1>1. bits \in 1 .. TotalBits /\ TotalBits \in Nat
  BY RadixAssumption, RadixSizes DEF TotalBits
<1>2. PICK n \in Int : n = TotalBits + bits - 1
  BY <1>1
<1>3. PICK k \in Int, r \in Int : k = n \div bits /\ n = k * bits + r /\ 0 <= r /\ r < bits
  BY <1>1, DivMod
<1>4. i \in 0 .. k - 1
  BY <1>2, <1>3 DEF DigitCount, TotalBits
<1>5. PICK s \in Int : s = i * bits
  BY <1>1
<1>6. 0 <= s /\ s <= k * bits - bits
  <2>1. i * bits <= (k - 1) * bits
    BY <1>1, <1>4, TimesMonotone
  <2>2. (k - 1) * bits = k * bits - bits
    BY <1>1
  <2>3. 0 <= i * bits
    BY <1>1, <1>4, TimesSign
  <2> QED BY <1>5, <2>1, <2>2, <2>3
<1>7. s \in 0 .. TotalBits - 1
  <2>1. k * bits \in Int
    BY <1>1
  <2> QED BY <1>1, <1>2, <1>3, <1>6, <2>1
<1>8. Min({bits, TotalBits - s}) = IF bits <= TotalBits - s THEN bits ELSE TotalBits - s
  <2>1. bits \in Int /\ TotalBits - s \in Int
    BY <1>1
  <2> QED BY <2>1, MinIs
<1> QED BY <1>1, <1>5, <1>7, <1>8 DEF DigitWidth, TotalBits

LEMMA DigitModIs ==
  ASSUME Represented, WordsHold, NEW bits \in GadgetBits, NEW j \in 1 .. Count,
         NEW i \in 0 .. DigitCount(bits) - 1
  PROVE  DigitMod(i * bits, bits, j) = (Shifted(i * bits) % BitPower[bits]) % M[j]
<1>1. bits \in 1 .. TotalBits /\ TotalBits \in Nat /\ TotalBits <= TopBit
  BY DigitPlace, ShiftedFacts
<1>2. PICK start \in 0 .. TotalBits - 1 :
        /\ start = i * bits
        /\ DigitWidth(start, bits) = IF bits <= TotalBits - start THEN bits ELSE TotalBits - start
  BY DigitPlace
<1>3. PICK width \in Nat : /\ width = DigitWidth(start, bits) /\ width <= bits
                           /\ width \in 1 .. TotalBits - start
                           /\ (width = bits \/ width = TotalBits - start)
  BY <1>1, <1>2
<1>4. /\ PrimeBits \in Nat /\ PrimeBits <= TopBit /\ TopBit \in Nat /\ width <= TopBit
      /\ bits \in Nat /\ start \in 0 .. TopBit
  BY <1>1, <1>3, RadixSizes
<1>5. PICK y \in Nat : y = Shifted(start)
  BY <1>4, ShiftedFacts
<1>6. PICK P \in Int, Q \in Int : P = BitPower[width] /\ Q = BitPower[bits] /\ 0 < P /\ P <= Q
  <2>1. /\ BitPower[width] \in Nat \ {0} /\ BitPower[bits] \in Nat \ {0}
        /\ BitPower[width] <= BitPower[bits]
    BY <1>1, <1>3, <1>4, BitPowersGrow
  <2> QED BY <2>1
<1>7. y % Q = y % P
  <2>1. CASE width = bits
    BY <1>6, <2>1
  <2>2. CASE width = TotalBits - start
    <3>1. y < P
      BY <1>5, <1>6, <2>2, ShiftedBelow
    <3>2. y % P = y /\ y % Q = y
      BY <1>6, <3>1, ModSmall
    <3> QED BY <3>2
  <2> QED BY <1>3, <2>1, <2>2
<1>8. PICK z \in Nat : z = y % P /\ z < P
  BY <1>6, DivMod
<1>9. CASE width <= PrimeBits
  <2>1. Extract(start, width) = z
    <3>1. width \in 1 .. PrimeBits
      BY <1>3, <1>4, <1>9
    <3> QED BY <1>5, <1>6, <1>8, <3>1, ExtractIs
  <2>2. z < BitPower[PrimeBits]
    <3>1. BitPower[PrimeBits] \in Nat /\ P <= BitPower[PrimeBits]
      BY <1>4, <1>6, <1>9, BitPowersGrow
    <3> QED BY <1>6, <1>8, <3>1
  <2>3. Below(z, M[j]) = z % M[j]
    BY <2>2, DigitBelow
  <2> QED BY <1>2, <1>3, <1>5, <1>6, <1>7, <1>8, <1>9, <2>1, <2>3 DEF DigitMod
<1>10. CASE ~(width <= PrimeBits)
  <2>1. width \in 0 .. width /\ (start + width) - width = start
    BY <1>3
  <2>2. WideResidues(start, width, j)[width] = BitsUpTo(start + width, width) % M[j]
    BY <1>3, <2>1, WideIs
  <2>3. BitsUpTo(start + width, width) = z
    BY <1>5, <1>6, <1>8, <2>1 DEF BitsUpTo
  <2> QED BY <1>2, <1>3, <1>5, <1>6, <1>7, <1>8, <1>10, <2>2, <2>3 DEF DigitMod
<1> QED BY <1>9, <1>10

(* The inductive invariant: the digits are those of the coefficient in the *)
(* mixed radix, and the words are what is above the digits not used yet.   *)
RadixInv ==
  /\ Represented
  /\ loop \in {"garner", "compose", "done"}
  /\ digits \in Seq(Nat) /\ Len(digits) <= Count /\ DigitsFound(Len(digits))
  /\ loop = "garner" => Len(digits) < Count /\ words = <<>>
  /\ loop # "garner" =>
       /\ words \in Seq(Words) /\ Len(words) \in 1 .. WordCount /\ Len(digits) >= 1
       /\ WordValues(words)[Len(words)] = Above(Len(digits) - 1)
  /\ loop = "compose" => Len(digits) > 1
  /\ loop = "done" => Len(digits) = 1

LEMMA RadixInitial == RadixInit => RadixInv
<1> SUFFICES ASSUME RadixInit PROVE RadixInv
  OBVIOUS
<1>1. digits = <<>> /\ words = <<>> /\ loop = "garner" /\ Represented
  BY DEF RadixInit, Represented
<1>2. Len(digits) = 0 /\ digits \in Seq(Nat) /\ Count \in Nat \ {0}
  BY <1>1, RadixSizes
<1>3. DigitsFound(Len(digits))
  BY <1>2 DEF DigitsFound
<1> QED BY <1>1, <1>2, <1>3 DEF RadixInv

(* The next digit is that of the coefficient.                              *)
LEMMA NextDigitIs ==
  ASSUME Represented, NEW n \in 1 .. Count, DigitsFound(n - 1)
  PROVE  /\ NextDigit(n) = Above(n - 1) % M[n]
         /\ NextDigit(n) \in 0 .. M[n] - 1 /\ NextDigit(n) \in Nat
<1>1. n - 1 \in 0 .. n - 1 /\ n - 1 \in 0 .. Count
  BY RadixSizes
<1>2. NextDigit(n) = Above(n - 1) % M[n]
  BY <1>1, RemainingIs DEF NextDigit
<1>3. Above(n - 1) \in Int /\ M[n] \in Int /\ M[n] > 0
  BY <1>1, AboveFacts, RadixPrimeFacts
<1>4. Above(n - 1) % M[n] \in 0 .. M[n] - 1
  BY <1>3, DivMod
<1> QED BY <1>2, <1>3, <1>4

(* The last digit is all there is above the others.                        *)
LEMMA LastDigit ==
  ASSUME Represented
  PROVE  Above(Count - 1) % M[Count] = Above(Count - 1)
<1>1. Count \in 1 .. Count /\ Count - 1 \in 0 .. Count
  BY RadixSizes
<1>2. PICK m \in Int, x \in Int : m = M[Count] /\ m > 0 /\ x = Above(Count - 1)
  BY <1>1, AboveFacts, RadixPrimeFacts
<1>3. x \div m = 0
  BY <1>1, <1>2, AboveFacts
<1>4. x = (x \div m) * m + (x % m) /\ x % m \in Int
  BY <1>2, DivMod
<1> QED BY <1>2, <1>3, <1>4

LEMMA OneWord ==
  ASSUME NEW d \in Words
  PROVE  /\ <<d>> \in Seq(Words) /\ Len(<<d>>) = 1 /\ WordValues(<<d>>)[1] = d
<1>1. <<d>> \in Seq(Words) /\ Len(<<d>>) = 1 /\ <<d>>[1] = d /\ 1 <= WordCount /\ d \in Int
  BY RadixSizes, BaseFacts DEF Words
<1>2. PICK w : w = <<d>>
  OBVIOUS
<1>3. w \in Seq(Words) /\ Len(w) = 1 /\ Len(w) <= WordCount /\ w[1] = d
  BY <1>1, <1>2
<1>4. /\ WordValues(w)[0] = 0
      /\ \A i \in 1 .. Len(w) : WordValues(w)[i] = WordValues(w)[i - 1] + w[i] * Place(i - 1)
  BY <1>3, WordValuesAre
<1>5. 1 \in 1 .. Len(w) /\ 1 - 1 = 0
  BY <1>3
<1>6. WordValues(w)[1] = WordValues(w)[0] + w[1] * Place(0)
  BY <1>4, <1>5
<1>7. WordValues(w)[1] = d
  BY <1>1, <1>3, <1>4, <1>6, PlaceFacts
<1> QED BY <1>1, <1>2, <1>7

LEMMA GarnerKeeps == ASSUME RadixInv, Garner PROVE RadixInv'
<1> USE DEF RadixInv
<1>1. PICK n \in Nat : n = Len(digits) + 1 /\ n \in 1 .. Count /\ n - 1 = Len(digits)
  BY RadixSizes DEF Garner
<1>2. PICK d \in Nat : d = NextDigit(n) /\ d = Above(n - 1) % M[n] /\ d \in 0 .. M[n] - 1
  BY <1>1, NextDigitIs
<1>3. /\ digits' = Append(digits, d) /\ coefficient' = coefficient
      /\ words' = IF Len(digits') = Count THEN <<digits'[Count]>> ELSE <<>>
      /\ loop' = IF Len(digits') < Count THEN "garner" ELSE IF Count = 1 THEN "done" ELSE "compose"
  BY <1>1, <1>2 DEF Garner
<1>4. /\ digits' \in Seq(Nat) /\ Len(digits') = n /\ digits'[n] = d
      /\ \A k \in 1 .. n - 1 : digits'[k] = digits[k]
  BY <1>1, <1>3
<1>5. Represented' /\ \A k : Above(k)' = Above(k)
  BY <1>3 DEF Represented, Above
<1>6. DigitsFound(Len(digits))'
  <2> SUFFICES ASSUME NEW k \in 1 .. n PROVE digits'[k] = Above(k - 1) % M[k]
    BY <1>4, <1>5 DEF DigitsFound
  <2>1. CASE k = n
    BY <1>2, <1>4, <2>1
  <2>2. CASE k # n
    <3>1. k \in 1 .. n - 1
      BY <1>1, <2>2
    <3> QED BY <1>1, <1>4, <3>1 DEF DigitsFound
  <2> QED BY <2>1, <2>2
<1>7. CASE n < Count
  <2>1. loop' = "garner" /\ words' = <<>>
    BY <1>1, <1>3, <1>4, <1>7
  <2> QED BY <1>1, <1>4, <1>5, <1>6, <1>7, <2>1
<1>8. CASE n = Count
  <2>1. words' = <<d>> /\ loop' = (IF Count = 1 THEN "done" ELSE "compose")
    BY <1>1, <1>3, <1>4, <1>8
  <2>2. d \in Words
    <3>1. M[n] \in Int /\ Fits(M[n])
      BY <1>1, RadixPrimeFacts
    <3>2. 16 * M[n] < B
      BY <3>1, FitsFacts
    <3> QED BY <1>2, <3>1, <3>2, BaseFacts DEF Words
  <2>3. words' \in Seq(Words) /\ Len(words') = 1 /\ WordValues(words')[Len(words')] = d
    BY <2>1, <2>2, OneWord
  <2>4. d = Above(n - 1)
    BY <1>2, <1>8, LastDigit
  <2>5. (WordValues(words)[Len(words)])' = Above(Len(digits) - 1)'
    BY <1>4, <1>5, <2>3, <2>4
  <2>6. 1 \in 1 .. WordCount /\ Count \in Nat \ {0}
    BY RadixSizes
  <2>7. words' \in Seq(Words) /\ Len(words') \in 1 .. WordCount /\ Len(digits') >= 1
    BY <1>1, <1>4, <2>3, <2>6
  <2>8. /\ loop' \in {"garner", "compose", "done"} /\ loop' # "garner"
        /\ loop' = "compose" => Len(digits') > 1
        /\ loop' = "done" => Len(digits') = 1
    BY <1>1, <1>4, <1>8, <2>1, <2>6
  <2>9. digits' \in Seq(Nat) /\ Len(digits') <= Count
    BY <1>1, <1>4, <1>8
  <2>10. Represented' /\ DigitsFound(Len(digits))'
    BY <1>5, <1>6
  <2> QED BY <2>5, <2>7, <2>8, <2>9, <2>10
<1>9. n < Count \/ n = Count
  BY <1>1, RadixSizes
<1> HIDE DEF RadixInv
<1> QED BY <1>7, <1>8, <1>9, Zenon

LEMMA ComposeKeeps == ASSUME RadixInv, Compose PROVE RadixInv'
<1> USE DEF RadixInv
<1>1. PICK j \in Nat : /\ j = Len(digits) - 1 /\ j \in 1 .. Count /\ Len(digits) = j + 1
                       /\ j + 1 <= Count
  <2>1. Len(digits) > 1 /\ Len(digits) <= Count /\ Len(digits) \in Nat
    BY DEF Compose
  <2> HIDE DEF RadixInv
  <2> QED BY <2>1, RadixSizes
<1>2. /\ words' = TimesPlus(words, M[j], digits[j]) /\ digits' = SubSeq(digits, 1, j)
      /\ loop' = (IF j = 1 THEN "done" ELSE "compose") /\ coefficient' = coefficient
      /\ words \in Seq(Words) /\ Len(words) \in 1 .. WordCount
      /\ WordValues(words)[Len(words)] = Above(j)
  BY <1>1 DEF Compose
<1>3. j - 1 \in 0 .. Count /\ j \in 0 .. Count
  BY <1>1, RadixSizes
<1>4. PICK p \in Int : p = M[j] /\ p > 0 /\ p < B
  <2>1. M[j] \in Int /\ M[j] > 1 /\ Fits(M[j])
    BY <1>1, RadixPrimeFacts
  <2>2. 16 * M[j] < B
    BY <2>1, FitsFacts
  <2> QED BY <2>1, <2>2, BaseFacts
<1>5. PICK x \in Int, y \in Int : x = Above(j - 1) /\ y = Above(j) /\ y = x \div p
  BY <1>1, <1>3, <1>4, AboveFacts
<1>6. PICK d \in Int : d = digits[j] /\ d = x % p /\ d \in 0 .. p - 1
  <2>1. digits[j] = Above(j - 1) % M[j]
    BY <1>1 DEF DigitsFound
  <2>2. x % p \in 0 .. p - 1
    BY <1>4, DivMod
  <2> QED BY <1>4, <1>5, <2>1, <2>2
<1>7. y * p + d = x
  <2>1. x = (x \div p) * p + (x % p)
    BY <1>4, DivMod
  <2> QED BY <1>5, <1>6, <2>1
<1>8. x < BitPower[TopBit]
  <2>1. Above(j - 1) <= coefficient /\ coefficient \in Nat
    <3>1. PICK P \in Int, c \in Nat : P = ProductTo[j - 1] /\ P > 0 /\ c = coefficient
      BY <1>3, ProductsTo, AboveFacts
    <3>2. PICK k \in Int, r \in Int : k = c \div P /\ c = k * P + r /\ 0 <= r
      <4>1. c \in Int /\ P \in Int /\ P > 0
        BY <3>1
      <4>2. c \div P \in Int /\ c % P \in Int /\ c = (c \div P) * P + (c % P) /\ 0 <= c % P
        BY <4>1, DivMod
      <4> QED BY <4>2
    <3>3. k \in Nat
      BY <1>3, <3>1, <3>2, AboveFacts DEF Above
    <3>4. 1 * k <= P * k
      <4>1. 1 <= P /\ k \in Int /\ k >= 0 /\ P \in Int
        BY <3>1, <3>3
      <4> QED BY <4>1, TimesMonotone
    <3>5. P * k = k * P /\ k * P \in Int
      OBVIOUS
    <3>6. k <= c
      BY <3>2, <3>3, <3>4, <3>5
    <3> QED BY <3>1, <3>2, <3>6 DEF Above
  <2>2. PICK T \in Int : T = BitPower[TotalBits] /\ coefficient < T
    <3>1. TotalBits \in 0 .. TopBit
      BY ShiftedFacts
    <3> QED BY <3>1, BitPowers, ShiftedFacts
  <2>3. T <= BitPower[TopBit] /\ BitPower[TopBit] \in Int
    <3>1. TotalBits \in Nat /\ TopBit \in Nat /\ TotalBits <= TopBit /\ TopBit <= TopBit
      BY ShiftedFacts
    <3>2. BitPower[TotalBits] <= BitPower[TopBit] /\ BitPower[TopBit] \in Nat \ {0}
      BY <3>1, BitPowersGrow
    <3> QED BY <2>2, <3>2
  <2> QED BY <1>5, <2>1, <2>2, <2>3
<1>9. /\ words' \in Seq(Words) /\ Len(words') \in 1 .. WordCount
      /\ WordValues(words')[Len(words')] = x
  <2>1. /\ p \in Int /\ p > 0 /\ p < B /\ words \in Seq(Words) /\ d \in 0 .. p - 1
        /\ Len(words) \in 1 .. WordCount /\ WordValues(words)[Len(words)] * p + d < BitPower[TopBit]
    BY <1>2, <1>4, <1>5, <1>6, <1>7, <1>8
  <2>2. /\ TimesPlus(words, p, d) \in Seq(Words) /\ Len(TimesPlus(words, p, d)) \in 1 .. WordCount
        /\ WordValues(TimesPlus(words, p, d))[Len(TimesPlus(words, p, d))]
             = WordValues(words)[Len(words)] * p + d
    BY <2>1, TimesPlusIs
  <2> QED BY <1>2, <1>4, <1>5, <1>6, <1>7, <2>2
<1>10. /\ digits' \in Seq(Nat) /\ Len(digits') = j
       /\ \A k \in 1 .. j : digits'[k] = digits[k]
  BY <1>1, <1>2
<1>11. Represented' /\ \A k : Above(k)' = Above(k)
  BY <1>2 DEF Represented, Above
<1>12. DigitsFound(Len(digits))'
  <2> SUFFICES ASSUME NEW k \in 1 .. j PROVE digits'[k] = Above(k - 1) % M[k]
    BY <1>10, <1>11 DEF DigitsFound
  <2>1. k \in 1 .. Len(digits)
    BY <1>1
  <2> QED BY <1>10, <2>1 DEF DigitsFound
<1>13. (WordValues(words)[Len(words)])' = Above(Len(digits) - 1)'
  BY <1>5, <1>9, <1>10, <1>11
<1>14. /\ loop' \in {"garner", "compose", "done"} /\ loop' # "garner"
       /\ loop' = "compose" => Len(digits') > 1
       /\ loop' = "done" => Len(digits') = 1
       /\ Len(digits') >= 1 /\ Len(digits') <= Count
  BY <1>1, <1>2, <1>10
<1> QED BY <1>9, <1>10, <1>11, <1>12, <1>13, <1>14

LEMMA RadixInductive == RadixSpec => []RadixInv
<1>1. RadixInit => RadixInv
  BY RadixInitial
<1>2. RadixInv /\ [RadixNext]_radixVars => RadixInv'
  <2> SUFFICES ASSUME RadixInv, [RadixNext]_radixVars PROVE RadixInv'
    OBVIOUS
  <2>1. CASE Garner
    BY <2>1, GarnerKeeps
  <2>2. CASE Compose
    BY <2>2, ComposeKeeps
  <2>3. CASE UNCHANGED radixVars
    BY <2>3 DEF radixVars, RadixInv, Represented, DigitsFound, Above
  <2> QED BY <2>1, <2>2, <2>3 DEF RadixNext
<1> QED BY <1>1, <1>2, PTL DEF RadixSpec

(* The digits found have the coefficient's remainders as their numbers.    *)
LEMMA ValuesOfDigits ==
  ASSUME RadixInv
  PROVE  DigitValues(digits)[Len(digits)] = coefficient % ProductTo[Len(digits)]
<1> DEFINE n == Len(digits)
           f == DigitValues(digits)
           g == [k \in 0 .. n |-> coefficient % ProductTo[k]]
<1>1. /\ n \in Nat /\ n <= Count /\ Count \in Nat /\ digits \in Seq(Nat)
      /\ Represented /\ DigitsFound(n)
  BY RadixSizes DEF RadixInv
<1>2. f[0] = g[0]
  <2>1. f[0] = 0
    BY <1>1, DigitValuesAre
  <2>2. PICK c \in Int : c = coefficient
    BY <1>1, AboveFacts
  <2>3. c % 1 = 0
    OBVIOUS
  <2>4. g[0] = coefficient % ProductTo[0]
    BY <1>1
  <2> HIDE DEF f, g
  <2> QED BY <2>1, <2>2, <2>3, <2>4, ProductsTo
<1>3. ASSUME NEW k \in 1 .. n, f[k - 1] = g[k - 1] PROVE f[k] = g[k]
  <2>1. k \in 1 .. Count /\ k - 1 \in 0 .. n /\ k \in 0 .. n /\ k - 1 \in 0 .. Count
    BY <1>1
  <2>2. f[k] = f[k - 1] + digits[k] * ProductTo[k - 1]
    BY <1>1, DigitValuesAre
  <2>3. PICK c \in Int, P \in Int, m \in Int :
          c = coefficient /\ P = ProductTo[k - 1] /\ m = M[k] /\ P > 0 /\ m > 0
    <3>1. coefficient \in Int
      BY <1>1, AboveFacts
    <3>2. ProductTo[k - 1] \in Nat \ {0}
      BY <2>1, ProductsTo
    <3>3. M[k] \in Int /\ M[k] > 1
      BY <2>1, RadixPrimeFacts
    <3> QED BY <3>1, <3>2, <3>3
  <2>4. ProductTo[k] = P * m
    BY <2>1, <2>3, ProductsTo
  <2>5. digits[k] = (c \div P) % m
    BY <1>1, <2>3 DEF DigitsFound, Above
  <2>6. c % (P * m) = (c % P) + ((c \div P) % m) * P
    <3>1. c \in Int /\ P \in Int /\ m \in Int /\ P > 0 /\ m > 0
      BY <2>3
    <3> QED BY <3>1, DivDiv
  <2>7. g[k - 1] = c % P /\ g[k] = c % (P * m)
    BY <2>1, <2>3, <2>4
  <2> HIDE DEF f, g
  <2> QED BY <1>3, <2>2, <2>3, <2>5, <2>6, <2>7
<1>4. f[n] = g[n]
  <2> HIDE DEF f, g, n
  <2>1. Follows(f, g, n)
    BY <1>2, <1>3 DEF Follows
  <2>2. Agree(f, g, n)
    BY <1>1, <2>1, SameRecursion
  <2> QED BY <1>1, <2>2 DEF Agree
<1> QED BY <1>1, <1>4

LEMMA RadixExact == RadixInv => GadgetDigitsAreExact
<1> SUFFICES ASSUME RadixInv PROVE GadgetDigitsAreExact
  OBVIOUS
<1>1. /\ Represented /\ digits \in Seq(Nat) /\ Len(digits) <= Count /\ DigitsFound(Len(digits))
      /\ loop \in {"garner", "compose", "done"} /\ Count \in Nat
  BY RadixSizes DEF RadixInv
<1>2. RadixTypeOK
  <2>1. ASSUME NEW k \in DOMAIN digits PROVE digits[k] \in 0 .. M[k] - 1
    <3>1. k \in 1 .. Len(digits) /\ k \in 1 .. Count /\ k - 1 \in 0 .. Count
      BY <1>1
    <3>2. digits[k] = Above(k - 1) % M[k]
      BY <1>1, <3>1 DEF DigitsFound
    <3>3. M[k] \in Int /\ M[k] > 1
      BY <3>1, RadixPrimeFacts
    <3>4. Above(k - 1) \in Int
      BY <1>1, <3>1, AboveFacts
    <3>5. Above(k - 1) \in Int /\ M[k] \in Int /\ M[k] > 0
      BY <3>3, <3>4
    <3>6. Above(k - 1) % M[k] \in 0 .. M[k] - 1
      BY <3>5, DivMod
    <3> QED BY <3>2, <3>6
  <2>2. words \in Seq(Words) /\ Len(words) <= WordCount
    <3>1. CASE loop = "garner"
      <4>1. words = <<>>
        BY <3>1 DEF RadixInv
      <4>2. <<>> \in Seq(Words) /\ Len(<<>>) = 0 /\ 0 <= WordCount
        BY RadixSizes
      <4> QED BY <4>1, <4>2
    <3>2. CASE loop # "garner"
      BY <3>2, RadixSizes DEF RadixInv
    <3> QED BY <3>1, <3>2
  <2>3. \A i \in DOMAIN words : words[i] \in Words
    BY <2>2
  <2> QED BY <2>1, <2>2, <2>3 DEF RadixTypeOK
<1>3. DigitValues(digits)[Len(digits)] = coefficient % ProductTo[Len(digits)]
  BY ValuesOfDigits
<1>4. loop # "garner" => WordValues(words)[Len(words)] = coefficient \div ProductTo[Len(digits) - 1]
  BY DEF RadixInv, Above
<1>5. ASSUME loop = "done", NEW bits \in GadgetBits, NEW j \in 1 .. Count,
             NEW i \in 0 .. DigitCount(bits) - 1
      PROVE  DigitMod(i * bits, bits, j)
               = ((coefficient \div BitPower[i * bits]) % BitPower[bits]) % M[j]
  <2>1. /\ words \in Seq(Words) /\ Len(words) <= WordCount
        /\ WordValues(words)[Len(words)] = Above(0)
    <3>1. /\ words \in Seq(Words) /\ Len(words) \in 1 .. WordCount /\ Len(digits) = 1
          /\ WordValues(words)[Len(words)] = Above(Len(digits) - 1)
      BY <1>5 DEF RadixInv
    <3>2. Len(digits) - 1 = 0
      BY <3>1
    <3> QED BY <3>1, <3>2, RadixSizes
  <2>2. WordsHold
    BY <1>1, <2>1, AboveFacts DEF WordsHold
  <2> QED BY <1>1, <2>2, DigitModIs DEF Shifted
<1> QED BY <1>2, <1>3, <1>4, <1>5 DEF GadgetDigitsAreExact

(* From the residues of a coefficient the digits that key switching uses   *)
(* are those of its representative below Q: the mixed-radix digits of      *)
(* Garner, the words composed from them, and every gadget digit of every   *)
(* width with its residue modulo every prime.                              *)
THEOREM RadixDigits == RadixSpec => []GadgetDigitsAreExact
<1>1. RadixSpec => []RadixInv
  BY RadixInductive
<1>2. RadixInv => GadgetDigitsAreExact
  BY RadixExact
<1> QED BY <1>1, <1>2, PTL

-----------------------------------------------------------------------------

(* Products of polynomials by products of big integers.                    *)

(* Recursive functions on all numbers.                                     *)
RunsOn(f, V, a, F) ==
  f \in [Nat -> V] /\ f[0] = a /\ \A n \in Nat : f[n + 1] = F[n + 1][f[n]]

LEMMA NatRecursion ==
  ASSUME NEW V, NEW a \in V, NEW F \in [Nat -> [V -> V]]
  PROVE  \E f : RunsOn(f, V, a, F)
<1> DEFINE G(m) == [k \in 1 .. m |-> F[k]]
           r(m) == Run(m, V, a, G(m))
           g == [n \in Nat |-> r(n)[n]]
<1>1. ASSUME NEW m \in Nat
      PROVE  /\ r(m) \in [0 .. m -> V] /\ r(m)[0] = a
             /\ \A n \in 1 .. m : r(m)[n] = F[n][r(m)[n - 1]]
  <2>1. G(m) \in [1 .. m -> [V -> V]]
    OBVIOUS
  <2>2. \A n \in 1 .. m : G(m)[n] = F[n]
    OBVIOUS
  <2> HIDE DEF G
  <2>3. Runs(r(m), m, V, a, G(m))
    BY <2>1, Recursion
  <2> HIDE DEF r
  <2> QED BY <2>2, <2>3 DEF Runs
<1> HIDE DEF r
<1>2. ASSUME NEW n \in Nat PROVE r(n + 1)[n] = r(n)[n]
  <2>1. ASSUME NEW k \in 1 .. n, r(n + 1)[k - 1] = r(n)[k - 1] PROVE r(n + 1)[k] = r(n)[k]
    <3>1. k \in 1 .. n + 1
      OBVIOUS
    <3>2. r(n + 1)[k] = F[k][r(n + 1)[k - 1]]
      BY <1>1, <3>1
    <3>3. r(n)[k] = F[k][r(n)[k - 1]]
      BY <1>1
    <3> QED BY <2>1, <3>2, <3>3
  <2>2. r(n + 1)[0] = r(n)[0]
    BY <1>1
  <2>3. Follows(r(n + 1), r(n), n)
    BY <2>1, <2>2 DEF Follows
  <2>4. Agree(r(n + 1), r(n), n)
    BY <2>3, SameRecursion
  <2> QED BY <2>4 DEF Agree
<1>3. g \in [Nat -> V] /\ g[0] = a
  BY <1>1
<1>4. ASSUME NEW n \in Nat PROVE g[n + 1] = F[n + 1][g[n]]
  <2>1. n + 1 \in 1 .. n + 1 /\ (n + 1) - 1 = n
    OBVIOUS
  <2>2. r(n + 1)[n + 1] = F[n + 1][r(n + 1)[n]]
    BY <1>1, <2>1
  <2> QED BY <1>2, <2>2
<1> HIDE DEF g
<1>5. RunsOn(g, V, a, F)
  BY <1>3, <1>4 DEF RunsOn
<1> QED BY <1>5

(* Powers of two.                                                          *)
LEMMA ShiftedOnes ==
  /\ ShiftedOne[0] = 1
  /\ \A b \in Nat : ShiftedOne[b] \in Nat \ {0} /\ ShiftedOne[b + 1] = 2 * ShiftedOne[b]
<1> DEFINE V == Nat \ {0}
           F == [n \in Nat |-> [x \in V |-> 2 * x]]
           Table(f) == f = [b \in Nat |-> IF b = 0 THEN 1 ELSE 2 * f[b - 1]]
<1>1. F \in [Nat -> [V -> V]] /\ 1 \in V
  OBVIOUS
<1> HIDE DEF F, V
<1>2. PICK f : RunsOn(f, V, 1, F)
  BY <1>1, NatRecursion
<1> USE DEF F, V
<1>3. ASSUME NEW n \in Nat, n # 0 PROVE f[n] = 2 * f[n - 1]
  <2>1. n - 1 \in Nat /\ (n - 1) + 1 = n
    BY <1>3
  <2>2. f[n - 1] \in V /\ f[(n - 1) + 1] = F[(n - 1) + 1][f[n - 1]]
    BY <1>2, <2>1 DEF RunsOn
  <2> QED BY <2>1, <2>2
<1>4. Table(f)
  BY <1>2, <1>3 DEF RunsOn
<1>5. Table(ShiftedOne)
  BY <1>4, Zenon DEF ShiftedOne
<1>6. ShiftedOne[0] = 1 /\ \A b \in Nat : ShiftedOne[b + 1] = 2 * ShiftedOne[b]
  BY <1>5
<1>7. \A b \in Nat : ShiftedOne[b] \in Nat \ {0}
  <2> DEFINE S == {m \in Nat : ShiftedOne[m] \in Nat \ {0}}
  <2>1. 0 \in S
    BY <1>6
  <2>2. ASSUME NEW m \in Nat, m \in S PROVE m + 1 \in S
    BY <1>6, <2>2
  <2> HIDE DEF S
  <2>3. \A m \in Nat : m \in S
    BY <2>1, <2>2, SetInduction
  <2> QED BY <2>3 DEF S
<1> QED BY <1>6, <1>7

(* Sums of exponents.                                                      *)
LEMMA ShiftedAdds ==
  ASSUME NEW a \in Nat, NEW b \in Nat
  PROVE  ShiftedOne[a + b] = ShiftedOne[a] * ShiftedOne[b]
<1> DEFINE S == {k \in Nat : ShiftedOne[a + k] = ShiftedOne[a] * ShiftedOne[k]}
<1>1. 0 \in S
  BY ShiftedOnes
<1>2. ASSUME NEW k \in Nat, k \in S PROVE k + 1 \in S
  <2>1. a + k \in Nat /\ (a + k) + 1 = a + (k + 1)
    OBVIOUS
  <2>2. ShiftedOne[a + (k + 1)] = 2 * ShiftedOne[a + k] /\ ShiftedOne[k + 1] = 2 * ShiftedOne[k]
    BY <2>1, ShiftedOnes
  <2>3. ShiftedOne[a + k] = ShiftedOne[a] * ShiftedOne[k]
    BY <1>2
  <2>4. ShiftedOne[a] \in Int /\ ShiftedOne[k] \in Int
    BY ShiftedOnes
  <2>5. ShiftedOne[a + (k + 1)] = ShiftedOne[a] * ShiftedOne[k + 1]
    BY <2>2, <2>3, <2>4
  <2> QED BY <2>5
<1> HIDE DEF S
<1>3. b \in S
  BY <1>1, <1>2, SetInduction
<1> QED BY <1>3 DEF S

LEMMA ShiftedGrows ==
  ASSUME NEW a \in Nat, NEW b \in Nat, a <= b
  PROVE  ShiftedOne[a] <= ShiftedOne[b]
<1>1. b - a \in Nat /\ (b - a) + a = b
  OBVIOUS
<1>2. ShiftedOne[b] = ShiftedOne[b - a] * ShiftedOne[a]
  BY <1>1, ShiftedAdds
<1>3. ShiftedOne[b - a] \in Nat \ {0} /\ ShiftedOne[a] \in Nat \ {0}
  BY <1>1, ShiftedOnes
<1>4. 1 * ShiftedOne[a] <= ShiftedOne[b - a] * ShiftedOne[a]
  BY <1>3, TimesMonotone
<1> QED BY <1>2, <1>3, <1>4

(* A number is below the power of two that its bits fill.                  *)
LEMMA BitCountIs ==
  ASSUME NEW x \in Nat
  PROVE  /\ BitCount(x) \in Nat /\ x < ShiftedOne[BitCount(x)]
         /\ x > 0 => BitCount(x) > 0
<1> DEFINE Suits(l) == x < ShiftedOne[l] /\ (l = 0 \/ ShiftedOne[l - 1] <= x)
<1>1. \E l \in 0 .. x : Suits(l)
  <2> SUFFICES ASSUME \A l \in 0 .. x : ~Suits(l) PROVE FALSE
    OBVIOUS
  <2> DEFINE S == {l \in Nat : l <= x => ShiftedOne[l] <= x /\ l + 1 <= ShiftedOne[l]}
  <2>1. 0 \in S
    BY ShiftedOnes
  <2>2. ASSUME NEW l \in Nat, l \in S PROVE l + 1 \in S
    <3> SUFFICES ASSUME l + 1 <= x
                 PROVE  ShiftedOne[l + 1] <= x /\ (l + 1) + 1 <= ShiftedOne[l + 1]
      OBVIOUS
    <3>1. ShiftedOne[l] <= x /\ l + 1 <= ShiftedOne[l]
      BY <2>2
    <3>2. ShiftedOne[l] \in Nat /\ ShiftedOne[l + 1] = 2 * ShiftedOne[l]
      BY ShiftedOnes
    <3>3. (l + 1) - 1 = l /\ l + 1 \in 0 .. x
      OBVIOUS
    <3>4. ~(x < ShiftedOne[l + 1])
      BY <3>1, <3>3
    <3> QED BY <3>1, <3>2, <3>4
  <2> HIDE DEF S
  <2>3. x \in S
    BY <2>1, <2>2, SetInduction
  <2>4. ShiftedOne[x] <= x /\ x + 1 <= ShiftedOne[x] /\ ShiftedOne[x] \in Nat
    BY <2>3, ShiftedOnes DEF S
  <2> QED BY <2>4
<1>2. BitCount(x) \in 0 .. x /\ Suits(BitCount(x))
  <2> HIDE DEF Suits
  <2>1. BitCount(x) = CHOOSE l \in 0 .. x : Suits(l)
    BY DEF BitCount, Suits
  <2> QED BY <1>1, <2>1, Zenon
<1>3. x > 0 => BitCount(x) # 0
  BY <1>2, ShiftedOnes
<1> QED BY <1>2, <1>3

(* Sums over the first n numbers: what they add up to, that they depend on *)
(* their terms only, may end where only zeros follow, and stay within      *)
(* their bounds.                                                           *)
Integral(f, n) == \A k \in 0 .. n - 1 : f[k] \in Int

LEMMA SumIs ==
  ASSUME NEW n \in Nat, NEW f, Integral(f, n)
  PROVE  /\ SumTo(f, 0) = 0
         /\ \A k \in 0 .. n : SumTo(f, k) \in Int
         /\ \A k \in 0 .. n - 1 : SumTo(f, k + 1) = SumTo(f, k) + f[k]
<1> DEFINE Table(s, m) == s = [k \in 0 .. m |-> IF k = 0 THEN 0 ELSE s[k - 1] + f[k - 1]]
           T(m) == CHOOSE s : Table(s, m)
<1>1. ASSUME NEW m \in 0 .. n
      PROVE  /\ T(m)[0] = 0 /\ \A k \in 0 .. m : T(m)[k] \in Int
             /\ \A k \in 1 .. m : T(m)[k] = T(m)[k - 1] + f[k - 1]
  <2> DEFINE F == [k \in 1 .. m |-> [x \in Int |-> x + f[k - 1]]]
  <2>0. \A k \in 1 .. m : f[k - 1] \in Int
    BY DEF Integral
  <2>1. F \in [1 .. m -> [Int -> Int]] /\ m \in Nat /\ 0 \in Int
    BY <2>0
  <2> HIDE DEF F
  <2>2. PICK s : Runs(s, m, Int, 0, F)
    BY <2>1, Recursion
  <2>3. ASSUME NEW k \in 1 .. m PROVE s[k] = s[k - 1] + f[k - 1]
    <3>1. s[k - 1] \in Int
      BY <2>2 DEF Runs
    <3> QED BY <2>2, <3>1 DEF Runs, F
  <2>4. Table(s, m)
    BY <2>2, <2>3 DEF Runs
  <2> HIDE DEF Table
  <2>5. Table(T(m), m)
    BY <2>4, Zenon
  <2> USE DEF Table
  <2> HIDE DEF T
  <2>6. T(m)[0] = 0 /\ \A k \in 1 .. m : T(m)[k] = T(m)[k - 1] + f[k - 1]
    BY <2>5
  <2>7. Follows(T(m), s, m)
    BY <2>2, <2>3, <2>6 DEF Follows, Runs
  <2>8. Agree(T(m), s, m)
    BY <2>7, SameRecursion
  <2>9. \A k \in 0 .. m : T(m)[k] \in Int
    BY <2>2, <2>8 DEF Agree, Runs
  <2> QED BY <2>6, <2>9
<1>2. ASSUME NEW m PROVE SumTo(f, m) = T(m)[m]
  BY Zenon DEF SumTo
<1> HIDE DEF T
<1>3. ASSUME NEW k \in 0 .. n - 1 PROVE T(k + 1)[k] = T(k)[k]
  <2>1. k \in 0 .. n /\ k + 1 \in 0 .. n
    OBVIOUS
  <2>2. Follows(T(k + 1), T(k), k)
    BY <1>1, <2>1 DEF Follows
  <2>3. Agree(T(k + 1), T(k), k)
    BY <2>2, SameRecursion
  <2> QED BY <2>3 DEF Agree
<1>4. SumTo(f, 0) = 0
  BY <1>1, <1>2
<1>5. \A k \in 0 .. n : SumTo(f, k) \in Int
  BY <1>1, <1>2
<1>6. ASSUME NEW k \in 0 .. n - 1 PROVE SumTo(f, k + 1) = SumTo(f, k) + f[k]
  <2>1. k + 1 \in 0 .. n /\ k + 1 \in 1 .. k + 1 /\ (k + 1) - 1 = k
    OBVIOUS
  <2>2. T(k + 1)[k + 1] = T(k + 1)[k] + f[k]
    BY <1>1, <2>1
  <2> QED BY <1>2, <1>3, <2>2
<1> QED BY <1>4, <1>5, <1>6

LEMMA SumSame ==
  ASSUME NEW n \in Nat, NEW f, NEW g, Integral(f, n), \A k \in 0 .. n - 1 : g[k] = f[k]
  PROVE  SumTo(g, n) = SumTo(f, n)
<1> DEFINE S == {m \in Nat : m <= n => SumTo(g, m) = SumTo(f, m)}
<1>0. Integral(g, n)
  BY DEF Integral
<1>1. 0 \in S
  BY <1>0, SumIs
<1>2. ASSUME NEW m \in Nat, m \in S PROVE m + 1 \in S
  <2> SUFFICES ASSUME m + 1 <= n PROVE SumTo(g, m + 1) = SumTo(f, m + 1)
    OBVIOUS
  <2>1. m \in 0 .. n - 1
    OBVIOUS
  <2> QED BY <1>0, <1>2, <2>1, SumIs
<1> HIDE DEF S
<1>3. n \in S
  BY <1>1, <1>2, SetInduction
<1> QED BY <1>3 DEF S

LEMMA SumRest ==
  ASSUME NEW n \in Nat, NEW m \in 0 .. n, NEW f, Integral(f, n), \A k \in m .. n - 1 : f[k] = 0
  PROVE  SumTo(f, n) = SumTo(f, m)
<1> DEFINE S == {k \in Nat : m <= k /\ k <= n => SumTo(f, k) = SumTo(f, m)}
<1>1. 0 \in S
  OBVIOUS
<1>2. ASSUME NEW k \in Nat, k \in S PROVE k + 1 \in S
  <2> SUFFICES ASSUME m <= k + 1, k + 1 <= n PROVE SumTo(f, k + 1) = SumTo(f, m)
    OBVIOUS
  <2>1. CASE m = k + 1
    BY <2>1
  <2>2. CASE m <= k
    <3>1. k \in m .. n - 1 /\ k \in 0 .. n - 1 /\ k \in 0 .. n
      BY <2>2
    <3>2. SumTo(f, k + 1) = SumTo(f, k) + 0 /\ SumTo(f, k) \in Int
      BY <3>1, SumIs
    <3> QED BY <1>2, <2>2, <3>1, <3>2
  <2> QED BY <2>1, <2>2
<1> HIDE DEF S
<1>3. n \in S
  BY <1>1, <1>2, SetInduction
<1> QED BY <1>3 DEF S

LEMMA SumRange ==
  ASSUME NEW n \in Nat, NEW f, NEW b \in Int, Integral(f, n),
         \A k \in 0 .. n - 1 : 0 <= f[k] /\ f[k] <= b
  PROVE  0 <= SumTo(f, n) /\ SumTo(f, n) <= n * b
<1> DEFINE S == {m \in Nat : m <= n => 0 <= SumTo(f, m) /\ SumTo(f, m) <= m * b}
<1>1. 0 \in S
  BY SumIs
<1>2. ASSUME NEW m \in Nat, m \in S PROVE m + 1 \in S
  <2> SUFFICES ASSUME m + 1 <= n
               PROVE  0 <= SumTo(f, m + 1) /\ SumTo(f, m + 1) <= (m + 1) * b
    OBVIOUS
  <2>1. m \in 0 .. n - 1 /\ m \in 0 .. n
    OBVIOUS
  <2>2. SumTo(f, m) \in Int /\ f[m] \in Int /\ SumTo(f, m + 1) = SumTo(f, m) + f[m]
    BY <2>1, SumIs DEF Integral
  <2>3. 0 <= SumTo(f, m) /\ SumTo(f, m) <= m * b /\ 0 <= f[m] /\ f[m] <= b
    BY <1>2, <2>1
  <2> QED BY <2>2, <2>3
<1> HIDE DEF S
<1>3. n \in S
  BY <1>1, <1>2, SetInduction
<1> QED BY <1>3 DEF S

LEMMA SumMinus ==
  ASSUME NEW n \in Nat, NEW f, NEW g, NEW h, Integral(f, n), Integral(g, n),
         \A k \in 0 .. n - 1 : h[k] = f[k] - g[k]
  PROVE  SumTo(h, n) = SumTo(f, n) - SumTo(g, n)
<1> DEFINE S == {m \in Nat : m <= n => SumTo(h, m) = SumTo(f, m) - SumTo(g, m)}
<1>0. Integral(h, n)
  BY DEF Integral
<1>1. 0 \in S
  BY <1>0, SumIs
<1>2. ASSUME NEW m \in Nat, m \in S PROVE m + 1 \in S
  <2> SUFFICES ASSUME m + 1 <= n
               PROVE  SumTo(h, m + 1) = SumTo(f, m + 1) - SumTo(g, m + 1)
    OBVIOUS
  <2>1. m \in 0 .. n - 1 /\ m \in 0 .. n
    OBVIOUS
  <2>2. /\ SumTo(f, m) \in Int /\ f[m] \in Int /\ SumTo(f, m + 1) = SumTo(f, m) + f[m]
        /\ SumTo(g, m) \in Int /\ g[m] \in Int /\ SumTo(g, m + 1) = SumTo(g, m) + g[m]
        /\ SumTo(h, m + 1) = SumTo(h, m) + h[m]
    BY <1>0, <2>1, SumIs DEF Integral
  <2> QED BY <1>2, <2>1, <2>2
<1> HIDE DEF S
<1>3. n \in S
  BY <1>1, <1>2, SetInduction
<1> QED BY <1>3 DEF S

(* What is assumed of lanes and coefficients.                              *)
LEMMA LaneSizes ==
  /\ PackedDegree \in Nat \ {0} /\ Modulus \in Nat \ {0} /\ LaneDigitBits \in Nat \ {0}
  /\ Coefficients = 0 .. PackedDegree - 1 /\ Lanes = 0 .. 2 * PackedDegree
  BY KroneckerAssumption DEF Coefficients, Lanes

(* Lanes that fit do not run into each other.                              *)
LEMMA NoCarry ==
  ASSUME NEW width \in Nat, NEW v,
         \A i \in Lanes : v[i] \in Int /\ 0 <= v[i] /\ v[i] < ShiftedOne[width]
  PROVE  Carried(v, width) = [i \in Lanes |-> v[i]]
<1> DEFINE base == ShiftedOne[width]
           last == 2 * PackedDegree + 1
           Table(f) == f = [i \in 0 .. last |->
                              IF i = 0 THEN 0 ELSE (v[i - 1] + f[i - 1]) \div base]
           carry == CHOOSE f : Table(f)
           none == [i \in 0 .. last |-> 0]
<1>0. base \in Int /\ base > 0 /\ PackedDegree \in Nat /\ last \in Nat
  <2>1. base \in Nat \ {0}
    BY ShiftedOnes
  <2>2. PackedDegree \in Nat
    BY LaneSizes
  <2> QED BY <2>1, <2>2
<1>1. Carried(v, width) = [i \in Lanes |-> (v[i] + carry[i]) % base]
  BY Zenon DEF Carried
<1>2. ASSUME NEW i \in Lanes
      PROVE  v[i] + 0 = v[i] /\ v[i] \div base = 0 /\ v[i] % base = v[i]
  <2> DEFINE x == v[i]
  <2>1. x \in Int /\ 0 <= x /\ x < base
    OBVIOUS
  <2> HIDE DEF x, base
  <2>2. 0 * base + x = x /\ x + 0 = x
    BY <1>0, <2>1
  <2>3. (0 * base + x) \div base = 0 /\ (0 * base + x) % base = x
    BY <1>0, <2>1, DivModUnique
  <2>4. x + 0 = x /\ x \div base = 0 /\ x % base = x
    BY <2>2, <2>3
  <2> QED BY <2>4 DEF x
<1>3. ASSUME NEW i \in 1 .. last PROVE i - 1 \in Lanes
  BY <1>0, LaneSizes
<1> HIDE DEF base, last
<1>4. Table(none)
  <2>1. ASSUME NEW i \in 0 .. last
        PROVE  none[i] = IF i = 0 THEN 0 ELSE (v[i - 1] + none[i - 1]) \div base
    <3>1. CASE i = 0
      BY <3>1
    <3>2. CASE i # 0
      <4>1. i \in 1 .. last /\ i - 1 \in 0 .. last
        BY <1>0, <3>2
      <4>2. none[i - 1] = 0 /\ none[i] = 0
        BY <4>1
      <4>3. (v[i - 1] + 0) \div base = 0
        BY <1>2, <1>3, <4>1
      <4> HIDE DEF none
      <4> QED BY <3>2, <4>2, <4>3
    <3> QED BY <3>1, <3>2
  <2> QED BY <2>1
<1> HIDE DEF Table, none
<1>5. Table(carry)
  BY <1>4, Zenon
<1> HIDE DEF carry
<1> USE DEF Table
<1>6. \A i \in Lanes : carry[i] = 0
  <2> DEFINE S == {m \in Nat : m <= last => carry[m] = 0}
  <2>1. 0 \in S
    BY <1>0, <1>5
  <2>2. ASSUME NEW m \in Nat, m \in S PROVE m + 1 \in S
    <3> SUFFICES ASSUME m + 1 <= last PROVE carry[m + 1] = 0
      OBVIOUS
    <3>1. m + 1 \in 1 .. last /\ m + 1 \in 0 .. last /\ (m + 1) - 1 = m /\ m + 1 # 0
      BY <1>0
    <3>2. carry[m + 1] = (v[m] + carry[m]) \div base
      BY <1>5, <3>1
    <3>3. carry[m] = 0
      BY <1>0, <2>2
    <3>4. m \in Lanes
      BY <1>3, <3>1
    <3>5. (v[m] + 0) \div base = 0
      BY <1>2, <3>4
    <3> QED BY <3>2, <3>3, <3>5
  <2> HIDE DEF S
  <2>3. \A m \in Nat : m \in S
    BY <2>1, <2>2, SetInduction
  <2>4. \A i \in Lanes : i \in Nat /\ i <= last
    BY <1>0, LaneSizes DEF last
  <2> QED BY <2>3, <2>4 DEF S
<1>7. \A i \in Lanes : (v[i] + carry[i]) % base = v[i]
  BY <1>2, <1>6
<1> QED BY <1>1, <1>7

(* The coefficients of a polynomial are natural numbers up to some bound.  *)
Small(f, b) == \A i \in Coefficients : f[i] \in Int /\ 0 <= f[i] /\ f[i] <= b

(* The lanes of a polynomial, and the terms of one lane of a product.      *)
LEMMA PackIs ==
  ASSUME NEW f
  PROVE  \A i \in Lanes : Pack(f)[i] = IF i < PackedDegree THEN f[i] ELSE 0
  BY DEF Pack

LEMMA TermBound ==
  ASSUME NEW x \in Int, NEW y \in Int, NEW a \in Int, NEW b \in Int,
         0 <= x, x <= a, 0 <= y, y <= b
  PROVE  0 <= x * y /\ x * y <= a * b
<1>1. x * y >= 0
  BY TimesSign
<1>2. x * y <= a * y /\ y * a <= b * a
  BY TimesMonotone
<1> QED BY <1>1, <1>2

LEMMA LaneTerms ==
  ASSUME NEW f, NEW g, NEW a \in Int, NEW b \in Int, Small(f, a), Small(g, b), a >= 0, b >= 0,
         NEW k \in Lanes, NEW i \in 0 .. k
  PROVE  LET t == Pack(f)[i] * Pack(g)[k - i]
         IN  /\ t \in Int /\ 0 <= t /\ t <= a * b
             /\ i >= PackedDegree => t = 0
             /\ k - i >= PackedDegree => t = 0
             /\ i < PackedDegree /\ k - i < PackedDegree => t = f[i] * g[k - i]
<1> DEFINE x == Pack(f)[i]
           y == Pack(g)[k - i]
<1>1. i \in Lanes /\ k - i \in Lanes /\ k - i \in Int /\ i \in Int
  BY LaneSizes
<1>2. x = IF i < PackedDegree THEN f[i] ELSE 0
  BY <1>1, PackIs
<1>3. y = IF k - i < PackedDegree THEN g[k - i] ELSE 0
  BY <1>1, PackIs
<1>4. x \in Int /\ 0 <= x /\ x <= a
  BY <1>1, <1>2, LaneSizes DEF Small
<1>5. y \in Int /\ 0 <= y /\ y <= b
  BY <1>1, <1>3, LaneSizes DEF Small
<1> HIDE DEF x, y
<1>6. x * y \in Int /\ 0 <= x * y /\ x * y <= a * b
  BY <1>4, <1>5, TermBound
<1>7. i >= PackedDegree => x * y = 0
  BY <1>1, <1>2, <1>5, LaneSizes
<1>8. k - i >= PackedDegree => x * y = 0
  BY <1>1, <1>3, <1>4, LaneSizes
<1>9. i < PackedDegree /\ k - i < PackedDegree => x * y = f[i] * g[k - i]
  BY <1>2, <1>3
<1> QED BY <1>6, <1>7, <1>8, <1>9 DEF x, y

(* No lane of a product exceeds N times the largest term.                  *)
LEMMA LaneBound ==
  ASSUME NEW f, NEW g, NEW a \in Int, NEW b \in Int, Small(f, a), Small(g, b), a >= 0, b >= 0,
         NEW k \in Lanes
  PROVE  LET p == LaneProduct(Pack(f), Pack(g))[k]
         IN  /\ p \in Int /\ 0 <= p /\ p <= PackedDegree * (a * b)
             /\ k = 2 * PackedDegree => p = 0
<1> DEFINE t == [i \in 0 .. k |-> Pack(f)[i] * Pack(g)[k - i]]
           N == PackedDegree
           c == a * b
<1>1. k \in Nat /\ N \in Nat /\ k <= 2 * N
  BY LaneSizes
<1>2. LaneProduct(Pack(f), Pack(g))[k] = SumTo(t, k + 1)
  BY DEF LaneProduct
<1>3. \A i \in 0 .. k : /\ t[i] \in Int /\ 0 <= t[i] /\ t[i] <= a * b
                        /\ (i >= N => t[i] = 0)
                        /\ (k - i >= N => t[i] = 0)
  BY LaneTerms
<1>3a. \A i \in 0 .. k : t[i] \in Int /\ 0 <= t[i] /\ t[i] <= c
  BY <1>3
<1>3b. c \in Int /\ c >= 0
  BY TimesSign
<1> HIDE DEF t, c, N
<1>4. k + 1 \in Nat /\ Integral(t, k + 1)
  BY <1>1, <1>3 DEF Integral
<1>5. SumTo(t, k + 1) \in Int /\ 0 <= SumTo(t, k + 1)
  <2>1. \A i \in 0 .. (k + 1) - 1 : 0 <= t[i] /\ t[i] <= c
    BY <1>1, <1>3a
  <2>2. k + 1 \in 0 .. k + 1
    BY <1>1
  <2> QED BY <1>3b, <1>4, <2>1, <2>2, SumIs, SumRange
<1>6. SumTo(t, k + 1) <= N * c
  <2>1. CASE k + 1 <= N
    <3>1. \A i \in 0 .. (k + 1) - 1 : 0 <= t[i] /\ t[i] <= c
      BY <1>1, <1>3a
    <3>2. SumTo(t, k + 1) <= (k + 1) * c
      BY <1>3b, <1>4, <3>1, SumRange
    <3>3. (k + 1) * c <= N * c
      BY <1>1, <1>3b, <2>1, TimesMonotone
    <3>4. (k + 1) * c \in Int /\ N * c \in Int
      BY <1>1, <1>3b
    <3> QED BY <1>5, <3>2, <3>3, <3>4
  <2>2. CASE N <= k
    <3>1. N \in 0 .. k + 1 /\ \A i \in N .. (k + 1) - 1 : t[i] = 0
      BY <1>1, <1>3, <2>2
    <3>2. SumTo(t, k + 1) = SumTo(t, N)
      BY <1>4, <3>1, SumRest
    <3>3. Integral(t, N) /\ \A i \in 0 .. N - 1 : 0 <= t[i] /\ t[i] <= c
      BY <1>1, <1>3a, <2>2 DEF Integral
    <3>4. SumTo(t, N) <= N * c
      BY <1>1, <1>3b, <3>3, SumRange
    <3> QED BY <3>2, <3>4
  <2> QED BY <1>1, <2>1, <2>2
<1>7. ASSUME k = 2 * N PROVE SumTo(t, k + 1) = 0
  <2>1. \A i \in 0 .. (k + 1) - 1 : t[i] = 0
    BY <1>1, <1>3, <1>7
  <2>2. 0 \in 0 .. k + 1 /\ \A i \in 0 .. (k + 1) - 1 : t[i] = 0
    BY <1>1, <2>1
  <2>3. SumTo(t, k + 1) = SumTo(t, 0)
    BY <1>4, <2>2, SumRest
  <2> QED BY <1>4, <2>3, SumIs
<1> USE DEF c, N
<1> QED BY <1>2, <1>5, <1>6, <1>7

(* The upper half of a product, subtracted from the lower one, is the      *)
(* product in the ring.                                                    *)
LEMMA FoldIs ==
  ASSUME NEW f, NEW g, NEW a \in Int, NEW b \in Int, Small(f, a), Small(g, b), a >= 0, b >= 0,
         NEW k \in Coefficients
  PROVE  LET p == LaneProduct(Pack(f), Pack(g))
         IN  Convolution(f, g)[k] = p[k] - p[k + PackedDegree]
<1> DEFINE N == PackedDegree
           s == [i \in 0 .. k |-> Pack(f)[i] * Pack(g)[k - i]]
           t == [i \in 0 .. k + N |-> Pack(f)[i] * Pack(g)[(k + N) - i]]
           r == [i \in 0 .. N - 1 |-> IF i <= k THEN s[i] ELSE 0]
           c == [i \in Coefficients |->
                  IF i <= k THEN f[i] * g[k - i] ELSE - (f[i] * g[PackedDegree + k - i])]
<1>1. N \in Nat \ {0} /\ k \in Nat /\ k < N /\ Coefficients = 0 .. N - 1
  BY LaneSizes
<1>2. k \in Lanes /\ k + N \in Lanes
  BY <1>1, LaneSizes
<1>3. LaneProduct(Pack(f), Pack(g))[k] = SumTo(s, k + 1)
  BY <1>2 DEF LaneProduct
<1>4. LaneProduct(Pack(f), Pack(g))[k + N] = SumTo(t, (k + N) + 1)
  BY <1>2 DEF LaneProduct
<1>5. Convolution(f, g)[k] = SumTo(c, N)
  BY DEF Convolution
<1>6. ASSUME NEW i \in 0 .. k
      PROVE  s[i] \in Int /\ s[i] = f[i] * g[k - i]
  <2>1. i < N /\ k - i < N
    BY <1>1
  <2> QED BY <1>2, <2>1, LaneTerms
<1>7. ASSUME NEW i \in 0 .. k + N
      PROVE  /\ t[i] \in Int
             /\ i >= N => t[i] = 0
             /\ i <= k => t[i] = 0
             /\ k < i /\ i < N => t[i] = f[i] * g[k + N - i]
  <2>1. /\ i <= k => (k + N) - i >= N
        /\ k < i => (k + N) - i < N
        /\ (k + N) - i = k + N - i
    BY <1>1
  <2> QED BY <1>2, <2>1, LaneTerms
<1>8. ASSUME NEW i \in 0 .. N - 1
      PROVE  /\ r[i] \in Int /\ (i > k => r[i] = 0) /\ (i <= k => r[i] = s[i])
             /\ c[i] = r[i] - t[i]
  <2>1. i \in Coefficients /\ i \in 0 .. k + N
    BY <1>1
  <2>2. CASE i <= k
    <3>1. i \in 0 .. k
      BY <1>1, <2>2
    <3>2. r[i] = s[i] /\ s[i] \in Int /\ s[i] = f[i] * g[k - i] /\ t[i] = 0
      BY <1>6, <1>7, <2>1, <2>2, <3>1
    <3>3. c[i] = f[i] * g[k - i]
      BY <2>1, <2>2
    <3> HIDE DEF r, s, t, c
    <3> QED BY <1>1, <2>2, <3>2, <3>3
  <2>3. CASE i > k
    <3>1. r[i] = 0 /\ t[i] \in Int /\ t[i] = f[i] * g[k + N - i]
      BY <1>1, <1>7, <2>1, <2>3
    <3>2. c[i] = - (f[i] * g[N + k - i])
      BY <1>1, <2>1, <2>3
    <3>3. N + k - i = k + N - i
      BY <1>1
    <3> HIDE DEF r, s, t, c
    <3>4. c[i] = - t[i]
      BY <3>1, <3>2, <3>3
    <3> QED BY <1>1, <2>3, <3>1, <3>4
  <2> QED BY <1>1, <2>2, <2>3
<1> HIDE DEF r, s, t, c
<1>9. Integral(s, k + 1) /\ Integral(t, (k + N) + 1) /\ Integral(r, N) /\ Integral(t, N)
  <2>1. \A i \in 0 .. (k + 1) - 1 : i \in 0 .. k
    BY <1>1
  <2>2. \A i \in 0 .. ((k + N) + 1) - 1 : i \in 0 .. k + N
    BY <1>1
  <2>3. \A i \in 0 .. N - 1 : i \in 0 .. k + N
    BY <1>1
  <2> QED BY <1>6, <1>7, <1>8, <2>1, <2>2, <2>3 DEF Integral
<1>10. SumTo(r, N) = SumTo(s, k + 1)
  <2>1. k + 1 \in 0 .. N /\ \A i \in k + 1 .. N - 1 : r[i] = 0
    BY <1>1, <1>8
  <2>2. SumTo(r, N) = SumTo(r, k + 1)
    BY <1>1, <1>9, <2>1, SumRest
  <2>3. k + 1 \in Nat /\ \A i \in 0 .. (k + 1) - 1 : r[i] = s[i]
    BY <1>1, <1>8
  <2>4. SumTo(r, k + 1) = SumTo(s, k + 1)
    BY <1>9, <2>3, SumSame
  <2> QED BY <2>2, <2>4
<1>11. SumTo(t, (k + N) + 1) = SumTo(t, N)
  <2>1. (k + N) + 1 \in Nat /\ N \in 0 .. (k + N) + 1
        /\ \A i \in N .. ((k + N) + 1) - 1 : t[i] = 0
    BY <1>1, <1>7
  <2> QED BY <1>9, <2>1, SumRest
<1>12. SumTo(c, N) = SumTo(r, N) - SumTo(t, N)
  BY <1>1, <1>8, <1>9, SumMinus
<1> QED BY <1>3, <1>4, <1>5, <1>10, <1>11, <1>12

(* A bounded set of numbers has a largest one.                             *)
LEMMA MaxExists ==
  ASSUME NEW m \in Nat, NEW A, A \subseteq 0 .. m, A # {}
  PROVE  Max(A) \in A /\ \A y \in A : y <= Max(A)
<1> DEFINE S == {n \in Nat : n <= m => \/ \A y \in A : y < m - n
                                       \/ \E x \in A : \A y \in A : y <= x}
<1>1. 0 \in S
  <2>1. CASE m \in A
    BY <2>1
  <2>2. CASE m \notin A
    BY <2>2
  <2> QED BY <2>1, <2>2
<1>2. ASSUME NEW n \in Nat, n \in S PROVE n + 1 \in S
  <2> SUFFICES ASSUME n + 1 <= m, ~ \E x \in A : \A y \in A : y <= x
               PROVE  \A y \in A : y < m - (n + 1)
    OBVIOUS
  <2>1. \A y \in A : y < m - n
    BY <1>2
  <2>2. m - (n + 1) \notin A
    BY <2>1
  <2> QED BY <2>1, <2>2
<1> HIDE DEF S
<1>3. m \in S
  BY <1>1, <1>2, SetInduction
<1>4. \E x \in A : \A y \in A : y <= x
  <2>1. (\A y \in A : y < m - m) \/ \E x \in A : \A y \in A : y <= x
    BY <1>3 DEF S
  <2>2. ~ \A y \in A : y < m - m
    <3>1. PICK y \in A : TRUE
      OBVIOUS
    <3>2. y \in 0 .. m
      OBVIOUS
    <3> QED BY <3>2
  <2> QED BY <2>1, <2>2
<1>5. \E x \in A : \A y \in A : x >= y
  BY <1>4
<1>6. Max(A) \in A /\ \A y \in A : Max(A) >= y
  BY <1>5, Zenon DEF Max
<1> QED BY <1>6

(* Every coefficient fits into the bits of the longest one.                *)
LEMMA MaxLengthIs ==
  ASSUME NEW f, \A i \in Coefficients : f[i] \in Nat
  PROVE  /\ MaxLength(f) \in Nat
         /\ \A i \in Coefficients : f[i] <= ShiftedOne[MaxLength(f)] - 1
<1> DEFINE A == {BitCount(f[i]) : i \in Coefficients}
<1>1. \A i \in Coefficients : BitCount(f[i]) \in Nat
  BY BitCountIs
<1>2. \E m \in Nat : \A i \in Coefficients : BitCount(f[i]) <= m
  <2> DEFINE S == {n \in Nat : n <= PackedDegree =>
                               \E m \in Nat : \A i \in 0 .. n - 1 : BitCount(f[i]) <= m}
  <2>1. 0 \in S
    <3>1. \A i \in 0 .. 0 - 1 : BitCount(f[i]) <= 0
      OBVIOUS
    <3> QED BY <3>1
  <2>2. ASSUME NEW n \in Nat, n \in S PROVE n + 1 \in S
    <3> SUFFICES ASSUME n + 1 <= PackedDegree
                 PROVE  \E m \in Nat : \A i \in 0 .. (n + 1) - 1 : BitCount(f[i]) <= m
      OBVIOUS
    <3>1. n \in Coefficients /\ \A i \in 0 .. (n + 1) - 1 : i \in 0 .. n - 1 \/ i = n
      BY LaneSizes
    <3>2. PICK m \in Nat : \A i \in 0 .. n - 1 : BitCount(f[i]) <= m
      BY <2>2, LaneSizes
    <3>3. BitCount(f[n]) \in Nat /\ \A i \in 0 .. n - 1 : BitCount(f[i]) \in Nat
      BY <1>1, <3>1, LaneSizes
    <3>4. m + BitCount(f[n]) \in Nat
      BY <3>3
    <3>5. \A i \in 0 .. (n + 1) - 1 : BitCount(f[i]) <= m + BitCount(f[n])
      BY <3>1, <3>2, <3>3
    <3> QED BY <3>4, <3>5
  <2> HIDE DEF S
  <2>3. PackedDegree \in S
    BY <2>1, <2>2, SetInduction, LaneSizes
  <2> QED BY <2>3, LaneSizes DEF S
<1>3. PICK m \in Nat : \A i \in Coefficients : BitCount(f[i]) <= m
  BY <1>2
<1>4. A \subseteq 0 .. m
  BY <1>1, <1>3
<1>5. A # {}
  <2>1. 0 \in Coefficients
    BY LaneSizes
  <2>2. BitCount(f[0]) \in A
    BY <2>1
  <2> QED BY <2>2
<1>6. MaxLength(f) = Max(A)
  BY DEF MaxLength
<1>6a. \A i \in Coefficients : BitCount(f[i]) \in A
  OBVIOUS
<1> HIDE DEF A
<1>7. MaxLength(f) \in A /\ \A y \in A : y <= MaxLength(f)
  BY <1>4, <1>5, <1>6, MaxExists
<1>8. MaxLength(f) \in Nat
  <2>1. MaxLength(f) \in 0 .. m
    BY <1>4, <1>7
  <2> QED BY <2>1
<1>9. ASSUME NEW i \in Coefficients PROVE f[i] <= ShiftedOne[MaxLength(f)] - 1
  <2>1. BitCount(f[i]) \in Nat /\ BitCount(f[i]) <= MaxLength(f)
    BY <1>1, <1>6a, <1>7
  <2>2. f[i] \in Nat /\ f[i] < ShiftedOne[BitCount(f[i])]
    BY BitCountIs
  <2>3. ShiftedOne[BitCount(f[i])] <= ShiftedOne[MaxLength(f)]
    BY <1>8, <2>1, ShiftedGrows
  <2>4. ShiftedOne[BitCount(f[i])] \in Int /\ ShiftedOne[MaxLength(f)] \in Int
    BY <1>8, <2>1, ShiftedOnes
  <2> QED BY <2>2, <2>3, <2>4
<1> QED BY <1>8, <1>9

(* What is unpacked: the lanes, without zeros at their end.                *)
Used(v) == Max({0} \cup {i + 1 : i \in {k \in Lanes : v[k] # 0}})

LEMMA UnpackedIs ==
  ASSUME NEW v
  PROVE  /\ Unpacked(v) = [i \in 0 .. Used(v) - 1 |-> v[i]]
         /\ Used(v) \in Nat /\ \A i \in Lanes : i >= Used(v) => v[i] = 0
         /\ Used(v) > 0 => Used(v) - 1 \in Lanes /\ v[Used(v) - 1] # 0
<1> DEFINE A == {0} \cup {i + 1 : i \in {k \in Lanes : v[k] # 0}}
<1>1. Unpacked(v) = [i \in 0 .. Used(v) - 1 |-> v[i]]
  BY DEF Unpacked, Used
<1>2. A \subseteq 0 .. 2 * PackedDegree + 1 /\ A # {} /\ 2 * PackedDegree + 1 \in Nat
  BY LaneSizes
<1>3. /\ \A x \in A : x = 0 \/ (x - 1 \in Lanes /\ v[x - 1] # 0)
      /\ \A i \in Lanes : v[i] # 0 => i + 1 \in A
  BY LaneSizes
<1>4. Used(v) = Max(A)
  BY DEF Used
<1> HIDE DEF A
<1>5. Used(v) \in A /\ \A y \in A : y <= Used(v)
  BY <1>2, <1>4, MaxExists
<1>6. Used(v) \in Nat
  <2>1. Used(v) \in 0 .. 2 * PackedDegree + 1
    BY <1>2, <1>5
  <2> QED BY <2>1
<1>7. ASSUME NEW i \in Lanes, i >= Used(v) PROVE v[i] = 0
  <2>1. i \in Nat /\ (v[i] # 0 => i + 1 <= Used(v))
    BY <1>3, <1>5, LaneSizes
  <2> QED BY <1>6, <1>7, <2>1
<1>8. Used(v) > 0 => Used(v) - 1 \in Lanes /\ v[Used(v) - 1] # 0
  BY <1>3, <1>5, <1>6
<1> QED BY <1>1, <1>6, <1>7, <1>8

(* The width of a product has room for the sum of its terms.               *)
LEMMA RoomForProduct ==
  ASSUME NEW a \in Int, NEW b \in Int, NEW n \in Int, NEW A \in Int, NEW C \in Int, NEW N \in Int,
         0 <= a, a < A, 0 <= b, b < C, 0 <= n, n < N
  PROVE  n * (a * b) < (A * C) * N
<1>1. 0 <= a * b /\ a * b <= A * C /\ a * b \in Int /\ A * C \in Int
  BY TermBound
<1>2. A * C > 0
  <2>1. 0 * C < A * C
    BY TimesStrict
  <2> QED BY <2>1
<1> DEFINE x == a * b
           y == A * C
<1>3. x \in Int /\ y \in Int /\ 0 <= x /\ x <= y /\ y > 0
  BY <1>1, <1>2
<1> HIDE DEF x, y
<1>4. x * n <= y * n /\ n * y < N * y
  BY <1>3, TimesMonotone, TimesStrict
<1>5. n * x < y * N
  BY <1>3, <1>4
<1> QED BY <1>5 DEF x, y

(* The reference product, whose lanes are as narrow as its factors allow,  *)
(* is the product in the ring.                                             *)
LEMMA PolyProductIs ==
  ASSUME NEW f, NEW g, \A i \in Coefficients : f[i] \in Nat /\ g[i] \in Nat
  PROVE  PolyProduct(f, g) = Convolution(f, g)
<1> DEFINE N == PackedDegree
           A == ShiftedOne[MaxLength(f)]
           C == ShiftedOne[MaxLength(g)]
           D == ShiftedOne[BitCount(PackedDegree)]
           a == A - 1
           b == C - 1
           w == ProductWidth(f, g)
           p == LaneProduct(Pack(f), Pack(g))
           lanes == Unpacked(Carried(p, w))
           At(i) == IF i \in DOMAIN lanes THEN lanes[i] ELSE 0
<1>1. /\ MaxLength(f) \in Nat /\ \A i \in Coefficients : f[i] <= a
      /\ MaxLength(g) \in Nat /\ \A i \in Coefficients : g[i] <= b
  BY MaxLengthIs
<1>2. A \in Nat \ {0} /\ C \in Nat \ {0}
  BY <1>1, ShiftedOnes
<1>3. a \in Int /\ b \in Int /\ a >= 0 /\ b >= 0 /\ a < A /\ b < C
  BY <1>2
<1>4. Small(f, a) /\ Small(g, b)
  BY <1>1 DEF Small
<1>5. N \in Nat /\ BitCount(N) \in Nat /\ N < D /\ D \in Nat
  BY LaneSizes, BitCountIs, ShiftedOnes
<1>6. w \in Nat /\ ShiftedOne[w] = (A * C) * D
  <2>1. MaxLength(f) + MaxLength(g) \in Nat
    BY <1>1
  <2>2. ShiftedOne[MaxLength(f) + MaxLength(g)] = A * C
    BY <1>1, ShiftedAdds
  <2>3. w = (MaxLength(f) + MaxLength(g)) + BitCount(PackedDegree)
    BY DEF ProductWidth
  <2>4. ShiftedOne[(MaxLength(f) + MaxLength(g)) + BitCount(PackedDegree)] = (A * C) * D
    BY <1>5, <2>1, <2>2, ShiftedAdds
  <2> QED BY <1>5, <2>1, <2>3, <2>4
<1> HIDE DEF a, b, A, C, D, w
<1>7. ASSUME NEW i \in Lanes PROVE p[i] \in Int /\ 0 <= p[i] /\ p[i] < ShiftedOne[w]
  <2>1. p[i] \in Int /\ 0 <= p[i] /\ p[i] <= N * (a * b)
    BY <1>3, <1>4, LaneBound
  <2>2. N * (a * b) < (A * C) * D /\ N * (a * b) \in Int /\ (A * C) * D \in Int
    BY <1>2, <1>3, <1>5, RoomForProduct
  <2> HIDE DEF p
  <2> QED BY <1>6, <2>1, <2>2
<1>8. Carried(p, w) = p
  <2>1. Carried(p, w) = [i \in Lanes |-> p[i]]
    BY <1>6, <1>7, NoCarry
  <2>2. [i \in Lanes |-> p[i]] = p
    BY DEF LaneProduct
  <2> QED BY <2>1, <2>2
<1>9. \A k \in Coefficients : Convolution(f, g)[k] = p[k] - p[k + N]
  BY <1>3, <1>4, FoldIs
<1>10. PolyProduct(f, g) = [i \in Coefficients |-> At(i) - At(i + PackedDegree)]
  BY DEF PolyProduct, w
<1> HIDE DEF p
<1>11. lanes = [i \in 0 .. Used(p) - 1 |-> p[i]] /\ Used(p) \in Nat
       /\ \A i \in Lanes : i >= Used(p) => p[i] = 0
  BY <1>8, UnpackedIs
<1> HIDE DEF lanes
<1>12. ASSUME NEW i \in Lanes PROVE At(i) = p[i]
  <2>1. i \in Nat
    BY LaneSizes
  <2>2. CASE i < Used(p)
    <3>1. i \in DOMAIN lanes /\ lanes[i] = p[i]
      BY <1>11, <2>1, <2>2
    <3> QED BY <3>1
  <2>3. CASE i >= Used(p)
    <3>1. i \notin DOMAIN lanes /\ p[i] = 0
      BY <1>11, <2>1, <2>3
    <3> QED BY <3>1
  <2> QED BY <1>11, <2>1, <2>2, <2>3
<1> HIDE DEF At
<1>13. \A i \in Coefficients : i \in Lanes /\ i + N \in Lanes
  BY LaneSizes
<1>14. \A i \in Coefficients : At(i) - At(i + N) = Convolution(f, g)[i]
  BY <1>9, <1>12, <1>13
<1>15. Convolution(f, g) = [i \in Coefficients |-> Convolution(f, g)[i]]
  BY DEF Convolution
<1> HIDE DEF N
<1>16. PolyProduct(f, g) = [i \in Coefficients |-> Convolution(f, g)[i]]
  BY <1>10, <1>14 DEF N
<1> QED BY <1>15, <1>16

(* One component of a switching key: what its digits add to the sums.      *)
DigitOf(f, d) ==
  [i \in Coefficients |-> (f[i] \div ShiftedOne[d * LaneDigitBits]) % ShiftedOne[LaneDigitBits]]
Share(f, key, c, k) ==
  [d \in 0 .. KeyDigits - 1 |-> LaneProduct(Pack(DigitOf(f, d)), Pack(key[d + 1][c]))[k]]
Accumulated(f, key, c, n) == [k \in Lanes |-> SumTo(Share(f, key, c, k), n)]
Keys == [1 .. KeyDigits -> KeyPolys \X KeyPolys]

(* There is room for the sum over all digits, below the bias.              *)
LEMMA KeySizes ==
  /\ KeyDigits \in Nat \ {0} /\ Width - 1 \in Nat /\ Width \in Nat
  /\ BiasCoefficient \in Nat \ {0} /\ ShiftedOne[Width] = 2 * BiasCoefficient
  /\ ShiftedOne[LaneDigitBits] \in Nat \ {0}
  /\ (PackedDegree * KeyDigits) * ((Modulus - 1) * (ShiftedOne[LaneDigitBits] - 1))
       < BiasCoefficient
<1> DEFINE A == ShiftedOne[BitCount(Modulus)]
           C == ShiftedOne[LaneDigitBits]
           n == PackedDegree * KeyDigits
           D == ShiftedOne[BitCount(n)]
           l == BitCount(Modulus)
           h == BitCount(n)
           e == l + LaneDigitBits - 1
<1>0. Modulus \in Nat \ {0} /\ LaneDigitBits \in Nat \ {0} /\ PackedDegree \in Nat \ {0}
  BY LaneSizes
<1>1. l \in Nat /\ l > 0 /\ Modulus < A /\ A \in Nat /\ C \in Nat \ {0}
  <2>1. Modulus \in Nat /\ Modulus > 0
    BY <1>0
  <2>2. l \in Nat /\ l > 0 /\ Modulus < A
    BY <2>1, BitCountIs
  <2>3. A \in Nat /\ C \in Nat \ {0}
    BY <1>0, <2>2, ShiftedOnes
  <2> QED BY <2>2, <2>3
<1>2. KeyDigits \in Nat \ {0}
  <2>1. KeyDigits = e \div LaneDigitBits
    BY DEF KeyDigits
  <2>2. e \in Int /\ e >= LaneDigitBits
    BY <1>0, <1>1
  <2> HIDE DEF e
  <2>3. /\ e \div LaneDigitBits \in Int /\ e % LaneDigitBits < LaneDigitBits
        /\ e = (e \div LaneDigitBits) * LaneDigitBits + (e % LaneDigitBits)
        /\ e % LaneDigitBits \in Int
    BY <1>0, <2>2, DivMod
  <2> DEFINE x == e \div LaneDigitBits
             y == e % LaneDigitBits
  <2>4. x \in Int /\ y \in Int /\ y < LaneDigitBits /\ e = x * LaneDigitBits + y
    BY <2>3
  <2> HIDE DEF x, y
  <2>5. 0 * LaneDigitBits < x * LaneDigitBits
    <3>1. x * LaneDigitBits \in Int
      BY <1>0, <2>4
    <3> QED BY <1>0, <2>2, <2>4, <3>1
  <2>6. 0 < x
    BY <1>0, <2>4, <2>5, TimesCancel
  <2> USE DEF x
  <2> QED BY <2>1, <2>4, <2>6
<1>3. n \in Nat /\ h \in Nat /\ n < D /\ D \in Nat
  <2>1. n \in Nat
    BY <1>0, <1>2, TimesSign
  <2> HIDE DEF n
  <2> QED BY <2>1, BitCountIs, ShiftedOnes
<1>4. Width = ((l + LaneDigitBits) + h) + 1
  BY DEF Width
<1>5. Width - 1 = (l + LaneDigitBits) + h /\ Width \in Nat /\ Width - 1 \in Nat
      /\ (Width - 1) + 1 = Width
  <2> HIDE DEF l, h
  <2> QED BY <1>0, <1>1, <1>3, <1>4
<1>6. ShiftedOne[(l + LaneDigitBits) + h] = (A * C) * D
  <2>1. l + LaneDigitBits \in Nat /\ LaneDigitBits \in Nat
    BY <1>0, <1>1
  <2>2. ShiftedOne[l + LaneDigitBits] = A * C
    BY <1>1, <2>1, ShiftedAdds
  <2> HIDE DEF l
  <2>3. ShiftedOne[(l + LaneDigitBits) + h] = ShiftedOne[l + LaneDigitBits] * D
    BY <1>3, <2>1, ShiftedAdds
  <2> QED BY <2>2, <2>3
<1>7. BiasCoefficient = (A * C) * D
  BY <1>5, <1>6 DEF BiasCoefficient
<1>8. BiasCoefficient \in Nat \ {0} /\ ShiftedOne[Width] = 2 * BiasCoefficient
  BY <1>5, ShiftedOnes DEF BiasCoefficient
<1>9. n * ((Modulus - 1) * (C - 1)) < (A * C) * D
  <2>1. Modulus - 1 \in Int /\ C - 1 \in Int /\ 0 <= Modulus - 1 /\ Modulus - 1 < A
        /\ 0 <= C - 1 /\ C - 1 < C /\ C \in Int /\ A \in Int
    BY <1>0, <1>1
  <2> HIDE DEF n, A, C, D
  <2> QED BY <1>3, <2>1, RoomForProduct
<1> QED BY <1>1, <1>2, <1>5, <1>7, <1>8, <1>9

(* Keys are reduced, and digits are of the bits of a digit.                *)
LEMMA KeyTypes ==
  ASSUME NEW f \in Polys, NEW key \in Keys, NEW d \in 0 .. KeyDigits - 1, NEW c \in {1, 2}
  PROVE  /\ \A i \in Coefficients : f[i] \in Nat /\ key[d + 1][c][i] \in Nat
         /\ Small(key[d + 1][c], Modulus - 1)
         /\ Small(DigitOf(f, d), ShiftedOne[LaneDigitBits] - 1)
<1>1. d + 1 \in 1 .. KeyDigits /\ d \in Nat
  BY KeySizes
<1>2. key[d + 1] \in KeyPolys \X KeyPolys
  BY <1>1 DEF Keys
<1>3. key[d + 1][c] \in KeyPolys
  BY <1>2
<1>4. key[d + 1][c] \in [Coefficients -> 0 .. Modulus - 1]
      /\ f \in [Coefficients -> 0 .. Modulus - 1]
  BY <1>3, KroneckerAssumption
<1>5. \A i \in Coefficients : f[i] \in Nat /\ key[d + 1][c][i] \in 0 .. Modulus - 1
  BY <1>4
<1>6. Small(key[d + 1][c], Modulus - 1)
  BY <1>5, LaneSizes DEF Small
<1>7. ASSUME NEW i \in Coefficients
      PROVE  LET x == DigitOf(f, d)[i]
             IN  x \in Int /\ 0 <= x /\ x <= ShiftedOne[LaneDigitBits] - 1
  <2> DEFINE p == ShiftedOne[d * LaneDigitBits]
             m == ShiftedOne[LaneDigitBits]
  <2>1. d * LaneDigitBits \in Nat
    BY <1>1, LaneSizes, TimesSign
  <2>2. p \in Nat \ {0} /\ m \in Nat \ {0} /\ f[i] \in Nat
    BY <1>5, <2>1, LaneSizes, ShiftedOnes
  <2>3. DigitOf(f, d)[i] = (f[i] \div p) % m
    BY DEF DigitOf
  <2> HIDE DEF p, m
  <2>4. f[i] \div p \in Int
    BY <2>2, DivMod
  <2>5. (f[i] \div p) % m \in Int /\ 0 <= (f[i] \div p) % m /\ (f[i] \div p) % m < m
    BY <2>2, <2>4, DivMod
  <2> DEFINE x == (f[i] \div p) % m
  <2>6. x \in Int /\ 0 <= x /\ x < m /\ DigitOf(f, d)[i] = x
    BY <2>3, <2>5
  <2> HIDE DEF x
  <2>7. x <= m - 1
    BY <2>2, <2>6
  <2> QED BY <2>6, <2>7 DEF m
<1>8. Small(DigitOf(f, d), ShiftedOne[LaneDigitBits] - 1)
  BY <1>7 DEF Small
<1> QED BY <1>5, <1>6, <1>8

(* The sums of some digits stay below the bias, and the last lane is       *)
(* empty.                                                                  *)
LEMMA ShareIs ==
  ASSUME NEW f \in Polys, NEW key \in Keys, NEW c \in {1, 2}, NEW k \in Lanes,
         NEW n \in 0 .. KeyDigits
  PROVE  /\ Integral(Share(f, key, c, k), KeyDigits)
         /\ SumTo(Share(f, key, c, k), n) \in Int
         /\ 0 <= SumTo(Share(f, key, c, k), n)
         /\ SumTo(Share(f, key, c, k), n) < BiasCoefficient
         /\ k = 2 * PackedDegree => SumTo(Share(f, key, c, k), n) = 0
<1> DEFINE s == Share(f, key, c, k)
           x == (Modulus - 1) * (ShiftedOne[LaneDigitBits] - 1)
           y == (ShiftedOne[LaneDigitBits] - 1) * (Modulus - 1)
           b == PackedDegree * x
<1>0. Modulus - 1 \in Nat /\ ShiftedOne[LaneDigitBits] - 1 \in Nat /\ PackedDegree \in Nat
      /\ KeyDigits \in Nat
  BY KeySizes, LaneSizes
<1>1. x \in Int /\ x >= 0 /\ x = y
  BY <1>0, TimesSign
<1>2. ASSUME NEW d \in 0 .. KeyDigits - 1
      PROVE  /\ s[d] \in Int /\ 0 <= s[d] /\ s[d] <= b
             /\ k = 2 * PackedDegree => s[d] = 0
  <2>1. s[d] = LaneProduct(Pack(DigitOf(f, d)), Pack(key[d + 1][c]))[k]
    BY DEF Share
  <2>2. Small(key[d + 1][c], Modulus - 1) /\ Small(DigitOf(f, d), ShiftedOne[LaneDigitBits] - 1)
    BY KeyTypes
  <2>3. /\ s[d] \in Int /\ 0 <= s[d] /\ s[d] <= PackedDegree * y
        /\ k = 2 * PackedDegree => s[d] = 0
    BY <1>0, <2>1, <2>2, LaneBound
  <2> HIDE DEF x, y, s
  <2> QED BY <1>1, <2>3
<1>3. (PackedDegree * KeyDigits) * x < BiasCoefficient /\ BiasCoefficient \in Nat
  BY KeySizes
<1> HIDE DEF s, x, y
<1>4. b \in Int /\ b >= 0
  BY <1>0, <1>1, TimesSign
<1>5. Integral(s, KeyDigits) /\ n \in Nat /\ Integral(s, n)
      /\ \A d \in 0 .. n - 1 : d \in 0 .. KeyDigits - 1
  BY <1>0, <1>2 DEF Integral
<1>6. n * b <= KeyDigits * b /\ KeyDigits * b = (PackedDegree * KeyDigits) * x
  <2>1. n * b <= KeyDigits * b
    BY <1>0, <1>4, <1>5, TimesMonotone
  <2>2. KeyDigits * (PackedDegree * x) = (PackedDegree * KeyDigits) * x
    BY <1>0, <1>1
  <2> QED BY <2>1, <2>2
<1> HIDE DEF b
<1>7. 0 <= SumTo(s, n) /\ SumTo(s, n) <= n * b /\ SumTo(s, n) \in Int
  <2>1. \A d \in 0 .. n - 1 : 0 <= s[d] /\ s[d] <= b
    BY <1>2, <1>5
  <2>2. 0 <= SumTo(s, n) /\ SumTo(s, n) <= n * b
    BY <1>4, <1>5, <2>1, SumRange
  <2>3. n \in 0 .. n
    BY <1>5
  <2>4. SumTo(s, n) \in Int
    BY <1>5, <2>3, SumIs
  <2> QED BY <2>2, <2>4
<1>8. SumTo(s, n) < BiasCoefficient
  <2>1. n * b \in Int /\ KeyDigits * b \in Int
    BY <1>0, <1>4, <1>5
  <2> QED BY <1>3, <1>6, <1>7, <2>1
<1>9. ASSUME k = 2 * PackedDegree PROVE SumTo(s, n) = 0
  <2>1. \A d \in 0 .. n - 1 : s[d] = 0
    BY <1>2, <1>5, <1>9
  <2>2. SumTo(s, n) = SumTo(s, 0)
    BY <1>5, <2>1, SumRest
  <2> QED BY <1>5, <2>2, SumIs
<1> QED BY <1>5, <1>7, <1>8, <1>9 DEF s

(* The sums are those of the digits done, lane by lane, and what is given  *)
(* out is their lower half minus the upper one.                            *)
SwitchInputs == switched \in Polys /\ switchKey \in Keys
SumsSoFar ==
  /\ digitsDone \in 0 .. KeyDigits
  /\ \A c \in {1, 2} : sums[c] = Accumulated(switched, switchKey, c, digitsDone)
FoldOf(v) == [i \in Coefficients |-> (v[i] - v[i + PackedDegree]) % Modulus]
OutputFolded ==
  output # <<>> =>
    /\ digitsDone = KeyDigits
    /\ \A c \in {1, 2} : output[c] = FoldOf(Accumulated(switched, switchKey, c, KeyDigits))
PackingInv == SwitchInputs /\ SumsSoFar /\ OutputFolded

(* Nothing was added yet.                                                  *)
LEMMA PackingInitial == PackingInit => PackingInv
<1> SUFFICES ASSUME PackingInit PROVE PackingInv
  OBVIOUS
<1>1. SwitchInputs
  BY DEF PackingInit, SwitchInputs, Keys
<1>2. ASSUME NEW c \in {1, 2} PROVE sums[c] = Accumulated(switched, switchKey, c, 0)
  <2>1. sums[c] = [k \in Lanes |-> 0]
    BY DEF PackingInit, Zero
  <2>2. ASSUME NEW k \in Lanes PROVE SumTo(Share(switched, switchKey, c, k), 0) = 0
    <3>1. 0 \in 0 .. KeyDigits /\ KeyDigits \in Nat
      BY KeySizes
    <3>2. Integral(Share(switched, switchKey, c, k), KeyDigits)
      BY <1>1, <3>1, ShareIs DEF SwitchInputs
    <3> QED BY <3>1, <3>2, SumIs
  <2> QED BY <2>1, <2>2 DEF Accumulated
<1>3. digitsDone = 0 /\ output = <<>> /\ 0 \in 0 .. KeyDigits
  BY KeySizes DEF PackingInit
<1>4. SumsSoFar
  BY <1>2, <1>3 DEF SumsSoFar
<1> QED BY <1>1, <1>3, <1>4 DEF PackingInv, OutputFolded

(* No lane runs into the next while products are added.                    *)
LEMMA AccumulateKeeps == ASSUME PackingInv, AccumulateDigit PROVE PackingInv'
<1> DEFINE n == digitsDone
           p(c) == LaneProduct(Pack(KeyDigit(n)), Pack(switchKey[n + 1][c]))
           v(c) == [i \in Lanes |-> sums[c][i] + p(c)[i]]
           after(c) == Accumulated(switched, switchKey, c, n + 1)
<1>1. switched \in Polys /\ switchKey \in Keys /\ n \in Nat /\ n < KeyDigits /\ KeyDigits \in Nat
  BY KeySizes DEF PackingInv, SwitchInputs, SumsSoFar, AccumulateDigit
<1>2. /\ switched' = switched /\ switchKey' = switchKey /\ output' = output /\ digitsDone' = n + 1
      /\ sums' = [c \in {1, 2} |-> Carried(v(c), Width)]
  BY DEF AccumulateDigit
<1>3. ASSUME NEW c \in {1, 2}, NEW i \in Lanes
      PROVE  /\ v(c)[i] = SumTo(Share(switched, switchKey, c, i), n + 1)
             /\ v(c)[i] \in Int /\ 0 <= v(c)[i] /\ v(c)[i] < ShiftedOne[Width]
  <2> DEFINE s == Share(switched, switchKey, c, i)
  <2>1. n \in 0 .. KeyDigits /\ n + 1 \in 0 .. KeyDigits /\ n \in 0 .. KeyDigits - 1
    BY <1>1
  <2>2. sums[c][i] = SumTo(s, n)
    BY DEF PackingInv, SumsSoFar, Accumulated
  <2>3. p(c)[i] = s[n]
    <3>1. KeyDigit(n) = DigitOf(switched, n)
      BY DEF KeyDigit, DigitOf
    <3> QED BY <2>1, <3>1 DEF Share
  <2>4. v(c)[i] = SumTo(s, n) + s[n]
    BY <2>2, <2>3
  <2>5. /\ Integral(s, KeyDigits) /\ SumTo(s, n + 1) \in Int
        /\ 0 <= SumTo(s, n + 1) /\ SumTo(s, n + 1) < BiasCoefficient
    BY <1>1, <2>1, ShareIs
  <2> HIDE DEF v, s
  <2>6. SumTo(s, n + 1) = SumTo(s, n) + s[n]
    BY <1>1, <2>1, <2>5, SumIs
  <2>7. BiasCoefficient \in Nat /\ ShiftedOne[Width] = 2 * BiasCoefficient
    BY KeySizes
  <2>8. v(c)[i] = SumTo(s, n + 1)
    BY <2>4, <2>6
  <2>9. SumTo(s, n + 1) < 2 * BiasCoefficient
    BY <2>5, <2>7
  <2> QED BY <2>5, <2>7, <2>8, <2>9 DEF s
<1>4. ASSUME NEW c \in {1, 2} PROVE sums'[c] = after(c)
  <2>1. sums'[c] = Carried(v(c), Width)
    BY <1>2
  <2> HIDE DEF v
  <2>2. Carried(v(c), Width) = [i \in Lanes |-> v(c)[i]]
    BY <1>3, KeySizes, NoCarry
  <2>3. [i \in Lanes |-> v(c)[i]] = [i \in Lanes |-> SumTo(Share(switched, switchKey, c, i), n + 1)]
    BY <1>3
  <2> QED BY <2>1, <2>2, <2>3 DEF Accumulated
<1>5. n + 1 \in 0 .. KeyDigits
  BY <1>1
<1>6. output = <<>>
  BY <1>1 DEF PackingInv, OutputFolded
<1> HIDE DEF n
<1>7. SumsSoFar'
  BY <1>2, <1>4, <1>5 DEF SumsSoFar
<1>8. SwitchInputs' /\ OutputFolded'
  BY <1>1, <1>2, <1>6 DEF SwitchInputs, OutputFolded
<1> QED BY <1>7, <1>8 DEF PackingInv

(* Folding gives one positive lane for every coefficient.                  *)
LEMMA FoldedIs ==
  ASSUME NEW f \in Polys, NEW key \in Keys, NEW c \in {1, 2},
         NEW v, v = Accumulated(f, key, c, KeyDigits)
  PROVE  LET lanes == Unpacked(Folded(v))
         IN  /\ DOMAIN lanes = Coefficients
             /\ \A i \in Coefficients :
                  (lanes[i] - BiasCoefficient) % Modulus = FoldOf(v)[i]
<1> DEFINE N == PackedDegree
           bias == BiasCoefficient
           u == [i \in Lanes |->
                  IF i < PackedDegree THEN v[i] - v[i + PackedDegree] + BiasCoefficient
                  ELSE IF i = PackedDegree THEN - v[2 * PackedDegree] ELSE 0]
<1>1. N \in Nat \ {0} /\ Coefficients = 0 .. N - 1 /\ Lanes = 0 .. 2 * N /\ KeyDigits \in Nat
      /\ bias \in Nat /\ Width \in Nat /\ ShiftedOne[Width] = 2 * bias /\ bias > 0
  BY LaneSizes, KeySizes
<1>2. ASSUME NEW i \in Lanes
      PROVE  v[i] \in Int /\ 0 <= v[i] /\ v[i] < bias /\ (i = 2 * N => v[i] = 0)
  <2>1. KeyDigits \in 0 .. KeyDigits
    BY <1>1
  <2>2. v[i] = SumTo(Share(f, key, c, i), KeyDigits)
    BY DEF Accumulated
  <2> QED BY <2>1, <2>2, ShareIs
<1>3. 2 * N \in Lanes /\ \A i \in Lanes : i < N => i + N \in Lanes
  BY <1>1
<1>4. \A i \in Lanes : u[i] = IF i < N THEN v[i] - v[i + N] + bias
                               ELSE IF i = N THEN - v[2 * N] ELSE 0
  OBVIOUS
<1> HIDE DEF u, bias, N
<1>5. ASSUME NEW i \in Lanes
      PROVE  /\ u[i] \in Int /\ 0 <= u[i] /\ u[i] < ShiftedOne[Width]
             /\ i < N => u[i] > 0 /\ u[i] = (v[i] - v[i + N]) + bias
             /\ i >= N => u[i] = 0
  <2>1. CASE i < N
    <3>1. i + N \in Lanes
      BY <1>3, <2>1
    <3>2. v[i] \in Int /\ 0 <= v[i] /\ v[i] < bias
          /\ v[i + N] \in Int /\ 0 <= v[i + N] /\ v[i + N] < bias
      BY <1>2, <3>1
    <3>3. u[i] = (v[i] - v[i + N]) + bias
      BY <1>4, <2>1
    <3> QED BY <1>1, <2>1, <3>2, <3>3
  <2>2. CASE i >= N
    <3>1. v[2 * N] = 0
      BY <1>2, <1>3
    <3>2. i \in Int
      BY <1>1
    <3>3. u[i] = IF i = N THEN - v[2 * N] ELSE 0
      BY <1>1, <1>4, <2>2, <3>2
    <3>4. - v[2 * N] = 0
      <4>1. (\A x \in Int : - x = 0 - x) /\ 0 \in Int /\ 0 - 0 = 0
        OBVIOUS
      <4>2. - 0 = 0
        BY <4>1, Zenon
      <4> QED BY <3>1, <4>2, Zenon
    <3>5. u[i] = 0
      BY <3>3, <3>4, Zenon
    <3> QED BY <1>1, <2>2, <3>2, <3>5
  <2> QED BY <1>1, <2>1, <2>2
<1>6. Carried(u, Width) = u
  <2>1. Carried(u, Width) = [i \in Lanes |-> u[i]]
    BY <1>1, <1>5, NoCarry
  <2>2. [i \in Lanes |-> u[i]] = u
    BY DEF u
  <2> QED BY <2>1, <2>2
<1>7. Folded(v) = u
  BY <1>6 DEF Folded, u
<1>8. Used(u) = N
  <2>1. Used(u) \in Nat /\ \A i \in Lanes : i >= Used(u) => u[i] = 0
    BY UnpackedIs
  <2>2. Used(u) > 0 => Used(u) - 1 \in Lanes /\ u[Used(u) - 1] # 0
    BY UnpackedIs
  <2>3. N - 1 \in Lanes /\ u[N - 1] > 0
    BY <1>1, <1>5
  <2>4. ~(N - 1 >= Used(u))
    BY <1>1, <2>1, <2>3
  <2>5. Used(u) - 1 \in Lanes /\ ~(Used(u) - 1 >= N)
    BY <1>1, <1>5, <2>1, <2>2, <2>4
  <2> QED BY <1>1, <2>1, <2>4, <2>5
<1>9. Unpacked(u) = [i \in Coefficients |-> u[i]]
  <2>1. Unpacked(u) = [i \in 0 .. Used(u) - 1 |-> u[i]]
    BY UnpackedIs
  <2> QED BY <1>1, <1>8, <2>1
<1>10. ASSUME NEW i \in Coefficients
       PROVE  (u[i] - bias) % Modulus = FoldOf(v)[i]
  <2>1. i \in Lanes /\ i < N /\ i + N \in Lanes
    BY <1>1
  <2>2. u[i] = (v[i] - v[i + N]) + bias /\ v[i] \in Int /\ v[i + N] \in Int
    BY <1>2, <1>5, <2>1
  <2>3. u[i] - bias = v[i] - v[i + N]
    BY <1>1, <2>2
  <2>4. FoldOf(v)[i] = (v[i] - v[i + N]) % Modulus
    BY DEF FoldOf, N
  <2> QED BY <2>3, <2>4
<1>11. DOMAIN Unpacked(u) = Coefficients /\ \A i \in Coefficients : Unpacked(u)[i] = u[i]
  BY <1>9
<1> QED BY <1>7, <1>10, <1>11 DEF bias

(* The result is folded lane by lane.                                      *)
LEMMA FinishKeeps == ASSUME PackingInv, FinishSwitch PROVE PackingInv'
<1>1. switched \in Polys /\ switchKey \in Keys /\ digitsDone = KeyDigits
      /\ \A c \in {1, 2} : sums[c] = Accumulated(switched, switchKey, c, KeyDigits)
  BY DEF PackingInv, SwitchInputs, SumsSoFar, FinishSwitch
<1>2. UNCHANGED <<switched, switchKey, digitsDone, sums>>
  BY DEF FinishSwitch
<1>3. ASSUME NEW c \in {1, 2} PROVE output'[c] = FoldOf(sums[c])
  <2> DEFINE lanes == Unpacked(Folded(sums[c]))
  <2>1. output'[c] = [i \in DOMAIN lanes |-> (lanes[i] - BiasCoefficient) % Modulus]
    BY DEF FinishSwitch
  <2>2. DOMAIN lanes = Coefficients
        /\ \A i \in Coefficients : (lanes[i] - BiasCoefficient) % Modulus = FoldOf(sums[c])[i]
    BY <1>1, FoldedIs
  <2>3. FoldOf(sums[c]) = [i \in Coefficients |-> FoldOf(sums[c])[i]]
    BY DEF FoldOf
  <2> HIDE DEF lanes
  <2> QED BY <2>1, <2>2, <2>3
<1>4. SwitchInputs' /\ SumsSoFar'
  BY <1>2 DEF PackingInv, SwitchInputs, SumsSoFar
<1>5. \A c \in {1, 2} : output'[c] = FoldOf(Accumulated(switched, switchKey, c, KeyDigits))
  BY <1>1, <1>3
<1>6. OutputFolded'
  BY <1>1, <1>2, <1>5 DEF OutputFolded
<1> QED BY <1>4, <1>6 DEF PackingInv

(* The invariant of the packed switching key.                              *)
LEMMA PackingInductive == PackingSpec => []PackingInv
<1>1. ASSUME PackingInv, [PackingNext]_packingVars PROVE PackingInv'
  <2>1. CASE UNCHANGED packingVars
    BY <1>1, <2>1 DEF PackingInv, SwitchInputs, SumsSoFar, OutputFolded, packingVars
  <2> QED BY <1>1, <2>1, AccumulateKeeps, FinishKeeps DEF PackingNext
<1> QED BY <1>1, PackingInitial, PTL DEF PackingSpec

(* The reference adds products in the ring, one for every digit.           *)
LEMMA ReferenceIs ==
  ASSUME PackingInv, NEW c \in {1, 2}, NEW i \in Coefficients
  PROVE  LET v == Accumulated(switched, switchKey, c, KeyDigits)
         IN  Reference(c, KeyDigits)[i] = v[i] - v[i + PackedDegree]
<1> DEFINE f == Share(switched, switchKey, c, i)
           g == Share(switched, switchKey, c, i + PackedDegree)
           h == [d \in 0 .. KeyDigits - 1 |->
                  Convolution(KeyDigit(d), switchKey[d + 1][c])[i]]
<1>1. switched \in Polys /\ switchKey \in Keys /\ KeyDigits \in Nat
      /\ i \in Lanes /\ i + PackedDegree \in Lanes
  BY KeySizes, LaneSizes DEF PackingInv, SwitchInputs
<1>2. Reference(c, KeyDigits)[i] = SumTo(h, KeyDigits)
  BY DEF Reference
<1>3. Integral(f, KeyDigits) /\ Integral(g, KeyDigits)
  <2>1. KeyDigits \in 0 .. KeyDigits
    BY <1>1
  <2> QED BY <1>1, <2>1, ShareIs
<1>4. ASSUME NEW d \in 0 .. KeyDigits - 1 PROVE h[d] = f[d] - g[d]
  <2>1. Small(switchKey[d + 1][c], Modulus - 1)
        /\ Small(DigitOf(switched, d), ShiftedOne[LaneDigitBits] - 1)
    BY <1>1, KeyTypes
  <2>2. Modulus - 1 \in Int /\ Modulus - 1 >= 0 /\ ShiftedOne[LaneDigitBits] - 1 \in Int
        /\ ShiftedOne[LaneDigitBits] - 1 >= 0
    BY KeySizes, LaneSizes
  <2>3. KeyDigit(d) = DigitOf(switched, d)
    BY DEF KeyDigit, DigitOf
  <2> DEFINE p == LaneProduct(Pack(DigitOf(switched, d)), Pack(switchKey[d + 1][c]))
  <2>4. Convolution(DigitOf(switched, d), switchKey[d + 1][c])[i] = p[i] - p[i + PackedDegree]
    BY <2>1, <2>2, FoldIs
  <2>5. f[d] = p[i] /\ g[d] = p[i + PackedDegree]
    BY DEF Share
  <2> HIDE DEF p, f, g
  <2> QED BY <2>3, <2>4, <2>5
<1> HIDE DEF f, g, h
<1>5. SumTo(h, KeyDigits) = SumTo(f, KeyDigits) - SumTo(g, KeyDigits)
  BY <1>1, <1>3, <1>4, SumMinus
<1>6. /\ Accumulated(switched, switchKey, c, KeyDigits)[i] = SumTo(f, KeyDigits)
      /\ Accumulated(switched, switchKey, c, KeyDigits)[i + PackedDegree] = SumTo(g, KeyDigits)
  BY <1>1 DEF Accumulated, f, g
<1> QED BY <1>2, <1>5, <1>6

(* Hence packed products are products in the ring.                         *)
LEMMA PackingExact == PackingInv => PackedProductsAreExact
<1> SUFFICES ASSUME PackingInv, output # <<>> PROVE PackedProductsAreExact
  BY DEF PackedProductsAreExact
<1>1. switched \in Polys /\ switchKey \in Keys
      /\ \A c \in {1, 2} : output[c] = FoldOf(Accumulated(switched, switchKey, c, KeyDigits))
  BY DEF PackingInv, SwitchInputs, OutputFolded
<1>2. ASSUME NEW c \in {1, 2}
      PROVE  output[c] = [i \in Coefficients |-> Reference(c, KeyDigits)[i] % Modulus]
  <2> DEFINE v == Accumulated(switched, switchKey, c, KeyDigits)
  <2>1. \A i \in Coefficients : Reference(c, KeyDigits)[i] = v[i] - v[i + PackedDegree]
    BY ReferenceIs
  <2>2. output[c] = [i \in Coefficients |-> (v[i] - v[i + PackedDegree]) % Modulus]
    BY <1>1 DEF FoldOf
  <2> HIDE DEF v
  <2> QED BY <2>1, <2>2
<1>3. \A c \in {1, 2}, i \in Coefficients : switched[i] \in Nat /\ switchKey[1][c][i] \in Nat
  <2>1. 0 \in 0 .. KeyDigits - 1 /\ 0 + 1 = 1
    BY KeySizes
  <2> QED BY <1>1, <2>1, KeyTypes
<1>4. PolyProduct(switched, switched) = Convolution(switched, switched)
  BY <1>3, PolyProductIs
<1>5. \A c \in {1, 2} :
        PolyProduct(switched, switchKey[1][c]) = Convolution(switched, switchKey[1][c])
  BY <1>3, PolyProductIs
<1> QED BY <1>2, <1>4, <1>5 DEF PackedProductsAreExact

(* For every degree, modulus, digit width, key and polynomial: switching   *)
(* by packed integers is switching by products in the ring, and the packed *)
(* reference product is exact.                                             *)
THEOREM PackedProducts == PackingSpec => []PackedProductsAreExact
  BY PackingInductive, PackingExact, PTL
=============================================================================
