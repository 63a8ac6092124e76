--------------------------- MODULE RescalingProofs ---------------------------
(***************************************************************************)
(* Exact rounding on residues, for every word size, list of primes and     *)
(* value within the bounds of a tensor: a product is scaled by t / Q and   *)
(* rounded exactly, wherever the fixed-point bounds disagree.              *)
(***************************************************************************)
EXTENDS ArithmeticProofs, ExactRescaling

(* The least number of a set.                                              *)
LEMMA MinExists ==
  ASSUME NEW m \in Nat, NEW A, A \subseteq 0 .. m, A # {}
  PROVE  Min(A) \in A /\ \A y \in A : Min(A) <= y
<1> DEFINE S == {n \in 0 .. m : n \in A => \E x \in A : \A y \in A : x <= y}
<1>1. ASSUME NEW n \in 0 .. m, \A k \in 0 .. n - 1 : k \in S PROVE n \in S
  <2>1. CASE \E k \in 0 .. n - 1 : k \in A
    BY <1>1, <2>1
  <2>2. CASE \A k \in 0 .. n - 1 : k \notin A
    <3>1. \A y \in A : n <= y
      BY <2>2
    <3> QED BY <3>1
  <2> QED BY <2>1, <2>2
<1> HIDE DEF S
<1>2. \A n \in 0 .. m : n \in S
  BY <1>1, StrongInduction
<1>3. PICK x \in A : \A y \in A : x <= y
  BY <1>2 DEF S
<1> QED BY <1>3, Zenon DEF Min

(* Sums over a base.                                                       *)
Entry(f, j) == IF j \in DOMAIN f THEN f[j] ELSE 0
Numbers(f) == \A j \in 1 .. Len(P) : Entry(f, j) \in Int

Totals(f, s) ==
  /\ s[0] = 0 /\ \A j \in 0 .. Len(P) : s[j] \in Int
  /\ \A j \in 1 .. Len(P) : s[j] = s[j - 1] + Entry(f, j)
  /\ Total(f) = s[Len(P)]

(* The primes of the kernels.                                              *)
LEMMA PrimesListed ==
  Len(P) \in Nat /\ \A j \in 1 .. Len(P) : P[j] \in Nat /\ Fits(P[j]) /\ P[j] > 1 /\ 32 * P[j] > B
BY RescalingAssumption, FitsFacts

(* A sum has the partial sums that define it.                              *)
LEMMA TotalRuns ==
  ASSUME NEW f, Numbers(f)
  PROVE  \E s : Totals(f, s)
<1> DEFINE L == Len(P)
<1> DEFINE Table(s) == s = [j \in 0 .. L |->
             IF j = 0 THEN 0 ELSE s[j - 1] + (IF j \in DOMAIN f THEN f[j] ELSE 0)]
           T == CHOOSE s : Table(s)
           F == [j \in 1 .. L |-> [x \in Int |-> x + Entry(f, j)]]
<1>0. L \in Nat /\ 0 \in Int
  BY PrimesListed
<1>1. F \in [1 .. L -> [Int -> Int]]
  BY DEF Numbers
<1> HIDE DEF F, L
<1>2. PICK s : Runs(s, L, Int, 0, F)
  BY <1>0, <1>1, Recursion
<1>3. ASSUME NEW j \in 1 .. L PROVE s[j] = s[j - 1] + Entry(f, j) /\ s[j] \in Int
  <2>1. s[j - 1] \in Int
    BY <1>0, <1>2 DEF Runs
  <2>2. s[j] \in Int
    BY <1>0, <1>2 DEF Runs
  <2> QED BY <1>2, <2>1, <2>2 DEF Runs, F
<1>4. Table(s)
  BY <1>2, <1>3, <1>0 DEF Runs, Entry
<1> HIDE DEF Table
<1>5. Table(T)
  BY <1>4, Zenon
<1>6. Total(f) = T[L]
  BY Zenon DEF Total, Table, L
<1> USE DEF Table
<1> HIDE DEF T
<1>7. T[0] = 0 /\ \A j \in 1 .. L : T[j] = T[j - 1] + Entry(f, j)
  BY <1>0, <1>5 DEF Entry
<1>8. Follows(T, s, L)
  BY <1>2, <1>3, <1>7 DEF Follows, Runs
<1>9. Agree(T, s, L)
  BY <1>0, <1>8, SameRecursion
<1>10. \A j \in 0 .. L : T[j] \in Int
  BY <1>0, <1>2, <1>9 DEF Agree, Runs
<1> QED BY <1>6, <1>7, <1>10 DEF Totals, L

Combines(h, a, f, b, g) ==
  \A j \in 1 .. Len(P) : Entry(h, j) = a * Entry(f, j) + b * Entry(g, j)

(* The sum of a linear combination.                                        *)
LEMMA TotalLinear ==
  ASSUME NEW f, NEW g, NEW h, NEW a \in Int, NEW b \in Int, Numbers(f), Numbers(g),
         Combines(h, a, f, b, g)
  PROVE  /\ Total(f) \in Int /\ Total(g) \in Int
         /\ Total(h) = a * Total(f) + b * Total(g)
<1>0. Len(P) \in Nat
  BY PrimesListed
<1>1. Numbers(h)
  <2>1. ASSUME NEW j \in 1 .. Len(P) PROVE Entry(h, j) \in Int
    <3>1. Entry(f, j) \in Int /\ Entry(g, j) \in Int
      BY DEF Numbers
    <3> QED BY <3>1 DEF Combines
  <2> QED BY <2>1 DEF Numbers
<1>2. PICK s : Totals(f, s)
  BY TotalRuns
<1>3. PICK t : Totals(g, t)
  BY TotalRuns
<1>4. PICK w : Totals(h, w)
  BY <1>1, TotalRuns
<1> DEFINE S == {n \in Nat : n <= Len(P) => w[n] = a * s[n] + b * t[n]}
<1>5. 0 \in S
  <2>1. a * 0 = 0 /\ b * 0 = 0
    OBVIOUS
  <2> QED BY <1>2, <1>3, <1>4, <2>1 DEF Totals
<1>6. ASSUME NEW n \in Nat, n \in S PROVE n + 1 \in S
  <2> SUFFICES ASSUME n + 1 <= Len(P) PROVE w[n + 1] = a * s[n + 1] + b * t[n + 1]
    OBVIOUS
  <2>1. n + 1 \in 1 .. Len(P) /\ (n + 1) - 1 = n /\ n \in 0 .. Len(P)
    BY <1>0
  <2>2. PICK x \in Int, y \in Int : x = s[n] /\ y = t[n]
    BY <1>2, <1>3, <2>1 DEF Totals
  <2>3. PICK k \in Int, l \in Int : k = Entry(f, n + 1) /\ l = Entry(g, n + 1)
    BY <2>1 DEF Numbers
  <2>4. s[n + 1] = x + k /\ t[n + 1] = y + l
    BY <1>2, <1>3, <2>1, <2>2, <2>3 DEF Totals
  <2>5. w[n + 1] = (a * x + b * y) + (a * k + b * l)
    <3>1. w[n] = a * x + b * y
      BY <1>6, <2>1, <2>2
    <3>2. Entry(h, n + 1) = a * k + b * l
      BY <2>1, <2>3 DEF Combines
    <3>3. w[n + 1] = w[n] + Entry(h, n + 1)
      BY <1>4, <2>1 DEF Totals
    <3> QED BY <3>1, <3>2, <3>3
  <2>6. (a * x + b * y) + (a * k + b * l) = a * (x + k) + b * (y + l)
    OBVIOUS
  <2> QED BY <2>4, <2>5, <2>6
<1> HIDE DEF S
<1>7. Len(P) \in S
  BY <1>0, <1>5, <1>6, SetInduction
<1> USE DEF S
<1>8. Len(P) \in 0 .. Len(P)
  BY <1>0
<1> QED BY <1>0, <1>2, <1>3, <1>4, <1>7, <1>8 DEF Totals

(* Sums of smaller entries are smaller.                                    *)
LEMMA TotalMonotone ==
  ASSUME NEW f, NEW g, Numbers(f), Numbers(g),
         \A j \in 1 .. Len(P) : Entry(f, j) <= Entry(g, j)
  PROVE  Total(f) \in Int /\ Total(g) \in Int /\ Total(f) <= Total(g)
<1>0. Len(P) \in Nat
  BY PrimesListed
<1>2. PICK s : Totals(f, s)
  BY TotalRuns
<1>3. PICK t : Totals(g, t)
  BY TotalRuns
<1> DEFINE S == {n \in Nat : n <= Len(P) => s[n] <= t[n]}
<1>5. 0 \in S
  BY <1>2, <1>3 DEF Totals
<1>6. ASSUME NEW n \in Nat, n \in S PROVE n + 1 \in S
  <2> SUFFICES ASSUME n + 1 <= Len(P) PROVE s[n + 1] <= t[n + 1]
    OBVIOUS
  <2>1. n + 1 \in 1 .. Len(P) /\ (n + 1) - 1 = n /\ n \in 0 .. Len(P)
    BY <1>0
  <2>2. s[n] \in Int /\ t[n] \in Int /\ s[n] <= t[n]
    BY <1>2, <1>3, <2>1, <1>6 DEF Totals
  <2>3. Entry(f, n + 1) \in Int /\ Entry(g, n + 1) \in Int /\ Entry(f, n + 1) <= Entry(g, n + 1)
    BY <2>1 DEF Numbers
  <2>4. s[n + 1] = s[n] + Entry(f, n + 1) /\ t[n + 1] = t[n] + Entry(g, n + 1)
    BY <1>2, <1>3, <2>1 DEF Totals
  <2> QED BY <2>2, <2>3, <2>4
<1> HIDE DEF S
<1>7. Len(P) \in S
  BY <1>0, <1>5, <1>6, SetInduction
<1> USE DEF S
<1>8. Len(P) \in 0 .. Len(P)
  BY <1>0
<1> QED BY <1>0, <1>2, <1>3, <1>7, <1>8 DEF Totals

(* A sum with a single entry other than zero.                              *)
LEMMA TotalSingle ==
  ASSUME NEW g, NEW k \in 1 .. Len(P), NEW c \in Int,
         \A j \in 1 .. Len(P) : Entry(g, j) = IF j = k THEN c ELSE 0
  PROVE  Total(g) = c
<1>0. Len(P) \in Nat
  BY PrimesListed
<1>2. PICK s : Totals(g, s)
  BY TotalRuns DEF Numbers
<1> DEFINE S == {n \in Nat : n <= Len(P) => s[n] = IF n < k THEN 0 ELSE c}
<1>5. 0 \in S
  BY <1>2 DEF Totals
<1>6. ASSUME NEW n \in Nat, n \in S PROVE n + 1 \in S
  <2> SUFFICES ASSUME n + 1 <= Len(P) PROVE s[n + 1] = IF n + 1 < k THEN 0 ELSE c
    OBVIOUS
  <2>1. n + 1 \in 1 .. Len(P) /\ (n + 1) - 1 = n /\ n \in 0 .. Len(P)
    BY <1>0
  <2>2. s[n] = IF n < k THEN 0 ELSE c
    BY <2>1, <1>6
  <2>4. s[n + 1] = s[n] + (IF n + 1 = k THEN c ELSE 0)
    BY <1>2, <2>1 DEF Totals
  <2> QED BY <2>2, <2>4
<1> HIDE DEF S
<1>7. Len(P) \in S
  BY <1>0, <1>5, <1>6, SetInduction
<1> USE DEF S
<1> QED BY <1>0, <1>2, <1>7 DEF Totals

(* A base has as many members as ones add up to.                           *)
LEMMA TotalOnes ==
  ASSUME NEW base, base \subseteq 1 .. Len(P)
  PROVE  /\ Numbers([j \in base |-> 1])
         /\ Total([j \in base |-> 1]) = Cardinality(base)
         /\ IsFiniteSet(base) /\ Cardinality(base) \in Nat
<1> DEFINE f == [j \in base |-> 1]
<1> DEFINE Up(n) == {j \in base : j <= n}
<1>0. Len(P) \in Nat
  BY PrimesListed
<1>4. \A j \in base : j \in Int /\ 1 <= j /\ j <= Len(P)
  BY <1>0
<1>1. \A j : Entry(f, j) = IF j \in base THEN 1 ELSE 0
  BY DEF Entry
<1> HIDE DEF f
<1>2. Numbers(f)
  BY <1>1 DEF Numbers
<1>3. PICK s : Totals(f, s)
  BY <1>2, TotalRuns
<1> DEFINE S == {n \in Nat : n <= Len(P) =>
                   IsFiniteSet(Up(n)) /\ Cardinality(Up(n)) \in Nat /\ s[n] = Cardinality(Up(n))}
<1>5. 0 \in S
  <2>1. \A j \in base : ~ (j <= 0)
    BY <1>4
  <2>2. Up(0) = {}
    BY <2>1
  <2> HIDE DEF Up
  <2>3. IsFiniteSet(Up(0)) /\ Cardinality(Up(0)) = 0
    BY <2>2, FS_EmptySet
  <2>4. s[0] = 0
    BY <1>3 DEF Totals
  <2> QED BY <2>3, <2>4
<1>6. ASSUME NEW n \in Nat, n \in S PROVE n + 1 \in S
  <2> SUFFICES ASSUME n + 1 <= Len(P)
               PROVE  /\ IsFiniteSet(Up(n + 1)) /\ Cardinality(Up(n + 1)) \in Nat
                      /\ s[n + 1] = Cardinality(Up(n + 1))
    OBVIOUS
  <2>1. n + 1 \in 1 .. Len(P) /\ (n + 1) - 1 = n /\ n \in 0 .. Len(P)
    BY <1>0
  <2>2. IsFiniteSet(Up(n)) /\ Cardinality(Up(n)) \in Nat /\ s[n] = Cardinality(Up(n))
    BY <2>1, <1>6
  <2>3. s[n + 1] = s[n] + (IF n + 1 \in base THEN 1 ELSE 0)
    BY <1>1, <1>3, <2>1 DEF Totals
  <2>4. CASE n + 1 \in base
    <3>1. Up(n + 1) = Up(n) \cup {n + 1} /\ n + 1 \notin Up(n)
      <4>1. \A j \in base : j <= n + 1 <=> j <= n \/ j = n + 1
        BY <1>4
      <4>2. n + 1 \in Int /\ ~ (n + 1 <= n)
        OBVIOUS
      <4> QED BY <2>4, <4>1, <4>2
    <3> HIDE DEF Up
    <3> QED BY <2>2, <2>3, <2>4, <3>1, FS_AddElement
  <2>5. CASE n + 1 \notin base
    <3>1. Up(n + 1) = Up(n)
      <4>1. \A j \in base : j <= n + 1 <=> j <= n \/ j = n + 1
        BY <1>4
      <4>2. \A j \in base : j <= n + 1 <=> j <= n
        BY <2>5, <4>1
      <4> QED BY <4>2
    <3> HIDE DEF Up
    <3> QED BY <2>2, <2>3, <2>5, <3>1
  <2> QED BY <2>4, <2>5
<1> HIDE DEF S
<1>7. Len(P) \in S
  BY <1>0, <1>5, <1>6, SetInduction
<1> USE DEF S
<1>8. Up(Len(P)) = base
  BY <1>4
<1> HIDE DEF Up
<1>9. Total(f) = s[Len(P)]
  BY <1>3 DEF Totals
<1> QED BY <1>0, <1>2, <1>7, <1>8, <1>9 DEF f

(* Products of primes.                                                     *)
Multiple(x, d) == \E u \in Int : x = u * d

Running(base, r) ==
  /\ r[0] = 1 /\ \A j \in 0 .. Len(P) : r[j] \in Nat \ {0}
  /\ \A j \in 1 .. Len(P) : r[j] = r[j - 1] * (IF j \in base THEN P[j] ELSE 1)
  /\ Product(base) = r[Len(P)]

(* Positive numbers have a positive product.                               *)
LEMMA TimesPositive ==
  ASSUME NEW a \in Nat \ {0}, NEW b \in Nat \ {0}
  PROVE  a * b \in Nat \ {0}
<1>1. a * b >= 1 * b
  BY TimesMonotone
<1> QED BY <1>1

(* A product has the partial products that define it.                      *)
LEMMA ProductRuns ==
  ASSUME NEW base
  PROVE  \E r : Running(base, r)
<1> DEFINE L == Len(P)
           By(j) == IF j \in base THEN P[j] ELSE 1
           V == Nat \ {0}
           Table(s) == s = [j \in 0 .. L |->
             IF j = 0 THEN 1 ELSE s[j - 1] * (IF j \in base THEN P[j] ELSE 1)]
           T == CHOOSE s : Table(s)
           F == [j \in 1 .. L |-> [x \in V |-> x * By(j)]]
<1>0. L \in Nat /\ 1 \in V
  BY PrimesListed
<1>1. \A j \in 1 .. L : By(j) \in Nat \ {0}
  BY PrimesListed
<1> HIDE DEF By
<1>2. \A x \in V, j \in 1 .. L : x * By(j) \in V
  BY <1>1, TimesPositive
<1>3. F \in [1 .. L -> [V -> V]]
  BY <1>2
<1> HIDE DEF F, L, V
<1>4. PICK s : Runs(s, L, V, 1, F)
  BY <1>0, <1>3, Recursion
<1>5. ASSUME NEW j \in 1 .. L PROVE s[j] = s[j - 1] * By(j) /\ s[j] \in V
  <2>1. s[j - 1] \in V
    BY <1>0, <1>4 DEF Runs
  <2>2. s[j] \in V
    BY <1>0, <1>4 DEF Runs
  <2> QED BY <1>4, <2>1, <2>2 DEF Runs, F
<1>6. Table(s)
  BY <1>4, <1>5, <1>0 DEF Runs, By
<1> HIDE DEF Table
<1>7. Table(T)
  BY <1>6, Zenon
<1>8. Product(base) = T[L]
  BY Zenon DEF Product, Table, L
<1> USE DEF Table
<1> HIDE DEF T
<1>9. T[0] = 1 /\ \A j \in 1 .. L : T[j] = T[j - 1] * (IF j \in base THEN P[j] ELSE 1)
  BY <1>0, <1>7
<1>10. Follows(T, s, L)
  BY <1>4, <1>5, <1>9 DEF Follows, Runs, By
<1>11. Agree(T, s, L)
  BY <1>0, <1>10, SameRecursion
<1>12. \A j \in 0 .. L : T[j] \in V
  BY <1>0, <1>4, <1>11 DEF Agree, Runs
<1> QED BY <1>8, <1>9, <1>12 DEF Running, L, V

(* Products of primes are positive.                                        *)
LEMMA ProductPositive ==
  ASSUME NEW base PROVE Product(base) \in Nat \ {0}
<1>1. PICK r : Running(base, r)
  BY ProductRuns
<1> QED BY <1>1, PrimesListed DEF Running

(* The product of no primes is one.                                        *)
LEMMA EmptyProduct == Product({}) = 1
<1>0. Len(P) \in Nat
  BY PrimesListed
<1>1. PICK r : Running({}, r)
  BY ProductRuns
<1> DEFINE S == {n \in Nat : n <= Len(P) => r[n] = 1}
<1>2. 0 \in S
  BY <1>1 DEF Running
<1>3. ASSUME NEW n \in Nat, n \in S PROVE n + 1 \in S
  <2> SUFFICES ASSUME n + 1 <= Len(P) PROVE r[n + 1] = 1
    OBVIOUS
  <2>1. n + 1 \in 1 .. Len(P) /\ (n + 1) - 1 = n
    BY <1>0
  <2>2. r[n] = 1
    BY <1>3, <2>1
  <2>3. r[n + 1] = r[n] * 1
    BY <1>1, <2>1 DEF Running
  <2> QED BY <2>2, <2>3
<1> HIDE DEF S
<1>4. Len(P) \in S
  BY <1>0, <1>2, <1>3, SetInduction
<1> USE DEF S
<1> QED BY <1>0, <1>1, <1>4 DEF Running

(* A prime can be split off a product.                                     *)
LEMMA ProductSplit ==
  ASSUME NEW base, NEW k \in 1 .. Len(P), k \in base
  PROVE  Product(base) = Product(base \ {k}) * P[k]
<1>0. Len(P) \in Nat /\ P[k] \in Nat
  BY PrimesListed
<1>1. PICK r : Running(base, r)
  BY ProductRuns
<1>2. PICK s : Running(base \ {k}, s)
  BY ProductRuns
<1> DEFINE By(j) == IF j \in base \ {k} THEN P[j] ELSE 1
<1>3. \A j \in 1 .. Len(P) : By(j) \in Nat /\ s[j - 1] \in Nat /\ s[j] = s[j - 1] * By(j)
  BY <1>2, <1>0, PrimesListed DEF Running
<1> DEFINE S == {n \in Nat : n <= Len(P) => r[n] = s[n] * (IF n < k THEN 1 ELSE P[k])}
<1>4. 0 \in S
  <2>1. r[0] = 1 /\ s[0] = 1 /\ 0 < k
    BY <1>1, <1>2 DEF Running
  <2> QED BY <2>1
<1>5. ASSUME NEW n \in Nat, n \in S PROVE n + 1 \in S
  <2> SUFFICES ASSUME n + 1 <= Len(P)
               PROVE  r[n + 1] = s[n + 1] * (IF n + 1 < k THEN 1 ELSE P[k])
    OBVIOUS
  <2>1. n + 1 \in 1 .. Len(P) /\ (n + 1) - 1 = n /\ n \in 0 .. Len(P)
    BY <1>0
  <2>2. r[n] = s[n] * (IF n < k THEN 1 ELSE P[k])
    BY <1>5, <2>1
  <2>3. PICK x \in Nat, y \in Nat, z \in Nat : x = s[n] /\ y = By(n + 1) /\ z = P[k]
    BY <1>0, <1>3, <2>1
  <2>4. s[n + 1] = x * y
    BY <1>3, <2>1, <2>3
  <2>5. r[n + 1] = r[n] * (IF n + 1 \in base THEN P[n + 1] ELSE 1)
    BY <1>1, <2>1 DEF Running
  <2>6. CASE n + 1 = k
    <3>1. y = 1 /\ r[n] = x * 1 /\ r[n + 1] = r[n] * z
      BY <2>2, <2>3, <2>5, <2>6
    <3> QED BY <2>3, <2>4, <2>6, <3>1
  <2>7. CASE n + 1 < k
    <3>1. y = (IF n + 1 \in base THEN P[n + 1] ELSE 1) /\ r[n] = x * 1 /\ n < k
      BY <2>2, <2>3, <2>7
    <3> QED BY <2>3, <2>4, <2>5, <2>7, <3>1
  <2>8. CASE n + 1 > k
    <3>1. y = (IF n + 1 \in base THEN P[n + 1] ELSE 1) /\ r[n] = x * z
      BY <2>2, <2>3, <2>8
    <3>2. (x * z) * y = (x * y) * z
      OBVIOUS
    <3>3. ~ (n + 1 < k)
      BY <2>8
    <3> QED BY <2>3, <2>4, <2>5, <3>1, <3>2, <3>3
  <2> QED BY <2>6, <2>7, <2>8
<1> HIDE DEF S
<1>6. Len(P) \in S
  BY <1>0, <1>4, <1>5, SetInduction
<1> USE DEF S
<1> QED BY <1>0, <1>1, <1>2, <1>6 DEF Running

(* Multiples leave no remainder.                                           *)
LEMMA MultipleIs ==
  ASSUME NEW x \in Int, NEW d \in Int, d > 0
  PROVE  Multiple(x, d) <=> x % d = 0
<1>1. ASSUME NEW u \in Int, x = u * d PROVE x % d = 0
  <2>1. (u * d + 0) % d = 0
    BY DivModUnique
  <2>2. u * d + 0 = u * d
    OBVIOUS
  <2> QED BY <1>1, <2>1, <2>2
<1>2. ASSUME x % d = 0 PROVE x = (x \div d) * d /\ x \div d \in Int
  <2>1. /\ x \div d \in Int /\ x % d \in Int
        /\ x = (x \div d) * d + (x % d)
    BY DivMod
  <2>2. PICK u \in Int : u = x \div d
    BY <2>1
  <2>3. x = u * d + 0
    BY <2>1, <2>2, <1>2
  <2>4. u * d + 0 = u * d
    OBVIOUS
  <2> QED BY <2>2, <2>3, <2>4
<1> QED BY <1>1, <1>2 DEF Multiple

(* A product with a multiple is a multiple.                                *)
LEMMA MultipleTimes ==
  ASSUME NEW x \in Int, NEW d \in Int, NEW y \in Int, Multiple(x, d)
  PROVE  Multiple(x * y, d) /\ Multiple(y * x, d)
<1>1. PICK u \in Int : x = u * d
  BY DEF Multiple
<1>2. (u * d) * y = (u * y) * d /\ y * (u * d) = (u * y) * d /\ u * y \in Int
  OBVIOUS
<1>3. x * y = (u * y) * d /\ y * x = (u * y) * d
  BY <1>1, <1>2
<1> QED BY <1>2, <1>3 DEF Multiple

(* The primes of the first positions divide the product of all.            *)
LEMMA PrefixDivides ==
  ASSUME NEW base, NEW r, Running(base, r), NEW n \in Nat, n <= Len(P)
  PROVE  Multiple(Product(base), r[n])
<1>0. Len(P) \in Nat /\ n \in 0 .. Len(P) /\ r[n] \in Nat
  BY PrimesListed DEF Running
<1> DEFINE S == {m \in Nat : n + m <= Len(P) => Multiple(r[n + m], r[n])}
<1>1. 0 \in S
  <2>1. n + 0 = n /\ r[n] = 1 * r[n]
    BY <1>0
  <2> QED BY <2>1 DEF Multiple
<1>2. ASSUME NEW m \in Nat, m \in S PROVE m + 1 \in S
  <2> SUFFICES ASSUME n + (m + 1) <= Len(P) PROVE Multiple(r[n + (m + 1)], r[n])
    OBVIOUS
  <2>1. /\ n + (m + 1) \in 1 .. Len(P) /\ (n + (m + 1)) - 1 = n + m
        /\ n + m \in 0 .. Len(P) /\ n + m <= Len(P)
    BY <1>0
  <2>2. Multiple(r[n + m], r[n])
    BY <1>2, <2>1
  <2>3. PICK x \in Int : x = r[n + m]
    BY <2>1 DEF Running
  <2>4. PICK y \in Int : y = IF n + (m + 1) \in base THEN P[n + (m + 1)] ELSE 1
    BY <2>1, PrimesListed
  <2>5. r[n + (m + 1)] = x * y
    BY <2>1, <2>3, <2>4 DEF Running
  <2>6. Multiple(x * y, r[n])
    BY <1>0, <2>2, <2>3, MultipleTimes
  <2> QED BY <2>5, <2>6
<1> HIDE DEF S
<1>3. Len(P) - n \in Nat
  BY <1>0
<1>4. Len(P) - n \in S
  BY <1>1, <1>2, <1>3, SetInduction
<1> USE DEF S
<1>5. n + (Len(P) - n) = Len(P)
  BY <1>0
<1>6. Multiple(r[Len(P)], r[n])
  BY <1>0, <1>3, <1>4, <1>5
<1> QED BY <1>6 DEF Running

(* The weights of a base undo the products of the other primes.            *)
Coprime(base) ==
  \A j \in base : Undoes(Weight(base, j), Partial(base, j), P[j])

(* A number that two coprime numbers divide is divided by their product.   *)
LEMMA BothDivide ==
  ASSUME NEW x \in Int, NEW a \in Int, NEW p \in Int, p > 0, NEW c \in Int, NEW i \in Int,
         Multiple(x, a), Multiple(x, p), Multiple(c, a), (i * c) % p = 1
  PROVE  Multiple(x, a * p)
<1>1. PICK u \in Int : x = u * a
  BY DEF Multiple
<1>2. PICK v \in Int : x = v * p
  BY DEF Multiple
<1>3. PICK w \in Int : c = w * a
  BY DEF Multiple
<1>4. PICK g \in Int : i * c = g * p + 1
  <2>1. i * c \in Int
    OBVIOUS
  <2>2. i * c = ((i * c) \div p) * p + ((i * c) % p) /\ (i * c) \div p \in Int
    BY <2>1, DivMod
  <2> QED BY <2>2
<1>5. x * (i * c) = ((v * i) * w) * (a * p)
  <2>1. x * (i * c) = (v * p) * (i * (w * a))
    BY <1>2, <1>3
  <2>2. (v * p) * (i * (w * a)) = ((v * i) * w) * (a * p)
    OBVIOUS
  <2> QED BY <2>1, <2>2
<1>6. x * (g * p + 1) = x + (u * g) * (a * p)
  <2>1. (u * a) * (g * p + 1) = u * a + (u * g) * (a * p)
    OBVIOUS
  <2> QED BY <1>1, <2>1
<1>7. PICK s \in Int, t \in Int, d \in Int : s = (v * i) * w /\ t = u * g /\ d = a * p
  OBVIOUS
<1>8. x + t * d = s * d
  BY <1>4, <1>5, <1>6, <1>7
<1>9. x = (s - t) * d
  BY <1>8
<1>10. s - t \in Int
  OBVIOUS
<1> QED BY <1>7, <1>9, <1>10 DEF Multiple

(* What every prime of a coprime base divides, their product divides.      *)
LEMMA AllDivide ==
  ASSUME NEW base, base \subseteq 1 .. Len(P), Coprime(base), NEW x \in Int,
         \A j \in base : Multiple(x, P[j])
  PROVE  Multiple(x, Product(base))
<1>0. Len(P) \in Nat
  BY PrimesListed
<1>1. PICK r : Running(base, r)
  BY ProductRuns
<1> DEFINE S == {n \in Nat : n <= Len(P) => Multiple(x, r[n])}
<1>2. 0 \in S
  <2>1. r[0] = 1 /\ x = x * 1
    BY <1>1 DEF Running
  <2> QED BY <2>1 DEF Multiple
<1>3. ASSUME NEW n \in Nat, n \in S PROVE n + 1 \in S
  <2> SUFFICES ASSUME n + 1 <= Len(P) PROVE Multiple(x, r[n + 1])
    OBVIOUS
  <2>1. n + 1 \in 1 .. Len(P) /\ (n + 1) - 1 = n /\ n \in 0 .. Len(P) /\ n <= Len(P)
    BY <1>0
  <2>2. Multiple(x, r[n]) /\ r[n] \in Int
    BY <1>1, <1>3, <2>1 DEF Running
  <2>3. CASE n + 1 \notin base
    <3>1. r[n + 1] = r[n] * 1
      BY <1>1, <2>1, <2>3 DEF Running
    <3> QED BY <2>2, <3>1
  <2>4. CASE n + 1 \in base
    <3> DEFINE k == n + 1
               c == Partial(base, k)
               i == Weight(base, k)
    <3>1. r[k] = r[n] * P[k]
      BY <1>1, <2>1, <2>4 DEF Running
    <3>2. PICK s : Running(base \ {k}, s)
      BY ProductRuns
    <3>3. s[n] = r[n]
      <4> DEFINE U == {m \in Nat : m <= n => s[m] = r[m]}
      <4>1. 0 \in U
        BY <1>1, <3>2 DEF Running
      <4>2. ASSUME NEW m \in Nat, m \in U PROVE m + 1 \in U
        <5> SUFFICES ASSUME m + 1 <= n PROVE s[m + 1] = r[m + 1]
          OBVIOUS
        <5>1. m + 1 \in 1 .. Len(P) /\ (m + 1) - 1 = m /\ m <= n /\ m + 1 # k
          BY <1>0, <2>1
        <5>2. s[m] = r[m]
          BY <4>2, <5>1
        <5>3. r[m + 1] = r[m] * (IF m + 1 \in base THEN P[m + 1] ELSE 1)
          BY <1>1, <5>1 DEF Running
        <5>4. s[m + 1] = s[m] * (IF m + 1 \in base \ {k} THEN P[m + 1] ELSE 1)
          BY <3>2, <5>1 DEF Running
        <5>5. m + 1 \in base \ {k} <=> m + 1 \in base
          BY <5>1
        <5> QED BY <5>2, <5>3, <5>4, <5>5
      <4> HIDE DEF U
      <4>3. n \in U
        BY <4>1, <4>2, SetInduction
      <4> QED BY <4>3 DEF U
    <3>4. Multiple(c, r[n])
      BY <2>1, <3>2, <3>3, PrefixDivides DEF Partial
    <3>5. c \in Int /\ i \in Int /\ (i * c) % P[k] = 1 /\ P[k] \in Int /\ P[k] > 0
      <4>1. c \in Int
        BY ProductPositive DEF Partial
      <4>2. P[k] \in Int /\ P[k] > 0
        BY <2>1, PrimesListed
      <4>3. Undoes(i, c, P[k])
        BY <2>4 DEF Coprime
      <4> HIDE DEF i, c
      <4> QED BY <4>1, <4>2, <4>3 DEF Undoes
    <3>6. Multiple(x, P[k])
      BY <2>4
    <3> HIDE DEF i, c, k
    <3>7. Multiple(x, r[n] * P[k])
      BY <2>2, <3>4, <3>5, <3>6, BothDivide
    <3> QED BY <3>1, <3>7 DEF k
  <2> QED BY <2>3, <2>4
<1> HIDE DEF S
<1>4. Len(P) \in S
  BY <1>0, <1>2, <1>3, SetInduction
<1> USE DEF S
<1> QED BY <1>0, <1>1, <1>4 DEF Running

(* A remainder is its own remainder.                                       *)
LEMMA ModTwice ==
  ASSUME NEW a \in Int, NEW b \in Int, b > 0
  PROVE  (a % b) % b = a % b
BY DivMod, ModSmall

(* Numbers have the same remainder when they differ by a multiple ...      *)
LEMMA SameMod ==
  ASSUME NEW a \in Int, NEW b \in Int, NEW m \in Int, m > 0
  PROVE  a % m = b % m <=> Multiple(a - b, m)
<1>1. ASSUME a % m = b % m PROVE Multiple(a - b, m)
  <2>1. PICK k \in Int, l \in Int, r \in Int : a = k * m + r /\ b = l * m + r
    <3>1. a = (a \div m) * m + (a % m) /\ a \div m \in Int /\ a % m \in Int
      BY DivMod
    <3>2. b = (b \div m) * m + (b % m) /\ b \div m \in Int
      BY DivMod
    <3> QED BY <1>1, <3>1, <3>2
  <2>2. a - b = (k - l) * m /\ k - l \in Int
    BY <2>1
  <2> QED BY <2>2 DEF Multiple
<1>2. ASSUME Multiple(a - b, m) PROVE a % m = b % m
  <2>1. PICK u \in Int : a - b = u * m
    BY <1>2 DEF Multiple
  <2>2. (b + u * m) % m = b % m
    BY ModShift
  <2>3. u * m \in Int
    OBVIOUS
  <2>4. a = b + u * m
    BY <2>1, <2>3
  <2> QED BY <2>2, <2>4
<1> QED BY <1>1, <1>2

(* ... which may be given.                                                 *)
LEMMA ModDiffers ==
  ASSUME NEW a \in Int, NEW b \in Int, NEW m \in Int, m > 0, NEW u \in Int, a = u * m + b
  PROVE  a % m = b % m
<1>1. (b + u * m) % m = b % m
  BY ModShift
<1>2. b + u * m = u * m + b
  OBVIOUS
<1> QED BY <1>1, <1>2

SameEntries(f, g, m) == \A j \in 1 .. Len(P) : Entry(f, j) % m = Entry(g, j) % m

(* A sum modulo m is that of the remainders.                               *)
LEMMA TotalMod ==
  ASSUME NEW f, NEW g, NEW m \in Int, m > 0, Numbers(f), Numbers(g), SameEntries(f, g, m)
  PROVE  Total(f) \in Int /\ Total(g) \in Int /\ Total(f) % m = Total(g) % m
<1> DEFINE u == [j \in 1 .. Len(P) |-> (Entry(f, j) - Entry(g, j)) \div m]
<1>1. ASSUME NEW j \in 1 .. Len(P)
      PROVE  Entry(u, j) \in Int /\ Entry(f, j) = 1 * Entry(g, j) + m * Entry(u, j)
  <2>1. PICK a \in Int, b \in Int : a = Entry(f, j) /\ b = Entry(g, j)
    BY DEF Numbers
  <2>2. a % m = b % m
    BY <2>1 DEF SameEntries
  <2>3. Multiple(a - b, m)
    BY <2>2, SameMod
  <2>4. a - b \in Int
    OBVIOUS
  <2>5. (a - b) % m = 0
    BY <2>3, <2>4, MultipleIs
  <2>6. PICK w \in Int : w = (a - b) \div m /\ a - b = w * m + 0
    BY <2>4, <2>5, DivMod
  <2>7. Entry(u, j) = w
    BY <2>1, <2>6 DEF Entry
  <2>8. a = 1 * b + m * w
    <3>1. w * m \in Int /\ m * w = w * m
      OBVIOUS
    <3> QED BY <2>6, <3>1
  <2> QED BY <2>1, <2>7, <2>8
<1> HIDE DEF u
<1>2. Numbers(u) /\ Combines(f, 1, g, m, u)
  BY <1>1 DEF Numbers, Combines
<1>3. 1 \in Int
  OBVIOUS
<1>4. /\ Total(g) \in Int /\ Total(u) \in Int
      /\ Total(f) = 1 * Total(g) + m * Total(u)
  BY <1>2, <1>3, TotalLinear
<1>5. PICK x \in Int, y \in Int : x = Total(g) /\ y = Total(u)
  BY <1>4
<1>6. (x + y * m) % m = x % m
  BY ModShift
<1>7. 1 * x + m * y = x + y * m /\ x + y * m \in Int
  OBVIOUS
<1> QED BY <1>4, <1>5, <1>6, <1>7

OfBase(base) == base \subseteq 1 .. Len(P) /\ Coprime(base)

(* The product without a prime, which every other prime of the base        *)
(* divides.                                                                *)
LEMMA PartialFacts ==
  ASSUME NEW base, OfBase(base), NEW j \in base
  PROVE  /\ Partial(base, j) \in Nat \ {0} /\ Product(base) \in Nat \ {0}
         /\ Product(base) = Partial(base, j) * P[j]
         /\ \A k \in base : k # j => Multiple(Partial(base, j), P[k])
<1>1. j \in 1 .. Len(P) /\ base \subseteq 1 .. Len(P)
  BY DEF OfBase
<1>2. Partial(base, j) \in Nat \ {0} /\ Product(base) \in Nat \ {0}
  BY ProductPositive DEF Partial
<1>3. Product(base) = Partial(base, j) * P[j]
  BY <1>1, ProductSplit DEF Partial
<1>4. ASSUME NEW k \in base, k # j PROVE Multiple(Partial(base, j), P[k])
  <2>1. k \in 1 .. Len(P) /\ k \in base \ {j}
    BY <1>1, <1>4
  <2>2. Product(base \ {j}) = Product((base \ {j}) \ {k}) * P[k]
    BY <2>1, ProductSplit
  <2>3. Product((base \ {j}) \ {k}) \in Int
    BY ProductPositive
  <2> QED BY <2>2, <2>3 DEF Partial, Multiple
<1> QED BY <1>2, <1>3, <1>4

ResidueOf(base, y) == [j \in base |-> y % P[j]]
Restored(base, residues) ==
  Total([j \in base |-> (residues[j] * Weight(base, j)) * Partial(base, j)])

(* The primes of a base, and the inverses that weigh them.                 *)
LEMMA BasePrime ==
  ASSUME NEW base, OfBase(base), NEW j \in base
  PROVE  /\ P[j] \in Nat /\ P[j] > 1 /\ Fits(P[j])
         /\ Weight(base, j) \in 0 .. P[j] - 1
         /\ (Weight(base, j) * Partial(base, j)) % P[j] = 1
<1>1. j \in 1 .. Len(P)
  BY DEF OfBase
<1>2. Undoes(Weight(base, j), Partial(base, j), P[j])
  BY DEF OfBase, Coprime
<1> QED BY <1>1, <1>2, PrimesListed DEF Undoes

(* The terms of the residues of an integer.                                *)
LEMMA TermsAre ==
  ASSUME NEW base, OfBase(base), NEW y \in Int
  PROVE  /\ DOMAIN Terms(base, ResidueOf(base, y)) = base
         /\ Terms(base, ResidueOf(base, y)) \in [base -> Nat]
         /\ \A j \in base :
              /\ Terms(base, ResidueOf(base, y))[j] = ((y % P[j]) * Weight(base, j)) % P[j]
              /\ Terms(base, ResidueOf(base, y))[j] \in 0 .. P[j] - 1
<1> DEFINE t == Terms(base, ResidueOf(base, y))
<1>1. ASSUME NEW j \in base
      PROVE  t[j] = ((y % P[j]) * Weight(base, j)) % P[j] /\ t[j] \in 0 .. P[j] - 1
  <2>1. /\ P[j] \in Nat /\ P[j] > 1 /\ Fits(P[j]) /\ 16 * P[j] < B /\ B \in Int
        /\ Weight(base, j) \in 0 .. P[j] - 1
    BY BasePrime, BaseFacts, FitsFacts
  <2>2. y % P[j] \in Int /\ 0 <= y % P[j] /\ y % P[j] < P[j]
    BY <2>1, DivMod
  <2>3. y % P[j] \in Words
    BY <2>1, <2>2 DEF Words
  <2>4. PICK x \in Words, p \in Int, v \in Int : x = y % P[j] /\ p = P[j] /\ v = Weight(base, j)
    BY <2>1, <2>3
  <2>5. t[j] = Multiply(Multiplier(v, p), x, p)
    BY <2>4 DEF Terms, ResidueOf
  <2>6. Fits(p) /\ v \in 0 .. p - 1
    BY <2>1, <2>4
  <2>7. t[j] = (x * v) % p
    BY <2>5, <2>6, ProductIsExact
  <2>8. x * v \in Int
    BY <2>1, <2>2, <2>4
  <2>9. (x * v) % p \in Int /\ 0 <= (x * v) % p /\ (x * v) % p < p
    BY <2>1, <2>4, <2>8, DivMod
  <2> QED BY <2>4, <2>7, <2>9
<1>2. t = [j \in base |-> t[j]]
  BY DEF Terms
<1> HIDE DEF t
<1>3. DOMAIN t = base
  BY <1>2
<1>4. \A j \in base : t[j] \in Nat
  <2>1. ASSUME NEW j \in base PROVE t[j] \in Nat
    <3>1. P[j] \in Nat
      BY BasePrime
    <3> QED BY <1>1, <3>1
  <2> QED BY <2>1
<1>5. t \in [base -> Nat]
  BY <1>2, <1>4
<1> QED BY <1>1, <1>3, <1>5 DEF t

(* Chinese remainders: the weighted residues stand for the number.         *)
LEMMA RestoredIs ==
  ASSUME NEW base, OfBase(base), NEW y \in Int
  PROVE  /\ Restored(base, ResidueOf(base, y)) \in Int
         /\ Restored(base, ResidueOf(base, y)) % Product(base) = y % Product(base)
<1> DEFINE f == [j \in base |-> (ResidueOf(base, y)[j] * Weight(base, j)) * Partial(base, j)]
           H == Product(base)
<1>1. base \subseteq 1 .. Len(P) /\ Coprime(base)
  BY DEF OfBase
<1>2. H \in Nat \ {0}
  BY ProductPositive
<1>3. ASSUME NEW j \in base
      PROVE  /\ f[j] \in Int /\ f[j] % P[j] = y % P[j]
             /\ \A k \in base : k # j => f[j] % P[k] = 0
  <2>1. PICK w \in Int, c \in Int, p \in Int :
          w = Weight(base, j) /\ c = Partial(base, j) /\ p = P[j] /\ p > 0 /\ (w * c) % p = 1
    BY BasePrime, PartialFacts
  <2>2. PICK x \in Int : x = y % p
    BY <2>1, DivMod
  <2>3. f[j] = (x * w) * c
    BY <2>1, <2>2 DEF ResidueOf
  <2>4. (x * w) * c = (w * c) * x /\ w * c \in Int /\ (x * w) * c \in Int /\ (x * w) \in Int
    OBVIOUS
  <2>5. ((w * c) * x) % p = (1 * x) % p
    <3>1. PICK a \in Int : a = w * c
      BY <2>4
    <3>2. ((a % p) * x) % p = (a * x) % p
      BY <2>1, ModTimes
    <3> QED BY <2>1, <3>1, <3>2
  <2>6. x % p = y % p
    BY <2>1, <2>2, ModTwice
  <2>7. f[j] % P[j] = y % P[j]
    <3>1. 1 * x = x
      OBVIOUS
    <3> QED BY <2>1, <2>3, <2>4, <2>5, <2>6, <3>1
  <2>8. ASSUME NEW k \in base, k # j PROVE f[j] % P[k] = 0
    <3>1. Multiple(c, P[k]) /\ P[k] \in Int /\ P[k] > 0
      BY <2>1, <2>8, PartialFacts, BasePrime
    <3>2. Multiple((x * w) * c, P[k])
      BY <2>4, <3>1, MultipleTimes
    <3> QED BY <2>3, <2>4, <3>1, <3>2, MultipleIs
  <2> QED BY <2>3, <2>4, <2>7, <2>8
<1>4. \A j : Entry(f, j) = IF j \in base THEN f[j] ELSE 0
  BY DEF Entry
<1> HIDE DEF f
<1>5. Numbers(f)
  BY <1>3, <1>4 DEF Numbers
<1>6. ASSUME NEW k \in base PROVE Total(f) \in Int /\ Multiple(Total(f) - y, P[k])
  <2> DEFINE g == [j \in base |-> IF j = k THEN f[k] ELSE 0]
  <2>1. k \in 1 .. Len(P) /\ P[k] \in Int /\ P[k] > 0 /\ f[k] \in Int
    BY <1>1, <1>3, BasePrime
  <2>2. \A j : Entry(g, j) = IF j = k THEN f[k] ELSE 0
    BY DEF Entry
  <2> HIDE DEF g
  <2>3. Numbers(g) /\ Total(g) = f[k]
    BY <2>1, <2>2, TotalSingle DEF Numbers
  <2>4. 0 % P[k] = 0
    BY <2>1, ModSmall
  <2>5. SameEntries(f, g, P[k])
    <3>1. ASSUME NEW j \in 1 .. Len(P) PROVE Entry(f, j) % P[k] = Entry(g, j) % P[k]
      <4>1. CASE j = k
        BY <1>4, <2>2, <4>1
      <4>2. CASE j # k /\ j \in base
        BY <1>3, <1>4, <2>2, <2>4, <4>2
      <4>3. CASE j # k /\ j \notin base
        BY <1>4, <2>2, <4>3
      <4> QED BY <4>1, <4>2, <4>3
    <3> QED BY <3>1 DEF SameEntries
  <2>6. Total(f) \in Int /\ Total(f) % P[k] = Total(g) % P[k]
    BY <1>5, <2>1, <2>3, <2>5, TotalMod
  <2>7. Total(f) % P[k] = y % P[k]
    BY <1>3, <2>3, <2>6
  <2> QED BY <2>1, <2>6, <2>7, SameMod
<1>7. Total(f) \in Int
  <2>1. SameEntries(f, f, 1)
    BY DEF SameEntries
  <2> QED BY <1>5, <2>1, TotalMod
<1>8. PICK d \in Int : d = Total(f) - y
  BY <1>7
<1>9. \A k \in base : Multiple(d, P[k])
  BY <1>6, <1>8
<1>10. Multiple(d, H)
  BY <1>1, <1>9, AllDivide
<1>11. Total(f) % H = y % H
  BY <1>2, <1>7, <1>8, <1>10, SameMod
<1> QED BY <1>7, <1>11 DEF Restored, f

(* The terms stand for the integer, up to a multiple of the product.       *)
LEMMA SumIsCongruent ==
  ASSUME NEW base, OfBase(base), NEW y \in Int
  PROVE  /\ Sum(base, Terms(base, ResidueOf(base, y))) \in Int
         /\ Sum(base, Terms(base, ResidueOf(base, y))) % Product(base) = y % Product(base)
<1> DEFINE t == Terms(base, ResidueOf(base, y))
           f == [j \in base |-> (ResidueOf(base, y)[j] * Weight(base, j)) * Partial(base, j)]
           g == [j \in base |-> t[j] * Partial(base, j)]
           H == Product(base)
<1>1. H \in Nat \ {0}
  BY ProductPositive
<1>2. ASSUME NEW j \in base
      PROVE  f[j] \in Int /\ g[j] \in Int /\ g[j] % H = f[j] % H
  <2>1. PICK w \in Int, c \in Int, p \in Int :
          w = Weight(base, j) /\ c = Partial(base, j) /\ p = P[j] /\ p > 0 /\ H = c * p
    BY BasePrime, PartialFacts
  <2>2. PICK x \in Int : x = y % p
    BY <2>1, DivMod
  <2>3. f[j] = (x * w) * c
    BY <2>1, <2>2 DEF ResidueOf
  <2>4. x * w \in Int
    OBVIOUS
  <2>5. PICK u \in Int, r \in Int : r = (x * w) % p /\ x * w = u * p + r
    <3>1. PICK a \in Int : a = x * w
      BY <2>4
    <3>2. a = (a \div p) * p + (a % p) /\ a \div p \in Int /\ a % p \in Int
      BY <2>1, DivMod
    <3> QED BY <3>1, <3>2
  <2>6. g[j] = r * c
    BY <2>1, <2>2, <2>5, TermsAre
  <2>7. r * c - (u * p + r) * c = (0 - u) * (c * p) /\ 0 - u \in Int
    OBVIOUS
  <2>8. g[j] - f[j] = (0 - u) * H
    BY <2>1, <2>3, <2>5, <2>6, <2>7
  <2>9. f[j] \in Int /\ g[j] \in Int
    <3>1. (x * w) * c \in Int /\ r * c \in Int
      OBVIOUS
    <3> QED BY <2>3, <2>6, <3>1
  <2>10. Multiple(g[j] - f[j], H)
    BY <2>7, <2>8 DEF Multiple
  <2> HIDE DEF f, g, H
  <2>11. PICK a \in Int, b \in Int : a = g[j] /\ b = f[j]
    BY <2>9
  <2>12. H \in Int /\ H > 0
    BY <1>1
  <2>13. a % H = b % H
    BY <2>10, <2>11, <2>12, SameMod
  <2> QED BY <2>9, <2>11, <2>13
<1>3. \A j : /\ Entry(f, j) = IF j \in base THEN f[j] ELSE 0
             /\ Entry(g, j) = IF j \in base THEN g[j] ELSE 0
  BY DEF Entry
<1>4. Total(f) % H = y % H
  BY RestoredIs DEF Restored
<1>5. Sum(base, t) = Total(g)
  BY DEF Sum
<1> HIDE DEF f, g, H
<1>6. Numbers(f) /\ Numbers(g) /\ SameEntries(g, f, H)
  BY <1>2, <1>3 DEF Numbers, SameEntries
<1>7. Total(g) \in Int /\ Total(g) % H = Total(f) % H
  BY <1>1, <1>6, TotalMod
<1> QED BY <1>4, <1>5, <1>7 DEF H

(* The quotient of Barrett's reduction is one too small at most.           *)
LEMMA EstimateIs ==
  ASSUME NEW p, Fits(p), NEW x \in Wide
  PROVE  /\ (x * Reciprocal(p)) \div (B * B) \in Nat
         /\ x - ((x * Reciprocal(p)) \div (B * B)) * p \in 0 .. 2 * p - 1
<1> DEFINE W == B * B
<1> DEFINE R == Reciprocal(p)
<1> DEFINE s == (W - 1) % p
<1> DEFINE e == (x * R) \div W
<1> DEFINE u == (x * R) % W
<1> DEFINE z == x - e * p
<1>1. p \in Int /\ p > 0 /\ 16 * p < B /\ B \in Int /\ B > 0 /\ W \in Int /\ W > 0
  BY FitsFacts, BaseFacts
<1>2. x \in Int /\ 0 <= x /\ x < W
  BY <1>1 DEF Wide
<1>4. R = (W - 1) \div p
  BY DEF Reciprocal
<1> HIDE DEF W
<1>5. R \in Int /\ s \in Int /\ W - 1 = R * p + s /\ 0 <= s /\ s < p
  BY <1>1, <1>4, DivMod
<1> HIDE DEF R, s
<1>6. x * R \in Int
  BY <1>2, <1>5
<1>7. e \in Int /\ u \in Int /\ x * R = e * W + u /\ 0 <= u /\ u < W
  BY <1>1, <1>6, DivMod
<1> HIDE DEF e, u
<1>8. e * p \in Int /\ z \in Int
  BY <1>1, <1>2, <1>7
<1>9. z * W = x * (s + 1) + u * p
  <2>1. x * (R * p + s + 1) = x * W
    BY <1>5, <1>1, <1>2
  <2>2. x * (R * p + s + 1) = (x * R) * p + x * (s + 1)
    BY <1>1, <1>2, <1>5
  <2>3. x * W = (e * W + u) * p + x * (s + 1)
    BY <2>1, <2>2, <1>7
  <2>4. (e * W + u) * p = (e * p) * W + u * p
    BY <1>1, <1>7
  <2>5. z * W = x * W - (e * p) * W
    BY <1>1, <1>2, <1>8
  <2>6. x * W \in Int /\ (e * p) * W \in Int /\ u * p \in Int /\ x * (s + 1) \in Int
    BY <1>1, <1>2, <1>5, <1>7, <1>8
  <2>7. QED
    BY <2>3, <2>4, <2>5, <2>6
<1> HIDE DEF z
<1>10. x * (s + 1) >= 0 /\ u * p >= 0
  BY <1>1, <1>2, <1>5, <1>7, TimesSign
<1>11. x * (s + 1) < W * p /\ u * p < W * p
  <2>1. x * (s + 1) < W * (s + 1)
    BY <1>1, <1>2, <1>5, TimesStrict
  <2>2. (s + 1) * W <= p * W
    BY <1>1, <1>5, TimesMonotone
  <2>3. u * p < W * p
    BY <1>1, <1>7, TimesStrict
  <2>4. QED
    BY <2>1, <2>2, <2>3, <1>1, <1>2, <1>5
<1>12. z * W < (2 * p) * W /\ (0 - 1) * W < z * W
  BY <1>1, <1>2, <1>5, <1>7, <1>8, <1>9, <1>10, <1>11
<1>13. z < 2 * p /\ 0 - 1 < z
  BY <1>1, <1>8, <1>12, TimesCancel
<1>14. z \in 0 .. 2 * p - 1
  BY <1>1, <1>8, <1>13
<1>15. e >= 0
  <2>1. R >= 0
    <3>1. (0 - 1) * p < R * p
      BY <1>1, <1>5
    <3> QED BY <1>1, <1>5, <3>1, TimesCancel
  <2>2. x * R >= 0
    BY <1>2, <1>5, <2>1, TimesSign
  <2>3. (0 - 1) * W < e * W
    BY <1>1, <1>7, <2>2
  <2>4. 0 - 1 < e
    BY <1>1, <1>7, <2>3, TimesCancel
  <2> QED BY <1>7, <2>4
<1> QED BY <1>7, <1>14, <1>15 DEF e, z, R, W

(* The fixed-point fraction of a word over a prime is rounded down.        *)
LEMMA FractionIs ==
  ASSUME NEW p, Fits(p), NEW y \in 0 .. p - 1
  PROVE  /\ Fraction(y, p) = (y * B) \div p /\ Fraction(y, p) \in Nat
         /\ Fraction(y, p) * p <= y * B /\ y * B < (Fraction(y, p) + 1) * p
<1> DEFINE R == Reciprocal(p)
           x == y * B
           e == (x * R) \div (B * B)
           low == (y * (R \div B) + ((y * (R % B)) \div B)) % B
<1>1. p \in Int /\ p > 1 /\ 16 * p < B /\ B \in Int /\ B > 0 /\ y \in Int
  BY FitsFacts, BaseFacts
<1>2. R \in Int
  <2>1. R = (B * B - 1) \div p
    BY DEF Reciprocal
  <2>2. PICK W \in Int : W = B * B - 1
    BY <1>1
  <2> HIDE DEF R
  <2> QED BY <1>1, <2>1, <2>2, DivMod
<1> HIDE DEF R
<1>3. x \in Wide /\ x \in Int /\ 0 <= x /\ x < p * B
  <2>1. x < p * B /\ p * B <= B * B /\ 0 <= x
    BY <1>1, TimesStrict, TimesMonotone, TimesSign
  <2>2. x \in Int /\ p * B \in Int /\ B * B \in Int
    BY <1>1
  <2> QED BY <2>1, <2>2 DEF Wide
<1>4. e \in Nat /\ x - e * p \in 0 .. 2 * p - 1
  BY <1>3, EstimateIs DEF R
<1>5. y * (R \div B) + ((y * (R % B)) \div B) = e
  <2>1. PICK g \in Int, l \in Int : g = R \div B /\ l = R % B /\ R = g * B + l
    BY <1>1, <1>2, DivMod
  <2>2. y * l \in Int
    BY <1>1
  <2>3. PICK k \in Int, r \in Int : k = (y * l) \div B /\ y * l = k * B + r /\ 0 <= r /\ r < B
    <3>1. PICK a \in Int : a = y * l
      BY <2>2
    <3>2. /\ a \div B \in Int /\ a % B \in Int /\ a = (a \div B) * B + (a % B)
          /\ 0 <= a % B /\ a % B < B
      BY <1>1, DivMod
    <3> QED BY <3>1, <3>2
  <2>4. PICK d \in Int : d = y * g + k
    BY <1>1
  <2>5. x * R = d * (B * B) + r * B
    <3>1. (y * B) * (g * B + l) = (y * g) * (B * B) + (y * l) * B
      BY <1>1
    <3>2. (y * g) * (B * B) + (k * B + r) * B = (y * g + k) * (B * B) + r * B
      BY <1>1
    <3> QED BY <2>1, <2>3, <2>4, <3>1, <3>2
  <2>6. 0 <= r * B /\ r * B < B * B /\ r * B \in Int /\ B * B \in Int
    BY <1>1, <2>3, TimesSign, TimesStrict
  <2>7. PICK W \in Int, h \in Int : W = B * B /\ h = r * B
    BY <2>6
  <2>8. (d * W + h) \div W = d
    <3>1. W > 0
      BY <2>6, <2>7
    <3> QED BY <2>6, <2>7, <3>1, DivModUnique
  <2> QED BY <2>1, <2>3, <2>4, <2>5, <2>7, <2>8
<1> DEFINE f == x \div p
           g == x % p
<1>6. f \in Int /\ g \in Int /\ x = f * p + g /\ 0 <= g /\ g < p
  BY <1>1, <1>3, DivMod
<1> HIDE DEF x, e, f, g
<1>7. f < B /\ 0 <= f
  <2>1. f * p < B * p /\ (0 - 1) * p < f * p
    BY <1>1, <1>3, <1>6
  <2>2. f < B /\ 0 - 1 < f
    BY <1>1, <1>6, <2>1, TimesCancel
  <2> QED BY <1>6, <2>2
<1>8. e = f \/ e = f - 1
  <2>1. x - e * p = (f - e) * p + g /\ f * p \in Int /\ e * p \in Int
    BY <1>1, <1>4, <1>6
  <2>2. (f - e) * p < 2 * p /\ (0 - 1) * p < (f - e) * p
    BY <1>1, <1>4, <1>6, <2>1
  <2>3. f - e < 2 /\ 0 - 1 < f - e
    BY <1>1, <1>4, <1>6, <2>2, TimesCancel
  <2> QED BY <1>4, <1>6, <2>3
<1>9. low = e
  <2>1. e \in Nat
    BY <1>4
  <2>2. e \in Int /\ 0 <= e /\ e < B
    BY <1>1, <1>6, <1>7, <1>8, <2>1
  <2> QED BY <1>1, <1>5, <2>2, ModSmall
<1> HIDE DEF low
<1>10. (- low * p) % B = (f - low) * p + g
  <2>1. low \in Int /\ (low = f \/ low = f - 1)
    BY <1>8, <1>9, <1>4
  <2>2. (f - low) * p + g = x - low * p
    BY <1>1, <1>6, <2>1
  <2>3. x - low * p = - low * p + y * B
    <3>1. low * p \in Int /\ y * B \in Int /\ - low * p = 0 - low * p
      BY <1>1, <2>1
    <3> QED BY <3>1 DEF x
  <2>4. - low * p \in Int
    BY <1>1, <2>1
  <2>5. PICK m \in Int : m = - low * p
    BY <2>4
  <2>6. (m + y * B) % B = m % B
    BY <1>1, <2>5, ModShift
  <2>7. (f - low) * p \in {0, p}
    <3>1. CASE low = f
      <4>1. f - low = 0 /\ 0 * p = 0
        BY <1>1, <2>1, <3>1
      <4> QED BY <4>1
    <3>2. CASE low = f - 1
      <4>1. f - low = 1 /\ 1 * p = p
        BY <1>1, <1>6, <2>1, <3>2
      <4> QED BY <4>1
    <3> QED BY <2>1, <3>1, <3>2
  <2>8. m + y * B \in Int /\ 0 <= m + y * B /\ m + y * B < B
    BY <1>1, <1>6, <2>2, <2>3, <2>5, <2>7
  <2>9. (m + y * B) % B = m + y * B
    BY <1>1, <2>8, ModSmall
  <2> QED BY <2>2, <2>3, <2>5, <2>6, <2>9
<1>11. (IF (- low * p) % B >= p THEN (low + 1) % B ELSE low) = f
  <2>1. CASE low = f
    <3>1. (f - low) * p + g = g
      <4>1. f - low = 0 /\ 0 * p = 0
        BY <1>1, <1>6, <2>1
      <4> QED BY <1>6, <4>1
    <3> QED BY <1>1, <1>6, <1>10, <2>1, <3>1
  <2>2. CASE low = f - 1
    <3>1. (f - low) * p + g = p + g
      <4>1. f - low = 1 /\ 1 * p = p
        BY <1>1, <1>6, <2>2
      <4> QED BY <1>6, <4>1
    <3>2. low + 1 = f
      BY <1>6, <2>2
    <3>3. f % B = f
      BY <1>1, <1>6, <1>7, ModSmall
    <3> QED BY <1>1, <1>6, <1>10, <3>1, <3>2, <3>3
  <2> QED BY <1>8, <1>9, <2>1, <2>2
<1>12. Fraction(y, p) = f
  BY <1>11 DEF Fraction, low, R
<1>13. f * p <= x /\ x < (f + 1) * p
  BY <1>1, <1>6
<1> QED BY <1>6, <1>7, <1>12, <1>13 DEF f, x

(* Quotient and remainder of a double word.                                *)
LEMMA DivideIs ==
  ASSUME NEW p, Fits(p), NEW x \in Wide, x \div p < B
  PROVE  /\ Divide(x, p).quotient = x \div p /\ Divide(x, p).remainder = x % p
<1> DEFINE e == (x * Reciprocal(p)) \div (B * B)
           k == x \div p
           g == x % p
<1>1. p \in Int /\ p > 1 /\ 16 * p < B /\ B \in Int /\ B > 0 /\ B * B \in Int
  BY FitsFacts, BaseFacts
<1>2. x \in Int /\ 0 <= x
  BY <1>1 DEF Wide
<1>3. e \in Nat /\ x - e * p \in 0 .. 2 * p - 1
  BY EstimateIs
<1>4. k \in Int /\ g \in Int /\ x = k * p + g /\ 0 <= g /\ g < p /\ k < B
  BY <1>1, <1>2, DivMod
<1>5. Quotient(x, p) = e % B
  BY QuotientOfWords
<1>6. Rest(x, p) \in 0 .. 2 * p - 1 /\ Rest(x, p) % p = g
  BY RestInRange
<1> HIDE DEF e, k, g
<1>7. e = k \/ e = k - 1
  <2>1. x - e * p = (k - e) * p + g /\ k * p \in Int /\ e * p \in Int
    BY <1>1, <1>3, <1>4
  <2>2. (k - e) * p < 2 * p /\ (0 - 1) * p < (k - e) * p
    BY <1>1, <1>3, <1>4, <2>1
  <2>3. k - e < 2 /\ 0 - 1 < k - e
    BY <1>1, <1>3, <1>4, <2>2, TimesCancel
  <2> QED BY <1>3, <1>4, <2>3
<1>8. Quotient(x, p) = e
  <2>1. e \in Nat
    BY <1>3
  <2>2. k \in Int /\ k < B
    BY <1>4
  <2>3. e \in Int /\ 0 <= e /\ e < B
    BY <1>1, <1>7, <2>1, <2>2
  <2> QED BY <1>1, <1>5, <2>3, ModSmall
<1>9. Rest(x, p) = x - e * p
  <2>1. x - e * p \in Int /\ 0 <= x - e * p /\ x - e * p < B
    BY <1>1, <1>3
  <2>2. (x - e * p) % B = x - e * p
    BY <1>1, <2>1, ModSmall
  <2> QED BY <1>8, <2>2 DEF Rest
<1>10. CASE e = k
  <2>1. x - e * p = g
    BY <1>1, <1>4, <1>10
  <2>2. ~ (Rest(x, p) >= p)
    BY <1>1, <1>4, <1>9, <2>1
  <2> QED BY <1>8, <1>9, <1>10, <2>1, <2>2 DEF Divide, k, g
<1>11. CASE e = k - 1
  <2>1. x - e * p = g + p
    <3>1. (k - 1) * p = k * p - p /\ k * p \in Int
      BY <1>1, <1>4
    <3> QED BY <1>1, <1>4, <1>11, <3>1
  <2>2. Rest(x, p) >= p /\ Rest(x, p) - p = g
    BY <1>1, <1>4, <1>9, <2>1
  <2>3. e + 1 = k /\ k \in Int /\ 0 <= k /\ k < B
    BY <1>3, <1>4, <1>11
  <2>4. k % B = k
    BY <1>1, <2>3, ModSmall
  <2> QED BY <1>8, <2>2, <2>3, <2>4 DEF Divide, k, g
<1> QED BY <1>7, <1>10, <1>11

(* A common positive factor, where the two sides may be equal.             *)
LEMMA TimesCancelWeak ==
  ASSUME NEW a \in Int, NEW b \in Int, NEW c \in Int, c > 0, a * c <= b * c
  PROVE  a <= b
<1>1. ASSUME b < a PROVE FALSE
  <2>1. b * c < a * c
    BY <1>1, TimesStrict
  <2>2. b * c \in Int /\ a * c \in Int
    OBVIOUS
  <2> QED BY <2>1, <2>2
<1> QED BY <1>1

(* The bounds that the fixed-point fraction F of A / H certifies, when the *)
(* bias is half a unit (c = 1) or none (c = 0).                            *)
Encloses(F, n, A, H) == F * H <= A * B /\ A * B < (F + n) * H

(* What the lower bound of the fraction certifies ...                      *)
LEMMA LowerBound ==
  ASSUME NEW A \in Int, NEW H \in Int, H > 0, NEW F \in Int, NEW n \in Int, NEW h \in Int,
         h > 0, B = 2 * h, NEW c \in {0, 1}, NEW low \in Int,
         Encloses(F, n, A, H), low * B <= F + c * h
  PROVE  (2 * low - c) * H <= 2 * A
<1>1. c * h \in Int /\ low * (2 * h) - c * h = (2 * low - c) * h
  OBVIOUS
<1>2. (2 * low - c) * h <= F
  BY <1>1
<1>3. PICK x \in Int : x = 2 * low - c
  <2>1. c \in Int /\ 2 * low \in Int
    OBVIOUS
  <2>2. 2 * low - c \in Int
    BY <2>1
  <2> QED BY <2>2
<1>4. (x * h) * H <= F * H
  <2>1. x * h \in Int /\ x * h <= F
    BY <1>2, <1>3
  <2>2. PICK y \in Int : y = x * h /\ y <= F
    BY <2>1
  <2>3. y * H <= F * H
    BY <2>2, TimesMonotone
  <2> QED BY <2>2, <2>3
<1>5. F * H <= A * (2 * h)
  BY DEF Encloses
<1>6. (x * h) * H = (x * H) * h /\ A * (2 * h) = (2 * A) * h
  OBVIOUS
<1>7. x * H \in Int /\ 2 * A \in Int
  OBVIOUS
<1>8. (x * H) * h <= (2 * A) * h
  <2>1. (x * H) * h \in Int /\ (2 * A) * h \in Int /\ F * H \in Int
    BY <1>7
  <2> QED BY <1>4, <1>5, <1>6, <2>1
<1>9. PICK u \in Int, v \in Int : u = x * H /\ v = 2 * A
  BY <1>7
<1>10. u <= v
  BY <1>8, <1>9, TimesCancelWeak
<1> QED BY <1>3, <1>9, <1>10

(* ... and what the upper bound does.                                      *)
LEMMA UpperBound ==
  ASSUME NEW A \in Int, NEW H \in Int, H > 0, NEW F \in Int, NEW n \in Int, NEW h \in Int,
         h > 0, B = 2 * h, NEW c \in {0, 1}, NEW top \in Int,
         Encloses(F, n, A, H), F + n + c * h <= top * B
  PROVE  2 * A < (2 * top - c) * H
<1>1. c * h \in Int /\ top * (2 * h) - c * h = (2 * top - c) * h /\ (2 * top - c) * h \in Int
  OBVIOUS
<1>2. F + n <= (2 * top - c) * h
  BY <1>1
<1>3. PICK x \in Int : x = 2 * top - c
  <2>1. c \in Int /\ 2 * top \in Int
    OBVIOUS
  <2>2. 2 * top - c \in Int
    BY <2>1
  <2> QED BY <2>2
<1>4. (F + n) * H <= (x * h) * H
  <2>1. x * h \in Int /\ F + n <= x * h
    BY <1>2, <1>3
  <2>2. PICK y \in Int, z \in Int : y = x * h /\ z = F + n /\ z <= y
    BY <2>1
  <2>3. z * H <= y * H
    BY <2>2, TimesMonotone
  <2> QED BY <2>2, <2>3
<1>5. A * (2 * h) < (F + n) * H
  BY DEF Encloses
<1>6. (x * h) * H = (x * H) * h /\ A * (2 * h) = (2 * A) * h
  OBVIOUS
<1>7. x * H \in Int /\ 2 * A \in Int
  OBVIOUS
<1>8. (2 * A) * h < (x * H) * h
  <2>1. (x * H) * h \in Int /\ (2 * A) * h \in Int /\ (F + n) * H \in Int
    BY <1>7
  <2> QED BY <1>4, <1>5, <1>6, <2>1
<1>9. PICK u \in Int, v \in Int : u = x * H /\ v = 2 * A
  BY <1>7
<1>10. v < u
  BY <1>8, <1>9, TimesCancel
<1> QED BY <1>3, <1>9, <1>10

Certified(al, c, A, H) == (2 * al - c) * H <= 2 * A /\ 2 * A < (2 * al + 2 - c) * H

HalfBase == B \div 2

(* Words are even and hold more than the five bits that primes may lack.   *)
LEMMA HalfBaseIs == HalfBase \in Int /\ HalfBase > 0 /\ B = 2 * HalfBase /\ B > 32
<1>1. B % 2 = 0 /\ B \in Int /\ B > 0
  BY RescalingAssumption, BaseFacts
<1>2. B = 2 * HalfBase /\ HalfBase \in Int
  BY <1>1 DEF HalfBase
<1>3. Len(P) \in Nat /\ ResidueCount \in 1 .. 8 /\ ResidueCount <= Len(P)
  BY RescalingAssumption
<1>4. ResidueCount \in 1 .. Len(P)
  BY <1>3
<1>5. P[ResidueCount] \in Int /\ P[ResidueCount] > 1 /\ 16 * P[ResidueCount] < B
  BY <1>4, PrimesListed, FitsFacts
<1> QED BY <1>1, <1>2, <1>5

(* The estimate, and one more when the comparison says so, is certified.   *)
LEMMA Rounding ==
  ASSUME NEW A \in Int, NEW H \in Int, H > 0, NEW F \in Int, F >= 0, NEW n \in Int, n > 0,
         NEW c \in {0, 1}, Encloses(F, n, A, H), NEW bias \in Int, bias = c * HalfBase,
         NEW low, low = (F + bias) \div B, NEW high, high = (F + n + bias) \div B,
         low # high => n < B
  PROVE  /\ low \in Nat
         /\ Certified(IF low # high /\ 2 * A >= H * (2 * low + 2 - c) THEN low + 1 ELSE low,
                      c, A, H)
<1> DEFINE certain == low = high
           reached == 2 * A >= H * (2 * low + 2 - c)
<1>1. HalfBase \in Int /\ HalfBase > 0 /\ B = 2 * HalfBase /\ B \in Int /\ B > 0
  BY HalfBaseIs
<1>2. bias \in Int /\ 0 <= bias
  BY <1>1, TimesSign
<1>3. PICK r \in Int : low \in Int /\ F + bias = low * B + r /\ 0 <= r /\ r < B
  <2>1. PICK x \in Int : x = F + bias
    OBVIOUS
  <2>2. /\ x \div B \in Int /\ x % B \in Int /\ x = (x \div B) * B + (x % B)
        /\ 0 <= x % B /\ x % B < B
    BY <1>1, DivMod
  <2> QED BY <2>1, <2>2
<1>4. low * B \in Int
  BY <1>1, <1>3
<1>5. low \in Nat
  <2>1. (0 - 1) * B < low * B
    BY <1>1, <1>2, <1>3, <1>4
  <2>2. 0 - 1 < low
    BY <1>1, <1>3, <2>1, TimesCancel
  <2> QED BY <1>3, <2>2
<1>6. (2 * low - c) * H <= 2 * A
  <2>1. low * B <= F + c * HalfBase
    BY <1>1, <1>3, <1>4
  <2> QED BY <1>1, <1>3, <2>1, LowerBound
<1>7. ASSUME ~certain PROVE 2 * A < (2 * low + 4 - c) * H
  <2>1. (low + 2) * B = low * B + 2 * B
    BY <1>1, <1>3
  <2>2. F + n + c * HalfBase <= (low + 2) * B
    <3>1. n < B
      BY <1>7
    <3> QED BY <1>1, <1>3, <1>4, <2>1, <3>1
  <2>3. low + 2 \in Int
    BY <1>3
  <2>4. 2 * A < (2 * (low + 2) - c) * H
    BY <1>1, <2>2, <2>3, UpperBound
  <2>5. 2 * (low + 2) - c = 2 * low + 4 - c
    BY <1>3
  <2> QED BY <2>4, <2>5
<1>8. ASSUME certain PROVE 2 * A < (2 * low + 2 - c) * H
  <2>1. PICK x \in Int : x = F + n + bias
    OBVIOUS
  <2>2. x \div B = low
    BY <1>8, <2>1
  <2>3. x = (x \div B) * B + (x % B) /\ x % B < B /\ x % B \in Int
    BY <1>1, DivMod
  <2>4. (low + 1) * B = low * B + B
    <3>1. PICK b \in Int, l \in Int : b = B /\ l = low
      BY <1>1, <1>3
    <3>2. (l + 1) * b = l * b + b
      OBVIOUS
    <3> QED BY <3>1, <3>2
  <2>5. x <= (low + 1) * B
    BY <1>1, <1>4, <2>2, <2>3, <2>4
  <2>6. F + n + c * HalfBase <= (low + 1) * B
    BY <2>1, <2>5
  <2>7. low + 1 \in Int
    BY <1>3
  <2>8. 2 * A < (2 * (low + 1) - c) * H
    BY <1>1, <2>6, <2>7, UpperBound
  <2>9. 2 * (low + 1) - c = 2 * low + 2 - c
    BY <1>3
  <2> QED BY <2>8, <2>9
<1>9. H * (2 * low + 2 - c) = (2 * low + 2 - c) * H
  BY <1>3
<1>10. CASE ~certain /\ reached
  <2>1. (2 * low + 2 - c) * H <= 2 * A
    <3>1. (2 * low + 2 - c) * H \in Int /\ 2 * A \in Int
      BY <1>3
    <3> QED BY <1>9, <1>10, <3>1
  <2>2. 2 * (low + 1) - c = 2 * low + 2 - c /\ 2 * (low + 1) + 2 - c = 2 * low + 4 - c
    BY <1>3
  <2> QED BY <1>5, <1>7, <1>10, <2>1, <2>2 DEF Certified
<1>11. CASE ~(~certain /\ reached)
  <2>1. 2 * A < (2 * low + 2 - c) * H
    <3>1. (2 * low + 2 - c) * H \in Int /\ 2 * A \in Int
      BY <1>3
    <3>2. CASE certain
      BY <1>8, <3>2
    <3>3. CASE ~reached
      BY <1>9, <3>1, <3>3
    <3> QED BY <1>11, <3>2, <3>3
  <2> QED BY <1>5, <1>6, <1>11, <2>1 DEF Certified
<1> QED BY <1>10, <1>11

(* What sums of fractions and of terms are.                                *)
Reduced(base, t) == \A j \in base : t[j] \in Nat /\ t[j] < P[j]

(* The fractions of the terms add up to a lower bound, off by less than    *)
(* one unit for each of them.                                              *)
LEMMA FractionBounds ==
  ASSUME NEW base, OfBase(base), base # {}, NEW t, Reduced(base, t)
  PROVE  /\ FractionSum(base, t) \in Nat /\ Sum(base, t) \in Nat
         /\ Cardinality(base) \in Nat /\ Cardinality(base) > 0
         /\ Encloses(FractionSum(base, t), Cardinality(base), Sum(base, t), Product(base))
         /\ Sum(base, t) < Cardinality(base) * Product(base)
<1> DEFINE f == [j \in base |-> Fraction(t[j], P[j])]
           g == [j \in base |-> t[j] * Partial(base, j)]
           o == [j \in base |-> 1]
           z == [j \in base |-> 0]
           H == Product(base)
           n == Cardinality(base)
           h1 == [j \in base |-> H * f[j]]
           h2 == [j \in base |-> B * g[j]]
           h3 == [j \in base |-> B * g[j] + 1]
           h4 == [j \in base |-> H * f[j] + H]
           h5 == [j \in base |-> g[j] + 1]
           h6 == [j \in base |-> H]
<1>1. base \subseteq 1 .. Len(P)
  BY DEF OfBase
<1>2. H \in Nat \ {0} /\ B \in Int /\ B > 0
  BY ProductPositive, BaseFacts
<1>3. ASSUME NEW j \in base
      PROVE  /\ f[j] \in Nat /\ g[j] \in Nat
             /\ H * f[j] <= B * g[j] /\ B * g[j] + 1 <= H * f[j] + H
             /\ g[j] + 1 <= H
  <2>1. PICK c \in Int, p \in Int : c = Partial(base, j) /\ p = P[j] /\ H = c * p /\ c > 0
                                    /\ Fits(p) /\ p > 0
    BY BasePrime, PartialFacts
  <2>2. PICK y \in Int : y = t[j] /\ y \in 0 .. p - 1
    BY <2>1 DEF Reduced
  <2>3. PICK d \in Int : d = Fraction(y, p) /\ 0 <= d /\ d * p <= y * B /\ y * B < (d + 1) * p
    BY <2>1, <2>2, FractionIs
  <2>4. f[j] = d /\ g[j] = y * c
    BY <2>1, <2>2, <2>3
  <2>5. (d * p) * c <= (y * B) * c /\ (y * B) * c < ((d + 1) * p) * c
    <3>1. d * p \in Int /\ y * B \in Int /\ (d + 1) * p \in Int
      BY <1>2
    <3> HIDE DEF H
    <3> QED BY <2>1, <2>3, <3>1, TimesMonotone, TimesStrict
  <2>6. /\ (d * p) * c = H * d /\ (y * B) * c = B * (y * c)
        /\ ((d + 1) * p) * c = H * d + H
    <3>1. (d * p) * c = (c * p) * d /\ ((d + 1) * p) * c = (c * p) * d + c * p
      OBVIOUS
    <3>2. (y * B) * c = B * (y * c)
      BY <1>2
    <3> QED BY <2>1, <3>1, <3>2
  <2>7. 0 <= y * c /\ y * c \in Int /\ y * c < H
    <3>1. y * c < p * c
      BY <2>1, <2>2, TimesStrict
    <3>2. y * c \in Int /\ p * c = c * p
      OBVIOUS
    <3> QED BY <2>1, <2>2, <3>1, <3>2, TimesSign
  <2>8. H * d \in Int /\ B * (y * c) \in Int
    BY <1>2, <2>7
  <2>9. f[j] \in Nat /\ g[j] \in Nat
    BY <2>3, <2>4, <2>7
  <2>10. H * f[j] = H * d /\ B * g[j] = B * (y * c)
    BY <2>4
  <2> HIDE DEF f, g, H
  <2> QED BY <1>2, <2>4, <2>5, <2>6, <2>7, <2>8, <2>9, <2>10
<1>4. /\ FractionSum(base, t) = Total(f) /\ Sum(base, t) = Total(g)
  BY DEF FractionSum, Sum
<1>5. Numbers(o) /\ Total(o) = n /\ n \in Nat /\ IsFiniteSet(base)
  BY <1>1, TotalOnes
<1>6. n > 0
  BY <1>5, FS_EmptySet
<1> HIDE DEF f, g, H, n
<1>7. \A j : /\ Entry(f, j) = IF j \in base THEN f[j] ELSE 0
             /\ Entry(g, j) = IF j \in base THEN g[j] ELSE 0
             /\ Entry(o, j) = IF j \in base THEN 1 ELSE 0
             /\ Entry(z, j) = 0
  BY DEF Entry, f, g
<1>8. \A j : /\ Entry(h1, j) = IF j \in base THEN H * f[j] ELSE 0
             /\ Entry(h2, j) = IF j \in base THEN B * g[j] ELSE 0
             /\ Entry(h3, j) = IF j \in base THEN B * g[j] + 1 ELSE 0
             /\ Entry(h4, j) = IF j \in base THEN H * f[j] + H ELSE 0
             /\ Entry(h5, j) = IF j \in base THEN g[j] + 1 ELSE 0
             /\ Entry(h6, j) = IF j \in base THEN H ELSE 0
  BY DEF Entry
<1> HIDE DEF o, z, h1, h2, h3, h4, h5, h6
<1>9. Numbers(f) /\ Numbers(g) /\ Numbers(z)
  BY <1>3, <1>7 DEF Numbers
<1>10. 0 \in Int /\ 1 \in Int /\ H \in Int /\ B \in Int
  BY <1>2
<1>11. \A x \in Int : x * 0 = 0 /\ 0 * x = 0 /\ 1 * x = x /\ x * 1 = x /\ x + 0 = x /\ 0 + x = x
  OBVIOUS
<1>12. /\ Combines(h1, H, f, 0, f) /\ Combines(h2, B, g, 0, g)
       /\ Combines(h3, B, g, 1, o) /\ Combines(h4, H, f, H, o)
       /\ Combines(h5, 1, g, 1, o) /\ Combines(h6, H, o, 0, o)
  <2>1. ASSUME NEW j \in 1 .. Len(P)
        PROVE  /\ Entry(h1, j) = H * Entry(f, j) + 0 * Entry(f, j)
               /\ Entry(h2, j) = B * Entry(g, j) + 0 * Entry(g, j)
               /\ Entry(h3, j) = B * Entry(g, j) + 1 * Entry(o, j)
               /\ Entry(h4, j) = H * Entry(f, j) + H * Entry(o, j)
               /\ Entry(h5, j) = 1 * Entry(g, j) + 1 * Entry(o, j)
               /\ Entry(h6, j) = H * Entry(o, j) + 0 * Entry(o, j)
    <3>1. CASE j \in base
      <4>1. PICK x \in Int, y \in Int : x = f[j] /\ y = g[j]
        BY <1>3, <3>1
      <4>2. H * x \in Int /\ B * y \in Int
        BY <1>10
      <4>3. PICK u \in Int, v \in Int : u = H * x /\ v = B * y
        BY <4>2
      <4>4. /\ Entry(h1, j) = u /\ Entry(h2, j) = v /\ Entry(h3, j) = v + 1
            /\ Entry(h4, j) = u + H /\ Entry(h5, j) = y + 1 /\ Entry(h6, j) = H
        BY <1>8, <3>1, <4>1, <4>3
      <4>5. /\ H * Entry(f, j) = u /\ B * Entry(g, j) = v /\ 0 * Entry(f, j) = 0
            /\ 0 * Entry(g, j) = 0 /\ 1 * Entry(g, j) = y
            /\ 1 * Entry(o, j) = 1 /\ H * Entry(o, j) = H /\ 0 * Entry(o, j) = 0
        BY <1>7, <1>10, <1>11, <3>1, <4>1, <4>3
      <4> QED BY <1>10, <4>3, <4>4, <4>5
    <3>2. CASE j \notin base
      BY <1>7, <1>8, <1>10, <1>11, <3>2
    <3> QED BY <3>1, <3>2
  <2> QED BY <2>1 DEF Combines
<1>13. /\ Total(f) \in Int /\ Total(g) \in Int
       /\ Total(h1) = H * Total(f) + 0 * Total(f)
       /\ Total(h2) = B * Total(g) + 0 * Total(g)
       /\ Total(h3) = B * Total(g) + 1 * Total(o)
       /\ Total(h4) = H * Total(f) + H * Total(o)
       /\ Total(h5) = 1 * Total(g) + 1 * Total(o)
       /\ Total(h6) = H * Total(o) + 0 * Total(o)
  BY <1>5, <1>9, <1>10, <1>12, TotalLinear
<1>14. /\ Numbers(h1) /\ Numbers(h2) /\ Numbers(h3) /\ Numbers(h4) /\ Numbers(h5) /\ Numbers(h6)
  <2>1. ASSUME NEW j \in base
        PROVE  /\ H * f[j] \in Int /\ B * g[j] \in Int /\ B * g[j] + 1 \in Int
               /\ H * f[j] + H \in Int /\ g[j] + 1 \in Int
    BY <1>3, <1>10
  <2> QED BY <1>8, <1>10, <2>1 DEF Numbers
<1>15. \A j \in 1 .. Len(P) : /\ Entry(h1, j) <= Entry(h2, j) /\ Entry(h3, j) <= Entry(h4, j)
                              /\ Entry(h5, j) <= Entry(h6, j)
                              /\ Entry(z, j) <= Entry(f, j) /\ Entry(z, j) <= Entry(g, j)
  BY <1>3, <1>7, <1>8
<1>16. /\ Total(h1) <= Total(h2) /\ Total(h3) <= Total(h4) /\ Total(h5) <= Total(h6)
       /\ Total(z) <= Total(f) /\ Total(z) <= Total(g)
  BY <1>9, <1>14, <1>15, TotalMonotone
<1>17. Total(z) = 0
  <2>1. Combines(z, 0, z, 0, z)
    <3>1. 0 = 0 * 0 + 0 * 0
      OBVIOUS
    <3> QED BY <1>7, <3>1 DEF Combines
  <2>2. Total(z) \in Int /\ Total(z) = 0 * Total(z) + 0 * Total(z)
    BY <1>9, <1>10, <2>1, TotalLinear
  <2> QED BY <1>11, <2>2
<1>18. PICK F \in Int, A \in Int : F = Total(f) /\ A = Total(g)
  BY <1>13
<1>19. H * F \in Int /\ B * A \in Int /\ H * n \in Int
  BY <1>5, <1>10
<1>20. /\ H * F <= B * A /\ B * A + n <= H * F + H * n /\ A + n <= H * n /\ 0 <= F /\ 0 <= A
  BY <1>5, <1>10, <1>11, <1>13, <1>16, <1>17, <1>18, <1>19
<1>21. F * H = H * F /\ A * B = B * A /\ (F + n) * H = H * F + H * n /\ n * H = H * n
  BY <1>5, <1>10
<1>22. Encloses(F, n, A, H) /\ A < n * H
  BY <1>5, <1>6, <1>19, <1>20, <1>21 DEF Encloses
<1> QED BY <1>4, <1>5, <1>6, <1>18, <1>20, <1>22 DEF H, n

(* Small bases: their sums of terms and fractions fit.                     *)
Usable(base, most) ==
  OfBase(base) /\ base # {} /\ Cardinality(base) <= most

(* normalize certifies how often the product is subtracted, compared or    *)
(* not ...                                                                 *)
LEMMA AlphaIs ==
  ASSUME NEW base, OfBase(base), base # {}, Cardinality(base) < B,
         NEW t, Reduced(base, t), NEW centered \in BOOLEAN
  PROVE  /\ Alpha(base, t, centered) \in Nat
         /\ Certified(Alpha(base, t, centered), IF centered THEN 1 ELSE 0,
                      Sum(base, t), Product(base))
<1> DEFINE c == IF centered THEN 1 ELSE 0
           bias == IF centered THEN B \div 2 ELSE 0
           F == FractionSum(base, t)
           A == Sum(base, t)
           H == Product(base)
           n == Cardinality(base)
           low == (F + bias) \div B
           certain == low = (F + n + bias) \div B
           reached == IF centered THEN 2 * A >= H * (2 * low + 1) ELSE A >= H * (low + 1)
<1>1. /\ F \in Int /\ F >= 0 /\ A \in Int /\ n \in Int /\ n > 0 /\ Encloses(F, n, A, H)
  BY FractionBounds
<1>2. H \in Int /\ H > 0
  BY ProductPositive
<1>3. HalfBase \in Int /\ HalfBase > 0 /\ B = 2 * HalfBase /\ B \in Int /\ B > 0
  BY HalfBaseIs
<1>4. c \in {0, 1} /\ bias \in Int /\ bias = c * HalfBase
  BY <1>3 DEF HalfBase
<1>5. Alpha(base, t, centered) = IF ~certain /\ reached THEN low + 1 ELSE low
  BY DEF Alpha
<1>6. low \in Int
  <2>1. PICK x \in Int : x = F + bias
    BY <1>1, <1>4
  <2> QED BY <1>3, <2>1, DivMod
<1> HIDE DEF F, A, H, n, low
<1>7. reached <=> 2 * A >= H * (2 * low + 2 - c)
  <2>1. CASE centered
    <3>1. 2 * low + 2 - c = 2 * low + 1
      BY <1>6, <2>1
    <3> QED BY <2>1, <3>1
  <2>2. CASE ~centered
    <3>1. 2 * low + 2 - c = 2 * (low + 1)
      BY <1>6, <2>2
    <3>2. H * (2 * (low + 1)) = 2 * (H * (low + 1)) /\ H * (low + 1) \in Int
      BY <1>2, <1>6
    <3> QED BY <1>1, <2>2, <3>1, <3>2
  <2> QED BY <2>1, <2>2
<1> DEFINE high == (F + n + bias) \div B
<1> HIDE DEF c, bias, reached, high
<1>8. low = (F + bias) \div B /\ high = (F + n + bias) \div B /\ n < B
  BY DEF low, high, n
<1>9. /\ low \in Nat
      /\ Certified(IF low # high /\ 2 * A >= H * (2 * low + 2 - c) THEN low + 1 ELSE low, c, A, H)
  BY <1>1, <1>2, <1>4, <1>8, Rounding
<1>10. certain <=> low = high
  BY DEF high
<1>11. Alpha(base, t, centered)
         = IF low # high /\ 2 * A >= H * (2 * low + 2 - c) THEN low + 1 ELSE low
  BY <1>5, <1>7, <1>10
<1>12. Alpha(base, t, centered) \in Nat
  BY <1>9, <1>11
<1> QED BY <1>9, <1>11, <1>12 DEF c, A, H

(* ... which is at most once for every prime.                              *)
LEMMA AlphaBound ==
  ASSUME NEW al \in Int, NEW c \in {0, 1}, NEW A \in Int, NEW H \in Int, H > 0, NEW n \in Int,
         Certified(al, c, A, H), A < n * H
  PROVE  al <= n
<1>1. PICK x \in Int : x = 2 * al - c
  <2>1. c \in Int /\ 2 * al \in Int
    OBVIOUS
  <2>2. 2 * al - c \in Int
    BY <2>1
  <2> QED BY <2>2
<1>2. x * H <= 2 * A
  BY <1>1 DEF Certified
<1>3. (2 * n) * H = 2 * (n * H) /\ n * H \in Int /\ x * H \in Int /\ 2 * n \in Int
  OBVIOUS
<1>4. x * H < (2 * n) * H
  BY <1>2, <1>3
<1>5. x < 2 * n
  BY <1>3, <1>4, TimesCancel
<1> QED BY <1>1, <1>5

(* What is certified without a bias is the remainder ...                   *)
LEMMA RemainderCertified ==
  ASSUME NEW al \in Int, NEW A \in Int, NEW H \in Int, H > 0, Certified(al, 0, A, H)
  PROVE  A - al * H = A % H
<1>1. (2 * al - 0) * H = 2 * (al * H) /\ (2 * al + 2 - 0) * H = 2 * (al * H) + 2 * H
  OBVIOUS
<1>2. PICK w \in Int : w = al * H
  OBVIOUS
<1>3. 2 * w <= 2 * A /\ 2 * A < 2 * w + 2 * H
  BY <1>1, <1>2 DEF Certified
<1>4. PICK r \in Int : r = A - w /\ 0 <= r /\ r < H
  BY <1>3
<1>5. (al * H + r) % H = r
  BY <1>4, DivModUnique
<1>6. al * H + r = A
  BY <1>2, <1>4
<1> QED BY <1>2, <1>4, <1>5, <1>6

(* ... and with half a unit, the integer closest to zero.                  *)
LEMMA CenteredCertified ==
  ASSUME NEW al \in Int, NEW A \in Int, NEW H \in Int, H > 0, Certified(al, 1, A, H),
         NEW y \in Int, 2 * y < H, 0 - H < 2 * y, A % H = y % H
  PROVE  A - al * H = y
<1>1. (2 * al - 1) * H = 2 * (al * H) - H /\ (2 * al + 2 - 1) * H = 2 * (al * H) + H
  OBVIOUS
<1>2. PICK w \in Int : w = al * H
  OBVIOUS
<1>3. 2 * w - H <= 2 * A /\ 2 * A < 2 * w + H
  BY <1>1, <1>2 DEF Certified
<1>4. Multiple(A - y, H)
  BY SameMod
<1>5. PICK u \in Int : A - y = u * H
  BY <1>4 DEF Multiple
<1>6. A - w - y = (u - al) * H
  BY <1>2, <1>5
<1>7. PICK d \in Int : d = u - al
  OBVIOUS
<1>8. (0 - 1) * H < d * H /\ d * H < 1 * H
  BY <1>2, <1>3, <1>6, <1>7
<1>9. 0 - 1 < d /\ d < 1
  BY <1>7, <1>8, TimesCancel
<1>10. d = 0
  BY <1>9
<1>11. d * H = 0
  BY <1>10
<1> QED BY <1>2, <1>6, <1>7, <1>11

(* A residue may be reduced by any number of subtractions.                 *)
LEMMA BelowIs ==
  ASSUME NEW p \in Int, p > 0, NEW z \in 0 .. 2 * p - 1
  PROVE  Below(z, p) = z % p
BY OneSubtraction DEF Below

(* convert gives the residue of the restored integer modulo another prime. *)
LEMMA ConvertIs ==
  ASSUME NEW base, Usable(base, 17), NEW t, Reduced(base, t), NEW k \in 1 .. Len(P),
         NEW al \in Int, 0 <= al, al <= Cardinality(base)
  PROVE  /\ Convert(base, t, al, k) \in 0 .. P[k] - 1
         /\ Convert(base, t, al, k) = (Sum(base, t) - al * Product(base)) % P[k]
<1> DEFINE p == P[k]
           f == [j \in base |-> t[j] * (Partial(base, j) % p)]
           g == [j \in base |-> t[j] * Partial(base, j)]
           H == Product(base)
           A == Sum(base, t)
<1>1. base \subseteq 1 .. Len(P) /\ OfBase(base) /\ base # {} /\ Cardinality(base) <= 17
  BY DEF Usable, OfBase
<1>2. p \in Int /\ p > 1 /\ Fits(p) /\ 16 * p < B /\ B \in Int /\ B > 32 /\ B > 0
  BY PrimesListed, FitsFacts, HalfBaseIs, BaseFacts
<1>3. H \in Int /\ H > 0 /\ A \in Int /\ Cardinality(base) \in Nat
  BY <1>1, ProductPositive, FractionBounds
<1>4. Convert(base, t, al, k)
        = Below(Reduce(Total(f), p) + p - Multiply(Multiplier(H % p, p), al, p), p)
  BY DEF Convert
<1> HIDE DEF p
<1>7. \A j : /\ Entry(f, j) = IF j \in base THEN f[j] ELSE 0
             /\ Entry(g, j) = IF j \in base THEN g[j] ELSE 0
  BY DEF Entry
<1>6. p \in Int /\ p > 0 /\ B \in Int
  BY <1>2
<1>5. ASSUME NEW j \in base
      PROVE  /\ f[j] \in Int /\ g[j] \in Int /\ f[j] % p = g[j] % p
             /\ 0 <= f[j] /\ 17 * f[j] <= B * B - 1
  <2>1. PICK y \in Int, c \in Int, d \in Int :
          y = t[j] /\ c = Partial(base, j) /\ d = c % p /\ 0 <= y /\ y < P[j] /\ 0 <= d /\ d < p
    <3>1. t[j] \in Int /\ 0 <= t[j] /\ t[j] < P[j]
      BY DEF Reduced
    <3>2. Partial(base, j) \in Int
      BY <1>1, PartialFacts
    <3>3. /\ Partial(base, j) % p \in Int /\ 0 <= Partial(base, j) % p
          /\ Partial(base, j) % p < p
      BY <1>2, <3>2, DivMod
    <3> QED BY <3>1, <3>2, <3>3
  <2>2. f[j] = y * d /\ g[j] = y * c /\ y * d \in Int /\ y * c \in Int
    BY <2>1
  <2>3. (d * y) % p = (c * y) % p
    <3>1. ((c % p) * y) % p = (c * y) % p
      BY <1>6, ModTimes
    <3> QED BY <2>1, <3>1
  <2>4. d * y = y * d /\ c * y = y * c
    OBVIOUS
  <2>5. 0 <= y * d
    BY <2>1, TimesSign
  <2>6. 17 * (y * d) <= B * B - 1
    <3>1. j \in 1 .. Len(P)
      BY <1>1
    <3>2. 16 * P[j] < B /\ P[j] \in Int
      BY <3>1, PrimesListed, FitsFacts
    <3>3. 16 * y < B /\ 16 * d < B
      <4>1. PICK v \in Int : v = P[j] /\ y < v /\ 16 * v < B
        BY <2>1, <3>2
      <4>2. d < p /\ 16 * p < B
        BY <1>2, <2>1
      <4> QED BY <1>6, <4>1, <4>2
    <3>4. PICK x \in Int, z \in Int : x = 16 * y /\ z = 16 * d
      BY <2>1
    <3>5. x * z <= B * z /\ z * B < B * B
      <4>1. x <= B /\ z < B /\ 0 <= z
        <5>1. 0 <= d
          BY <2>1
        <5> QED BY <1>6, <3>3, <3>4, <5>1
      <4>2. x * z <= B * z
        BY <1>2, <4>1, TimesMonotone
      <4>3. z * B < B * B
        BY <1>2, <4>1, TimesStrict
      <4> QED BY <4>2, <4>3
    <3>6. x * z = 256 * (y * d)
      BY <3>4
    <3>7. B * z = z * B /\ B * B \in Int /\ z * B \in Int
      BY <1>2
    <3>8. 256 * (y * d) < B * B
      BY <2>2, <3>5, <3>6, <3>7
    <3> QED BY <2>2, <2>5, <3>7, <3>8
  <2> HIDE DEF f, g
  <2> QED BY <2>2, <2>3, <2>4, <2>5, <2>6
<1>20. A = Total(g)
  BY DEF Sum
<1> HIDE DEF f, g, H, A
<1>8. Numbers(f) /\ Numbers(g) /\ SameEntries(f, g, p)
  BY <1>5, <1>7 DEF Numbers, SameEntries
<1>9. Total(f) \in Int /\ Total(f) % p = A % p
  BY <1>6, <1>20, <1>8, TotalMod
<1>10. Total(f) \in Wide
  <2> DEFINE o == [j \in base |-> 1]
             z == [j \in base |-> 0]
             h == [j \in base |-> 17 * f[j]]
             w == [j \in base |-> B * B - 1]
             n == Cardinality(base)
  <2>1. Numbers(o) /\ Total(o) = n /\ n \in Nat
    BY <1>1, TotalOnes
  <2>2. PICK b \in Int : b = B * B - 1 /\ b > 0
    <3>1. 32 * 32 < B * B
      <4>1. 32 * 32 <= B * 32 /\ 32 * B < B * B
        BY <1>2, TimesMonotone, TimesStrict
      <4> QED BY <1>2, <4>1
    <3>2. B * B \in Int
      BY <1>2
    <3> QED BY <3>1, <3>2
  <2>3. \A j : /\ Entry(o, j) = IF j \in base THEN 1 ELSE 0
               /\ Entry(z, j) = 0
               /\ Entry(h, j) = IF j \in base THEN 17 * f[j] ELSE 0
               /\ Entry(w, j) = IF j \in base THEN b ELSE 0
    BY <2>2 DEF Entry
  <2> HIDE DEF o, z, h, w, n
  <2>4. Numbers(z) /\ Numbers(h) /\ Numbers(w)
    BY <1>5, <2>3 DEF Numbers
  <2>5. 0 \in Int /\ 17 \in Int /\ b \in Int
    OBVIOUS
  <2>6. Combines(z, 0, z, 0, z) /\ Combines(h, 17, f, 0, f) /\ Combines(w, b, o, 0, o)
    <3>1. \A x \in Int : x * 0 = 0 /\ 0 * x = 0 /\ x * 1 = x /\ x + 0 = x
      OBVIOUS
    <3>2. ASSUME NEW j \in 1 .. Len(P)
          PROVE  /\ Entry(z, j) = 0 * Entry(z, j) + 0 * Entry(z, j)
                 /\ Entry(h, j) = 17 * Entry(f, j) + 0 * Entry(f, j)
                 /\ Entry(w, j) = b * Entry(o, j) + 0 * Entry(o, j)
      <4>1. PICK x \in Int : x = Entry(f, j)
        BY <1>8 DEF Numbers
      <4>2. 17 * x \in Int
        OBVIOUS
      <4>3. Entry(h, j) = 17 * x
        BY <1>7, <2>3, <4>1, <3>1
      <4>4. 17 * Entry(f, j) = 17 * x /\ 0 * Entry(f, j) = 0 /\ 17 * x + 0 = 17 * x
        BY <3>1, <4>1, <4>2
      <4>5. Entry(z, j) = 0 /\ 0 * Entry(z, j) = 0 /\ 0 + 0 = 0
        BY <2>3
      <4>6. Entry(o, j) \in {0, 1} /\ Entry(w, j) = b * Entry(o, j) /\ 0 * Entry(o, j) = 0
        BY <2>3, <3>1
      <4>7. b * Entry(o, j) + 0 = b * Entry(o, j)
        BY <2>3, <3>1
      <4> QED BY <4>3, <4>4, <4>5, <4>6, <4>7
    <3> QED BY <3>2 DEF Combines
  <2>7. /\ Total(z) \in Int /\ Total(z) = 0 * Total(z) + 0 * Total(z)
        /\ Total(h) = 17 * Total(f) + 0 * Total(f)
        /\ Total(w) = b * Total(o) + 0 * Total(o)
    BY <1>8, <2>1, <2>4, <2>5, <2>6, TotalLinear
  <2>8. \A j \in 1 .. Len(P) : Entry(z, j) <= Entry(f, j) /\ Entry(h, j) <= Entry(w, j)
    BY <1>5, <1>7, <2>2, <2>3
  <2>9. Total(z) <= Total(f) /\ Total(h) <= Total(w)
    BY <1>8, <2>4, <2>8, TotalMonotone
  <2>10. 0 <= Total(f) /\ 17 * Total(f) <= b * n
    BY <1>9, <2>1, <2>7, <2>9
  <2>11. n * b <= 17 * b
    BY <1>1, <2>1, <2>2, TimesMonotone DEF n
  <2>12. Total(f) <= b
    <3>1. b * n = n * b /\ b * n \in Int
      BY <2>1
    <3> QED BY <1>9, <2>10, <2>11, <3>1
  <2> QED BY <1>9, <2>2, <2>10, <2>12 DEF Wide
<1>11. Reduce(Total(f), p) = A % p
  BY <1>2, <1>9, <1>10, ReduceIsRemainder
<1>12. PICK m \in Int : m = H % p /\ 0 <= m /\ m < p
  BY <1>2, <1>3, DivMod
<1>13. Multiply(Multiplier(m, p), al, p) = (al * m) % p
  <2>1. m \in 0 .. p - 1
    BY <1>2, <1>12
  <2>2. al \in Words
    BY <1>1, <1>2, <1>3 DEF Words
  <2> QED BY <1>2, <2>1, <2>2, ProductIsExact
<1>14. (al * m) % p = (al * H) % p
  <2>1. (m * al) % p = (H * al) % p
    BY <1>2, <1>3, <1>12, ModTimes
  <2>2. m * al = al * m /\ H * al = al * H
    BY <1>3
  <2> QED BY <2>1, <2>2
<1>15. PICK s \in Int, r \in Int, e \in Int : s = al * H /\ r = A % p /\ e = s % p
                            /\ 0 <= r /\ r < p /\ 0 <= e /\ e < p
  <2>1. PICK s \in Int : s = al * H
    BY <1>3
  <2> QED BY <1>2, <1>3, <2>1, DivMod
<1>16. r + p - e \in 0 .. 2 * p - 1
  BY <1>2, <1>15
<1>17. Convert(base, t, al, k) = (r + p - e) % p
  <2>1. Multiply(Multiplier(H % p, p), al, p) = e /\ Reduce(Total(f), p) = r
    BY <1>11, <1>12, <1>13, <1>14, <1>15
  <2>2. Below(r + p - e, p) = (r + p - e) % p
    BY <1>2, <1>16, BelowIs
  <2> QED BY <1>4, <2>1, <2>2
<1>18. (r + p - e) % p = (A - s) % p
  <2>1. PICK u \in Int, v \in Int : A = u * p + r /\ s = v * p + e
    <3>1. A = (A \div p) * p + (A % p) /\ A \div p \in Int
      BY <1>3, <1>6, DivMod
    <3>2. s = (s \div p) * p + (s % p) /\ s \div p \in Int
      BY <1>6, DivMod
    <3> QED BY <1>15, <3>1, <3>2
  <2>2. (A - s) - (r + p - e) = (u - v - 1) * p
    BY <1>6, <1>3, <2>1
  <2>3. PICK x \in Int, y \in Int : x = A - s /\ y = r + p - e
    BY <1>2, <1>3
  <2>4. PICK d \in Int : d = u - v - 1
    OBVIOUS
  <2>5. x % p = y % p
    <3>1. x = d * p + y
      <4>1. x - y = d * p /\ d * p \in Int
        BY <1>6, <2>2, <2>3, <2>4
      <4> QED BY <4>1
    <3> QED BY <1>6, <3>1, ModDiffers
  <2> QED BY <2>3, <2>5
<1>19. (r + p - e) % p \in 0 .. p - 1
  <2>1. PICK y \in Int : y = r + p - e
    BY <1>2
  <2>2. y % p \in Int /\ 0 <= y % p /\ y % p < p
    BY <1>2, DivMod
  <2> QED BY <1>2, <2>1, <2>2
<1> QED BY <1>15, <1>17, <1>18, <1>19 DEF p, H, A

(* What is certified with half a unit is the rounded quotient.             *)
LEMMA RoundedBy ==
  ASSUME NEW z \in Int, NEW H \in Int, H > 0, NEW k \in Int, Certified(k, 1, z, H)
  PROVE  (2 * z + H) \div (2 * H) = k
<1>1. (2 * k - 1) * H = k * (2 * H) - H /\ (2 * k + 2 - 1) * H = k * (2 * H) + H
  OBVIOUS
<1>2. PICK w \in Int, b \in Int : w = k * (2 * H) /\ b = 2 * H /\ b > 0
  OBVIOUS
<1>3. w - H <= 2 * z /\ 2 * z < w + H
  BY <1>1, <1>2 DEF Certified
<1>4. PICK r \in Int : r = 2 * z + H - w /\ 0 <= r /\ r < b
  BY <1>2, <1>3
<1>5. (k * b + r) \div b = k
  BY <1>2, <1>4, DivModUnique
<1>6. k * b + r = 2 * z + H
  BY <1>2, <1>4
<1> QED BY <1>2, <1>5, <1>6

(* Products of a word with a factor below a sixteenth of a word.           *)
LEMMA WordProduct ==
  ASSUME NEW m \in Int, 0 < m, 16 * m < B, NEW p, Fits(p), NEW y \in Int, 0 <= y, y < p
  PROVE  /\ m * y \in Wide /\ (m * y) \div p \in Nat /\ (m * y) \div p < B
         /\ (m * y) % p \in Nat /\ (m * y) % p < p
         /\ m * y = ((m * y) \div p) * p + ((m * y) % p)
<1>1. p \in Int /\ p > 1 /\ 16 * p < B /\ B \in Int /\ B > 0 /\ B * B \in Int
  BY FitsFacts, BaseFacts
<1>2. PICK x \in Int : x = m * y
  OBVIOUS
<1>3. 0 <= x /\ x < B * p /\ x < B * B
  <2>1. 0 <= x
    BY <1>2, TimesSign
  <2>2. m < B /\ p < B
    BY <1>1
  <2>3. m * y <= B * y
    BY <1>1, <2>2, TimesMonotone
  <2>4. y * B < p * B
    BY <1>1, TimesStrict
  <2>5. p * B < B * B
    BY <1>1, <2>2, TimesStrict
  <2>6. B * y = y * B /\ B * p = p * B /\ y * B \in Int /\ p * B \in Int
    BY <1>1
  <2> QED BY <1>1, <1>2, <2>1, <2>3, <2>4, <2>5, <2>6
<1>4. PICK k \in Int, r \in Int :
        k = x \div p /\ r = x % p /\ x = k * p + r /\ 0 <= r /\ r < p
  BY <1>1, DivMod
<1>5. 0 - 1 < k /\ k < B
  <2>1. k * p < B * p /\ (0 - 1) * p < k * p
    BY <1>1, <1>3, <1>4
  <2> QED BY <1>1, <2>1, TimesCancel
<1>6. k \in Nat /\ r \in Nat
  BY <1>4, <1>5
<1>7. x \in Wide
  BY <1>1, <1>3 DEF Wide
<1> QED BY <1>2, <1>4, <1>5, <1>6, <1>7

WholeOf(base, t, m) == Total([j \in base |-> (m * t[j]) \div P[j]])
RestOf(base, t, m) == [j \in base |-> (m * t[j]) % P[j]]

(* The whole parts and the rests make up the multiple.                     *)
LEMMA MultipleSplits ==
  ASSUME NEW base, OfBase(base), base # {}, NEW t, Reduced(base, t),
         NEW m \in Int, 0 < m, 16 * m < B
  PROVE  /\ Reduced(base, RestOf(base, t, m)) /\ WholeOf(base, t, m) \in Nat
         /\ m * Sum(base, t)
              = WholeOf(base, t, m) * Product(base) + Sum(base, RestOf(base, t, m))
<1> DEFINE d == [j \in base |-> (m * t[j]) \div P[j]]
           e == RestOf(base, t, m)
           g == [j \in base |-> t[j] * Partial(base, j)]
           h == [j \in base |-> e[j] * Partial(base, j)]
           z == [j \in base |-> 0]
           H == Product(base)
<1>1. base \subseteq 1 .. Len(P)
  BY DEF OfBase
<1>2. ASSUME NEW j \in base
      PROVE  /\ e[j] \in Nat /\ e[j] < P[j] /\ d[j] \in Nat /\ g[j] \in Int
             /\ h[j] = m * g[j] + (0 - H) * d[j]
  <2>1. PICK c \in Int, p \in Int : c = Partial(base, j) /\ p = P[j] /\ H = c * p /\ Fits(p)
    BY BasePrime, PartialFacts
  <2>2. PICK y \in Int : y = t[j] /\ 0 <= y /\ y < p
    BY <2>1 DEF Reduced
  <2>3. PICK k \in Nat, r \in Nat :
          k = (m * y) \div p /\ r = (m * y) % p /\ r < p /\ m * y = k * p + r
    BY <2>1, <2>2, WordProduct
  <2>4. e[j] = r /\ d[j] = k /\ g[j] = y * c /\ h[j] = r * c /\ y * c \in Int
    BY <2>1, <2>2, <2>3 DEF RestOf
  <2>5. m * (y * c) = (m * y) * c /\ (k * p + r) * c = (c * p) * k + r * c
    OBVIOUS
  <2>6. (c * p) * k \in Int /\ r * c \in Int
    OBVIOUS
  <2>7. r * c = m * (y * c) - (c * p) * k
    <3>1. (m * y) * c = (k * p + r) * c
      BY <2>3
    <3>2. m * (y * c) = (c * p) * k + r * c
      BY <2>5, <3>1
    <3>3. PICK a \in Int, b \in Int : a = (c * p) * k /\ b = r * c
      BY <2>6
    <3>4. b = (a + b) - a
      OBVIOUS
    <3> QED BY <3>2, <3>3, <3>4
  <2>8. (0 - H) * k = 0 - (c * p) * k
    <3>1. (0 - c * p) * k = 0 - (c * p) * k
      OBVIOUS
    <3> QED BY <2>1, <3>1
  <2>9. m * (y * c) \in Int
    OBVIOUS
  <2>10. h[j] = m * (y * c) + (0 - H) * k
    BY <2>4, <2>6, <2>7, <2>8, <2>9
  <2> HIDE DEF d, e, g, h, H
  <2> QED BY <2>1, <2>3, <2>4, <2>10
<1>3. WholeOf(base, t, m) = Total(d) /\ Sum(base, t) = Total(g) /\ Sum(base, e) = Total(h)
  BY DEF WholeOf, Sum
<1>4. Reduced(base, e)
  BY <1>2 DEF Reduced
<1>5. H \in Int /\ 0 - H \in Int
  BY ProductPositive
<1>6. \A j : /\ Entry(d, j) = IF j \in base THEN d[j] ELSE 0
             /\ Entry(g, j) = IF j \in base THEN g[j] ELSE 0
             /\ Entry(h, j) = IF j \in base THEN h[j] ELSE 0
             /\ Entry(z, j) = 0
  BY DEF Entry
<1> HIDE DEF d, e, g, h, z, H
<1>7. Numbers(d) /\ Numbers(g) /\ Numbers(z)
  BY <1>2, <1>6 DEF Numbers
<1>8. \A x \in Int : x * 0 = 0 /\ 0 * x = 0 /\ x + 0 = x
  OBVIOUS
<1>9. Combines(h, m, g, 0 - H, d) /\ Combines(z, 0, z, 0, z)
  <2>1. ASSUME NEW j \in 1 .. Len(P)
        PROVE  /\ Entry(h, j) = m * Entry(g, j) + (0 - H) * Entry(d, j)
               /\ Entry(z, j) = 0 * Entry(z, j) + 0 * Entry(z, j)
    <3>1. Entry(z, j) = 0 * Entry(z, j) + 0 * Entry(z, j)
      BY <1>6
    <3>2. CASE j \in base
      BY <1>2, <1>6, <3>1, <3>2
    <3>3. CASE j \notin base
      <4>1. Entry(h, j) = 0 /\ Entry(g, j) = 0 /\ Entry(d, j) = 0
        BY <1>6, <3>3
      <4>2. m * 0 = 0 /\ (0 - H) * 0 = 0 /\ 0 + 0 = 0
        BY <1>5, <1>8
      <4> QED BY <3>1, <4>1, <4>2
    <3> QED BY <3>2, <3>3
  <2> QED BY <2>1 DEF Combines
<1>10. /\ Total(g) \in Int /\ Total(d) \in Int
       /\ Total(h) = m * Total(g) + (0 - H) * Total(d)
  BY <1>5, <1>7, <1>9, TotalLinear
<1>11. 0 <= Total(d)
  <2>1. Total(z) = 0 * Total(z) + 0 * Total(z) /\ Total(z) \in Int
    <3>1. 0 \in Int
      OBVIOUS
    <3> QED BY <1>7, <1>9, <3>1, TotalLinear
  <2>2. \A j \in 1 .. Len(P) : Entry(z, j) <= Entry(d, j)
    BY <1>2, <1>6
  <2>3. Total(z) <= Total(d)
    BY <1>7, <2>2, TotalMonotone
  <2> QED BY <1>8, <2>1, <2>3
<1>12. PICK A \in Int, D \in Int : A = Total(g) /\ D = Total(d)
  BY <1>10
<1>13. (0 - H) * D = 0 - D * H /\ D * H \in Int /\ m * A \in Int
  BY <1>5
<1>14. m * A = D * H + Total(h)
  BY <1>10, <1>12, <1>13
<1> QED BY <1>3, <1>4, <1>10, <1>11, <1>12, <1>14 DEF e, H

RoundedFrom(whole, fraction, n, A, H, m, al) ==
  LET low == (fraction + B \div 2) \div B
      high == (fraction + n + B \div 2) \div B
      over == (2 * m) * A >= H * ((2 * (whole + low) + 1) % B)
  IN  ((IF ~ (low = high) /\ over THEN (whole + low) + 1 ELSE whole + low) - m * al) % B

(* round_fraction rounds the scaled remainder exactly, and stays within    *)
(* the factor.                                                             *)
LEMMA RoundFractionIs ==
  ASSUME NEW base, Usable(base, 8), NEW t, Reduced(base, t),
         NEW m \in Int, 0 < m, 16 * m < B, NEW al \in Int, NEW r \in Int,
         r = Sum(base, t) - al * Product(base), 0 <= r, r < Product(base)
  PROVE  /\ RoundFraction(base, t, al, m) \in 0 .. m
         /\ RoundFraction(base, t, al, m) = (2 * (m * r) + Product(base)) \div (2 * Product(base))
<1> DEFINE A == Sum(base, t)
           H == Product(base)
           n == Cardinality(base)
           e == RestOf(base, t, m)
           W == WholeOf(base, t, m)
           F == FractionSum(base, e)
           G == Sum(base, e)
           low == (F + B \div 2) \div B
           high == (F + n + B \div 2) \div B
           K == W + low
           over == (2 * m) * A >= H * ((2 * K + 1) % B)
<1>1. OfBase(base) /\ base # {} /\ n <= 8
  BY DEF Usable
<1>2. A \in Int /\ H \in Int /\ H > 0 /\ n \in Nat /\ n > 0 /\ A < n * H
  BY <1>1, FractionBounds, ProductPositive
<1>3. B \in Int /\ B > 32 /\ HalfBase \in Int /\ B = 2 * HalfBase /\ HalfBase = B \div 2
  BY HalfBaseIs DEF HalfBase
<1>4. Reduced(base, e) /\ W \in Nat /\ m * A = W * H + G
  BY <1>1, MultipleSplits
<1>5. F \in Int /\ F >= 0 /\ G \in Int /\ Encloses(F, n, G, H)
  BY <1>1, <1>4, FractionBounds
<1>6. RoundFraction(base, t, al, m)
        = ((IF ~(low = high) /\ over THEN K + 1 ELSE K) - m * al) % B
  <2> DEFINE divided == [j \in base |-> Divide(m * t[j], P[j])]
  <2>1. ASSUME NEW j \in base
        PROVE  /\ divided[j].quotient = (m * t[j]) \div P[j]
               /\ divided[j].remainder = e[j]
    <3>1. PICK p \in Int, y \in Int : p = P[j] /\ y = t[j] /\ Fits(p) /\ 0 <= y /\ y < p
      <4>1. t[j] \in Int /\ 0 <= t[j] /\ t[j] < P[j]
        BY DEF Reduced
      <4>2. P[j] \in Int /\ Fits(P[j])
        BY <1>1, BasePrime
      <4> QED BY <4>1, <4>2
    <3>2. m * y \in Wide /\ (m * y) \div p < B
      BY <3>1, WordProduct
    <3>3. Divide(m * y, p).quotient = (m * y) \div p /\ Divide(m * y, p).remainder = (m * y) % p
      BY <3>1, <3>2, DivideIs
    <3> QED BY <3>1, <3>3 DEF RestOf
  <2>2. [j \in base |-> divided[j].quotient] = [j \in base |-> (m * t[j]) \div P[j]]
    BY <2>1
  <2>3. [j \in base |-> Fraction(divided[j].remainder, P[j])]
          = [j \in base |-> Fraction(e[j], P[j])]
    BY <2>1
  <2>4. W = Total([j \in base |-> divided[j].quotient])
    BY <2>2 DEF WholeOf
  <2>5. F = Total([j \in base |-> Fraction(divided[j].remainder, P[j])])
    BY <2>3 DEF FractionSum
  <2>6. RoundFraction(base, t, al, m)
          = RoundedFrom(Total([j \in base |-> divided[j].quotient]),
                        Total([j \in base |-> Fraction(divided[j].remainder, P[j])]),
                        n, A, H, m, al)
    BY Zenon DEF RoundFraction, RoundedFrom
  <2>7. RoundFraction(base, t, al, m) = RoundedFrom(W, F, n, A, H, m, al)
    BY <2>4, <2>5, <2>6
  <2> HIDE DEF W, F, n, A, H
  <2> QED BY <2>7, Zenon DEF RoundedFrom
<1> HIDE DEF A, H, n, e, W, F, G, low, high
<1>7. /\ low \in Nat
      /\ Certified(IF low # high /\ 2 * G >= H * (2 * low + 2 - 1) THEN low + 1 ELSE low, 1, G, H)
  <2>1. /\ low = (F + HalfBase) \div B /\ high = (F + n + HalfBase) \div B
        /\ HalfBase = 1 * HalfBase /\ n \in Int /\ n < B
    BY <1>1, <1>2, <1>3 DEF low, high
  <2>2. 1 \in {0, 1} /\ HalfBase \in Int
    BY <1>3
  <2> QED BY <1>2, <1>5, <2>1, <2>2, Rounding
<1> DEFINE u == IF low # high /\ 2 * G >= H * (2 * low + 2 - 1) THEN low + 1 ELSE low
<1>8. u \in Int /\ low <= u /\ Certified(u, 1, G, H)
  BY <1>7
<1>9. W * H \in Int /\ G = m * A - W * H /\ m * A \in Int
  BY <1>2, <1>4, <1>5
<1>10. 2 * K + 1 < B /\ 0 <= 2 * K + 1 /\ K \in Int
  <2>1. (2 * u - 1) * H <= 2 * G
    BY <1>8 DEF Certified
  <2>2. (2 * low - 1) * H <= (2 * u - 1) * H
    <3>1. PICK x \in Int, y \in Int : x = 2 * low - 1 /\ y = 2 * u - 1 /\ x <= y
      BY <1>7, <1>8
    <3>2. x * H <= y * H
      BY <1>2, <3>1, TimesMonotone
    <3> QED BY <3>1, <3>2
  <2>3. PICK x \in Int : x = 2 * low - 1
    BY <1>7
  <2>4. (2 * W + x) * H = 2 * (W * H) + x * H /\ x * H \in Int
    BY <1>2, <1>4
  <2>5. (2 * W + x) * H <= 2 * (m * A)
    <3>1. (2 * u - 1) * H \in Int
      BY <1>2, <1>8
    <3>2. x * H <= 2 * G
      BY <1>5, <2>1, <2>2, <2>3, <2>4, <3>1
    <3> QED BY <1>5, <1>9, <2>4, <3>2
  <2>6. m * A < m * (8 * H)
    <3>1. n * H <= 8 * H
      BY <1>1, <1>2, TimesMonotone
    <3>2. PICK y \in Int : y = 8 * H /\ A < y
      <4>1. n * H \in Int /\ 8 * H \in Int
        BY <1>2
      <4> QED BY <1>2, <3>1, <4>1
    <3>3. A * m < y * m
      BY <1>2, <3>2, TimesStrict
    <3>4. A * m = m * A /\ y * m = m * y
      BY <1>2
    <3> QED BY <3>2, <3>3, <3>4
  <2>7. 2 * (m * (8 * H)) = (16 * m) * H /\ m * (8 * H) \in Int /\ (16 * m) * H \in Int
    BY <1>2
  <2>8. (2 * W + x) * H < (16 * m) * H
    <3>1. (2 * W + x) * H \in Int
      BY <1>2, <1>4
    <3> QED BY <1>9, <2>5, <2>6, <2>7, <3>1
  <2>9. 2 * W + x < 16 * m
    <3>1. PICK y \in Int, z \in Int : y = 2 * W + x /\ z = 16 * m
      BY <1>4
    <3>2. y < z
      BY <1>2, <2>8, <3>1, TimesCancel
    <3> QED BY <3>1, <3>2
  <2>10. K \in Nat /\ 2 * K + 1 = 2 * W + x + 2
    BY <1>4, <1>7, <2>3
  <2> HIDE DEF K
  <2>11. 2 * K + 1 <= 16 * m + 1
    BY <1>4, <2>9, <2>10
  <2> QED BY <1>3, <2>10, <2>11
<1>11. over <=> 2 * G >= H * (2 * low + 2 - 1)
  <2>1. (2 * K + 1) % B = 2 * K + 1
    <3>1. PICK x \in Int : x = 2 * K + 1 /\ 0 <= x /\ x < B
      BY <1>10
    <3>2. x % B = x
      BY <1>3, <3>1, ModSmall
    <3> QED BY <3>1, <3>2
  <2>2. H * (2 * K + 1) = 2 * (W * H) + H * (2 * low + 2 - 1)
    BY <1>2, <1>4, <1>7
  <2>3. (2 * m) * A = 2 * (m * A)
    BY <1>2
  <2>4. H * (2 * low + 2 - 1) \in Int
    BY <1>2, <1>7
  <2> HIDE DEF K
  <2> QED BY <1>5, <1>9, <2>1, <2>2, <2>3, <2>4
<1> DEFINE s == m * al
           k == (W + u) - s
<1>12. (IF ~(low = high) /\ over THEN K + 1 ELSE K) = W + u
  <2>1. W + (low + 1) = (W + low) + 1
    BY <1>4, <1>7
  <2> HIDE DEF over
  <2> QED BY <1>11, <2>1
<1> HIDE DEF u, over, K
<1>13. s \in Int /\ k \in Int
  BY <1>4, <1>8
<1>14. Certified(k, 1, m * r, H)
  <2>1. al * H \in Int /\ r = A - al * H
    BY <1>2 DEF A, H
  <2>2. m * r = m * A - s * H /\ s * H \in Int
    <3>1. PICK a \in Int : a = al * H
      BY <1>2
    <3>2. m * (A - a) = m * A - m * a
      BY <1>2
    <3>3. m * (al * H) = (m * al) * H
      BY <1>2
    <3>4. m * r = m * (A - a)
      BY <2>1, <3>1
    <3>5. m * a = s * H
      BY <3>1, <3>3
    <3>6. s * H \in Int
      BY <1>2, <1>13
    <3> QED BY <3>2, <3>4, <3>5, <3>6
  <2>3. m * r = (W * H - s * H) + G
    BY <1>5, <1>9, <2>2
  <2>4. (2 * u - 1) * H <= 2 * G /\ 2 * G < (2 * u + 2 - 1) * H
    BY <1>8 DEF Certified
  <2>5. /\ (2 * k - 1) * H = 2 * (W * H) + (2 * u - 1) * H - 2 * (s * H)
        /\ (2 * k + 2 - 1) * H = 2 * (W * H) + (2 * u + 2 - 1) * H - 2 * (s * H)
    <3>1. PICK w \in Int, x \in Int, y \in Int : w = W /\ x = u /\ y = s
      BY <1>4, <1>8, <1>13
    <3>2. /\ (2 * ((w + x) - y) - 1) * H = 2 * (w * H) + (2 * x - 1) * H - 2 * (y * H)
          /\ (2 * ((w + x) - y) + 2 - 1) * H = 2 * (w * H) + (2 * x + 2 - 1) * H - 2 * (y * H)
      BY <1>2
    <3> HIDE DEF s
    <3> QED BY <3>1, <3>2
  <2>6. (2 * u - 1) * H \in Int /\ (2 * u + 2 - 1) * H \in Int
    BY <1>2, <1>8
  <2> HIDE DEF k, s
  <2>7. 2 * (m * r) = 2 * (W * H) - 2 * (s * H) + 2 * G
    BY <1>5, <1>9, <2>2, <2>3
  <2>8. (2 * k - 1) * H <= 2 * (m * r) /\ 2 * (m * r) < (2 * k + 2 - 1) * H
    BY <1>5, <1>9, <2>2, <2>4, <2>5, <2>6, <2>7
  <2> QED BY <2>8 DEF Certified
<1>15. k \in 0 .. m
  <2>1. 0 <= m * r /\ m * r <= m * H /\ m * r \in Int /\ m * H \in Int
    <3>1. r \in Int /\ 0 <= r /\ r <= H
      BY <1>2 DEF H
    <3>2. r * m <= H * m
      BY <1>2, <3>1, TimesMonotone
    <3>3. r * m = m * r /\ H * m = m * H /\ m * r \in Int /\ m * H \in Int
      BY <1>2
    <3>4. 0 <= m * r
      BY <3>1, TimesSign
    <3> QED BY <3>2, <3>3, <3>4
  <2>2. PICK a \in Int, b \in Int : a = 2 * k - 1 /\ b = 2 * k + 2 - 1
    BY <1>13
  <2>3. a * H <= 2 * (m * r) /\ 2 * (m * r) < b * H
    BY <1>14, <2>2 DEF Certified
  <2>4. a * H <= (2 * m) * H /\ 0 * H < b * H
    <3>1. (2 * m) * H = 2 * (m * H) /\ 0 * H = 0 /\ a * H \in Int /\ b * H \in Int
      BY <1>2
    <3> QED BY <2>1, <2>3, <3>1
  <2>5. a <= 2 * m
    <3>1. 2 * m \in Int
      OBVIOUS
    <3> QED BY <1>2, <2>4, <3>1, TimesCancelWeak
  <2>6. 0 < b
    BY <1>2, <2>4, TimesCancel
  <2> HIDE DEF k
  <2> QED BY <1>13, <2>2, <2>5, <2>6
<1>16. RoundFraction(base, t, al, m) = k
  <2>1. RoundFraction(base, t, al, m) = ((W + u) - s) % B
    BY <1>6, <1>12
  <2>2. PICK x \in Int : x = k /\ 0 <= x /\ x < B
    BY <1>3, <1>15
  <2>3. x % B = x
    BY <1>3, <2>2, ModSmall
  <2> QED BY <2>1, <2>2, <2>3
<1>17. (2 * (m * r) + H) \div (2 * H) = k
  <2>1. m * r \in Int
    OBVIOUS
  <2> HIDE DEF k
  <2> QED BY <1>2, <1>13, <1>14, <2>1, RoundedBy
<1> QED BY <1>15, <1>16, <1>17 DEF H

(* The centered representative of a residue modulo H.                      *)
LEMMA CenteredIs ==
  ASSUME NEW H \in Int, H > 0, NEW y \in Int, 2 * y < H, 0 - H < 2 * y
  PROVE  (IF y % H > H \div 2 THEN (y % H) - H ELSE y % H) = y
<1>1. PICK h \in Int : h = H \div 2 /\ 2 * h <= H /\ H < 2 * h + 2
  <2>1. PICK h \in Int, r \in Int : h = H \div 2 /\ H = h * 2 + r /\ 0 <= r /\ r < 2
    <3>1. 2 \in Int /\ 2 > 0
      OBVIOUS
    <3> QED BY <3>1, DivMod
  <2> QED BY <2>1
<1>2. CASE 0 <= y
  <2>1. y % H = y
    BY <1>2, ModSmall
  <2> QED BY <1>1, <2>1
<1>3. CASE y < 0
  <2>1. PICK x \in Int : x = y + H /\ 0 <= x /\ x < H /\ 2 * x > H
    BY <1>3
  <2>2. x % H = x
    BY <2>1, ModSmall
  <2>3. x = 1 * H + y
    BY <2>1
  <2>4. x % H = y % H
    BY <2>3, ModDiffers
  <2> QED BY <1>1, <2>1, <2>2, <2>4
<1> QED BY <1>2, <1>3

(* The terms modulo q, corrected by the number of subtractions.            *)
LEMMA CorrectedSum ==
  ASSUME NEW base, OfBase(base), NEW t, Reduced(base, t), NEW qv \in Int, qv > 0, NEW al \in Int
  PROVE  (Total([j \in base |-> t[j] * (Partial(base, j) % qv)]) - (Product(base) % qv) * al) % qv
           = (Sum(base, t) - al * Product(base)) % qv
<1> DEFINE f == [j \in base |-> t[j] * (Partial(base, j) % qv)]
           g == [j \in base |-> t[j] * Partial(base, j)]
           H == Product(base)
           A == Sum(base, t)
<1>1. base \subseteq 1 .. Len(P)
  BY DEF OfBase
<1>2. H \in Int
  BY ProductPositive
<1>3. ASSUME NEW j \in base
      PROVE  f[j] \in Int /\ g[j] \in Int /\ f[j] % qv = g[j] % qv
  <2>1. PICK y \in Int, c \in Int, d \in Int :
          y = t[j] /\ c = Partial(base, j) /\ d = c % qv
    <3>1. t[j] \in Int
      BY DEF Reduced
    <3>2. Partial(base, j) \in Int
      BY PartialFacts
    <3>3. Partial(base, j) % qv \in Int
      BY <3>2, DivMod
    <3> QED BY <3>1, <3>2, <3>3
  <2>2. f[j] = y * d /\ g[j] = y * c /\ y * d \in Int /\ y * c \in Int
    BY <2>1
  <2>3. (d * y) % qv = (c * y) % qv
    <3>1. ((c % qv) * y) % qv = (c * y) % qv
      BY ModTimes
    <3> QED BY <2>1, <3>1
  <2>4. d * y = y * d /\ c * y = y * c
    OBVIOUS
  <2> HIDE DEF f, g
  <2> QED BY <2>2, <2>3, <2>4
<1>4. \A j : /\ Entry(f, j) = IF j \in base THEN f[j] ELSE 0
             /\ Entry(g, j) = IF j \in base THEN g[j] ELSE 0
  BY DEF Entry
<1>5. A = Total(g)
  BY DEF Sum
<1> HIDE DEF f, g, H, A
<1>6. Numbers(f) /\ Numbers(g) /\ SameEntries(f, g, qv)
  BY <1>3, <1>4 DEF Numbers, SameEntries
<1>7. Total(f) \in Int /\ A \in Int /\ Total(f) % qv = A % qv
  BY <1>5, <1>6, TotalMod
<1>8. PICK u \in Int : Total(f) - A = u * qv
  <2>1. Multiple(Total(f) - A, qv)
    BY <1>7, SameMod
  <2> QED BY <2>1 DEF Multiple
<1>9. PICK v \in Int, m \in Int : m = H % qv /\ H = v * qv + m
  BY <1>2, DivMod
<1>10. PICK T \in Int, a \in Int, N \in Int : T = Total(f) /\ a = A /\ N = H
  BY <1>2, <1>7
<1>11. T - m * al = (u + v * al) * qv + (a - al * N)
  <2>1. T = a + u * qv /\ m = N - v * qv
    <3>1. u * qv \in Int /\ v * qv \in Int
      OBVIOUS
    <3> QED BY <1>8, <1>9, <1>10, <3>1
  <2>2. (a + u * qv) - (N - v * qv) * al = (u + v * al) * qv + (a - al * N)
    OBVIOUS
  <2> QED BY <2>1, <2>2
<1>12. PICK x \in Int, y \in Int, w \in Int : x = T - m * al /\ y = a - al * N /\ w = u + v * al
  OBVIOUS
<1>13. x = w * qv + y
  BY <1>11, <1>12
<1>14. x % qv = y % qv
  <2>1. (y + w * qv) % qv = y % qv
    BY ModShift
  <2>2. y + w * qv = w * qv + y
    OBVIOUS
  <2> QED BY <1>13, <2>1, <2>2
<1> QED BY <1>9, <1>10, <1>12, <1>14 DEF f, A, H

(* A ring whose q is no product of primes decodes exactly.                 *)
LEMMA DecodeIs ==
  ASSUME NEW base, OfBase(base), base # {}, NEW y \in Int,
         2 * y < Product(base), 0 - Product(base) < 2 * y, NEW qv \in Int, qv > 0
  PROVE  DecodeModQ(base, ResidueOf(base, y), qv) = y % qv
<1> DEFINE e == ResidueOf(base, y)
           t == Terms(base, e)
           H == Product(base)
           A == Sum(base, t)
           F == FractionSum(base, t)
           n == Cardinality(base)
           low == (F + B \div 2) \div B
           high == (F + n + B \div 2) \div B
           R == Restored(base, e)
           T == Total([j \in base |-> t[j] * (Partial(base, j) % qv)])
<1>1. Reduced(base, t)
  <2>1. ASSUME NEW j \in base PROVE t[j] \in Nat /\ t[j] < P[j]
    <3>1. t[j] \in Nat /\ t[j] \in 0 .. P[j] - 1
      BY TermsAre
    <3>2. P[j] \in Nat
      BY BasePrime
    <3> HIDE DEF t
    <3> QED BY <3>1, <3>2
  <2> QED BY <2>1 DEF Reduced
<1>2. H \in Int /\ H > 0
  BY ProductPositive
<1>3. DecodeModQ(base, e, qv)
        = (IF low = high THEN T - (H % qv) * low
           ELSE IF R % H > H \div 2 THEN (R % H) - H ELSE R % H) % qv
  BY Zenon DEF DecodeModQ, Restored
<1>4. /\ F \in Int /\ F >= 0 /\ A \in Int /\ n \in Int /\ n > 0 /\ Encloses(F, n, A, H)
  BY <1>1, FractionBounds
<1>5. A % H = y % H /\ R % H = y % H
  BY SumIsCongruent, RestoredIs
<1>6. (T - (H % qv) * low) % qv = (A - low * H) % qv \/ low \notin Int
  BY <1>1, CorrectedSum
<1> HIDE DEF t, H, A, F, n, low, high, R, T
<1>7. CASE low = high
  <2>1. /\ low = (F + HalfBase) \div B /\ high = (F + n + HalfBase) \div B
        /\ HalfBase = 1 * HalfBase /\ (low # high => n < B)
    BY <1>7, HalfBaseIs DEF low, high, HalfBase
  <2>2. 1 \in {0, 1} /\ HalfBase \in Int
    BY HalfBaseIs
  <2>3. /\ low \in Nat
        /\ Certified(IF low # high /\ 2 * A >= H * (2 * low + 2 - 1) THEN low + 1 ELSE low,
                     1, A, H)
    BY <1>2, <1>4, <2>1, <2>2, Rounding
  <2>4. Certified(low, 1, A, H) /\ low \in Int
    BY <1>7, <2>3
  <2>5. A - low * H = y
    <3>1. 2 * y < H /\ 0 - H < 2 * y
      BY DEF H
    <3> QED BY <1>2, <1>4, <1>5, <2>4, <3>1, CenteredCertified
  <2> QED BY <1>3, <1>6, <1>7, <2>4, <2>5
<1>8. CASE low # high
  <2>1. (IF y % H > H \div 2 THEN (y % H) - H ELSE y % H) = y
    <3>1. 2 * y < H /\ 0 - H < 2 * y
      BY DEF H
    <3> QED BY <1>2, <3>1, CenteredIs
  <2> QED BY <1>3, <1>5, <1>8, <2>1
<1> QED BY <1>7, <1>8

(* The bases of the rescaling.                                             *)
LEMMA QBaseIs == Usable(QBase, 8) /\ QBase \subseteq 1 .. Len(P)
<1>1. ResidueCount \in Nat /\ 1 <= ResidueCount /\ ResidueCount <= 8 /\ ResidueCount <= Len(P)
  BY RescalingAssumption
<1>2. Len(P) \in Nat
  BY PrimesListed
<1>3. Cardinality(QBase) = ResidueCount
  <2>1. 1 \in Int /\ ResidueCount \in Int
    BY <1>1
  <2>2. Cardinality(1 .. ResidueCount)
          = IF 1 > ResidueCount THEN 0 ELSE ResidueCount - 1 + 1
    BY <2>1, FS_Interval
  <2>3. Cardinality(1 .. ResidueCount) = ResidueCount
    BY <1>1, <2>2
  <2> QED BY <2>3 DEF QBase
<1>4. QBase \subseteq 1 .. Len(P) /\ 1 \in QBase
  BY <1>1, <1>2 DEF QBase
<1>5. Coprime(QBase)
  BY CoprimeAssumption DEF Coprime
<1> QED BY <1>1, <1>3, <1>4, <1>5 DEF Usable, OfBase

(* The primes that a ring decodes from.                                    *)
LEMMA SwitchBaseIs == OfBase(1 .. SwitchCount) /\ 1 .. SwitchCount # {}
<1>1. SwitchCount \in 1 .. Len(P) /\ Len(P) \in Nat
  BY RescalingAssumption, PrimesListed
<1>2. 1 .. SwitchCount \subseteq 1 .. Len(P) /\ 1 \in 1 .. SwitchCount
  BY <1>1
<1>3. Coprime(1 .. SwitchCount)
  BY CoprimeAssumption DEF Coprime
<1> QED BY <1>2, <1>3 DEF OfBase

(* Q, and the largest product of a tensor.                                 *)
LEMMA TensorBoundIs == Q \in Int /\ Q > 0 /\ TensorBound \in Nat
<1>1. PICK qv \in Int : qv = Q /\ qv > 0
  BY ProductPositive DEF Q
<1>2. PICK a \in Nat, x \in Nat : a = TensorDegree /\ x = qv - 1
  BY <1>1, RescalingAssumption
<1>3. 2 * a * x * x \in Nat
  <2>1. PICK u \in Nat : u = a * (x * x)
    <3>1. 0 <= x * x /\ x * x \in Int
      BY TimesSign
    <3>2. PICK w \in Int : w = x * x /\ 0 <= w
      BY <3>1
    <3>3. 0 <= a * w /\ a * w \in Int
      BY <3>2, TimesSign
    <3> QED BY <3>2, <3>3
  <2>2. 2 * a * x * x = 2 * (a * (x * x))
    OBVIOUS
  <2> QED BY <2>1, <2>2
<1> QED BY <1>1, <1>2, <1>3 DEF TensorBound

(* The second base exists, has at most 17 primes and is not empty.         *)
LEMMA BBaseIs == Usable(BBase, 17) /\ BBase \subseteq 1 .. Len(P)
<1> DEFINE A == {c \in 1 .. Len(P) : Product(1 .. c) > 2 * TensorBound}
<1>1. ResidueCount \in Nat /\ 1 <= ResidueCount /\ ResidueCount <= Len(P) /\ Len(P) \in Nat
  BY RescalingAssumption, PrimesListed
<1>2. Len(P) \in A /\ A \subseteq 0 .. Len(P)
  BY <1>1, RescalingAssumption
<1>3. Min(A) \in A
  <2> HIDE DEF A
  <2> QED BY <1>1, <1>2, MinExists
<1>4. PrimeCount(TensorBound) \in 1 .. Len(P)
  <2>1. PrimeCount(TensorBound) = Min(A)
    BY DEF PrimeCount
  <2>2. Min(A) \in 1 .. Len(P)
    BY <1>3
  <2> QED BY <2>1, <2>2
<1>5. BBase \subseteq 1 .. Len(P)
  <2>1. PICK c \in Int : c = PrimeCount(TensorBound) /\ c <= Len(P)
    BY <1>1, <1>4
  <2>2. BBase = ResidueCount + 1 .. c
    BY <2>1 DEF BBase
  <2> QED BY <1>1, <2>1, <2>2
<1>6. BBase # {}
  <2>1. SUFFICES ASSUME BBase = {} PROVE FALSE
    OBVIOUS
  <2>2. 1 > 2 * (TensorBound \div Q + 1)
    BY <2>1, EmptyProduct, RescalingAssumption
  <2>3. PICK d \in Int : d = TensorBound \div Q /\ 0 <= d
    <3>1. PICK v \in Int, qv \in Int : v = TensorBound /\ qv = Q /\ qv > 0 /\ 0 <= v
      BY TensorBoundIs
    <3>2. PICK d \in Int, r \in Int : d = v \div qv /\ v = d * qv + r /\ r < qv
      BY <3>1, DivMod
    <3>3. (0 - 1) * qv < d * qv
      <4>1. d * qv \in Int
        OBVIOUS
      <4> QED BY <3>1, <3>2, <4>1
    <3>4. 0 - 1 < d
      BY <3>1, <3>3, TimesCancel
    <3> QED BY <3>1, <3>2, <3>4
  <2> QED BY <2>2, <2>3
<1>7. Coprime(BBase) /\ Cardinality(BBase) <= 17
  BY CoprimeAssumption, RescalingAssumption DEF Coprime
<1> QED BY <1>5, <1>6, <1>7 DEF Usable, OfBase

(* The quotient of a tensor product by Q is centered in the second base.   *)
LEMMA QuotientFits ==
  ASSUME NEW y \in - TensorBound .. TensorBound
  PROVE  /\ y \in Int /\ y \div Q \in Int
         /\ 2 * (y \div Q) < Product(BBase) /\ 0 - Product(BBase) < 2 * (y \div Q)
<1>1. PICK T \in Int, qv \in Int : T = TensorBound /\ qv = Q /\ qv > 0 /\ 0 <= T
  BY TensorBoundIs
<1>2. y \in Int /\ 0 - T <= y /\ y <= T
  BY <1>1
<1>3. PICK d \in Int, s \in Int : d = T \div qv /\ T = d * qv + s /\ 0 <= s /\ s < qv
  BY <1>1, DivMod
<1>4. PICK k \in Int, r \in Int : k = y \div qv /\ y = k * qv + r /\ 0 <= r /\ r < qv
  BY <1>1, <1>2, DivMod
<1>5. PICK H \in Int : H = Product(BBase) /\ H > 2 * (d + 1)
  BY <1>1, <1>3, ProductPositive, RescalingAssumption
<1>6. k * qv \in Int /\ d * qv \in Int
  OBVIOUS
<1>7. k < d + 1
  <2>1. (d + 1) * qv = d * qv + qv
    BY <1>1
  <2>2. PICK e \in Int : e = d + 1
    OBVIOUS
  <2>3. k * qv < e * qv
    BY <1>2, <1>3, <1>4, <1>6, <2>1, <2>2
  <2> QED BY <1>1, <2>2, <2>3, TimesCancel
<1>8. 0 - d - 2 < k
  <2>1. PICK e \in Int : e = 0 - (d + 2)
    OBVIOUS
  <2>2. e * qv = 0 - d * qv - 2 * qv
    <3>1. (0 - (d + 2)) * qv = (0 - d * qv) - 2 * qv
      BY <1>1
    <3> QED BY <1>6, <2>1, <3>1
  <2>3. e * qv < k * qv
    BY <1>1, <1>2, <1>3, <1>4, <1>6, <2>2
  <2>4. e < k
    BY <1>1, <2>3, TimesCancel
  <2> QED BY <2>1, <2>4
<1> QED BY <1>1, <1>2, <1>4, <1>5, <1>7, <1>8

(* Terms are residues.                                                     *)
LEMMA TermsReduced ==
  ASSUME NEW base, OfBase(base), NEW y \in Int
  PROVE  Reduced(base, Terms(base, ResidueOf(base, y)))
<1> DEFINE t == Terms(base, ResidueOf(base, y))
<1>1. ASSUME NEW j \in base PROVE t[j] \in Nat /\ t[j] < P[j]
  <2>1. t[j] \in Nat /\ t[j] \in 0 .. P[j] - 1
    BY TermsAre
  <2>2. P[j] \in Nat
    BY BasePrime
  <2> HIDE DEF t
  <2> QED BY <2>1, <2>2
<1> QED BY <1>1 DEF Reduced

(* What normalize promises of the residues of y.                           *)
Normal(base, t, al, y) ==
  /\ Reduced(base, t) /\ DOMAIN t = base /\ al \in Int /\ 0 <= al /\ al <= Cardinality(base)
  /\ Sum(base, t) \in Int /\ Sum(base, t) - al * Product(base) = y

(* Of the residues of an integer, normalize finds its remainder ...        *)
LEMMA RemainderIs ==
  ASSUME NEW y \in Int
  PROVE  LET t == Terms(QBase, ResidueOf(QBase, y))
         IN  Normal(QBase, t, Alpha(QBase, t, FALSE), y % Q)
<1> DEFINE t == Terms(QBase, ResidueOf(QBase, y))
           al == Alpha(QBase, t, FALSE)
           A == Sum(QBase, t)
           H == Product(QBase)
           n == Cardinality(QBase)
<1> SUFFICES Normal(QBase, t, al, y % Q)
  OBVIOUS
<1>1. OfBase(QBase) /\ QBase # {} /\ n <= 8
  BY QBaseIs DEF Usable
<1>2. Reduced(QBase, t) /\ DOMAIN t = QBase
  BY <1>1, TermsReduced, TermsAre
<1>3. A \in Int /\ H \in Int /\ H > 0 /\ n \in Int /\ A < n * H
  BY <1>1, <1>2, FractionBounds, ProductPositive
<1>4. A % H = y % H
  BY <1>1, SumIsCongruent
<1>5. al \in Nat /\ Certified(al, 0, A, H)
  <2>1. n < B
    BY <1>1, <1>3, HalfBaseIs, BaseFacts
  <2>2. FALSE \in BOOLEAN
    OBVIOUS
  <2>3. al \in Nat /\ Certified(al, IF FALSE THEN 1 ELSE 0, A, H)
    BY <1>1, <1>2, <2>1, <2>2, AlphaIs
  <2>4. (IF FALSE THEN 1 ELSE 0) = 0
    OBVIOUS
  <2> QED BY <2>3, <2>4
<1> HIDE DEF t, al, A, H, n
<1>6. al <= n
  <2>1. 0 \in {0, 1} /\ al \in Int
    BY <1>5
  <2> QED BY <1>3, <1>5, <2>1, AlphaBound
<1>7. A - al * H = A % H
  BY <1>3, <1>5, RemainderCertified
<1> QED BY <1>2, <1>3, <1>4, <1>5, <1>6, <1>7 DEF Normal, A, H, n, Q

(* ... and, centered, the integer itself when it is small.                 *)
LEMMA CenteredRestored ==
  ASSUME NEW base, Usable(base, 17), NEW y \in Int,
         2 * y < Product(base), 0 - Product(base) < 2 * y
  PROVE  LET t == Terms(base, ResidueOf(base, y))
         IN  Normal(base, t, Alpha(base, t, TRUE), y)
<1> DEFINE t == Terms(base, ResidueOf(base, y))
           al == Alpha(base, t, TRUE)
           A == Sum(base, t)
           H == Product(base)
           n == Cardinality(base)
<1> SUFFICES Normal(base, t, al, y)
  OBVIOUS
<1>1. OfBase(base) /\ base # {} /\ n <= 17
  BY DEF Usable
<1>2. Reduced(base, t) /\ DOMAIN t = base
  BY <1>1, TermsReduced, TermsAre
<1>3. A \in Int /\ H \in Int /\ H > 0 /\ n \in Int /\ A < n * H
  BY <1>1, <1>2, FractionBounds, ProductPositive
<1>4. A % H = y % H
  BY <1>1, SumIsCongruent
<1>5. al \in Nat /\ Certified(al, 1, A, H)
  <2>1. n < B
    BY <1>1, <1>3, HalfBaseIs, BaseFacts
  <2>2. TRUE \in BOOLEAN
    OBVIOUS
  <2>3. al \in Nat /\ Certified(al, IF TRUE THEN 1 ELSE 0, A, H)
    BY <1>1, <1>2, <2>1, <2>2, AlphaIs
  <2>4. (IF TRUE THEN 1 ELSE 0) = 1
    OBVIOUS
  <2> QED BY <2>3, <2>4
<1>6. 2 * y < H /\ 0 - H < 2 * y
  OBVIOUS
<1> HIDE DEF t, al, A, H, n
<1>7. al <= n
  <2>1. 1 \in {0, 1} /\ al \in Int
    BY <1>5
  <2> QED BY <1>3, <1>5, <2>1, AlphaBound
<1>8. A - al * H = y
  BY <1>3, <1>4, <1>5, <1>6, CenteredCertified
<1> QED BY <1>2, <1>3, <1>5, <1>7, <1>8 DEF Normal, A, H, n

(* The residue of the quotient by Q.                                       *)
LEMMA QuotientResidue ==
  ASSUME NEW y \in Int, NEW t, NEW al, Normal(QBase, t, al, y % Q), NEW k \in BBase
  PROVE  Multiply(Multiplier(Invert(Q % P[k], P[k]), P[k]),
                  (y % P[k]) + P[k] - Convert(QBase, t, al, k), P[k]) = (y \div Q) % P[k]
<1> DEFINE v == Invert(Q % P[k], P[k])
           c == Convert(QBase, t, al, k)
<1>1. PICK p \in Int : p = P[k] /\ Fits(p) /\ p > 1 /\ p > 0 /\ 16 * p < B
  BY BBaseIs, PrimesListed, FitsFacts
<1>2. PICK qv \in Int, g \in Int, r \in Int :
        qv = Q /\ qv > 0 /\ g = y \div qv /\ r = y % qv /\ y = g * qv + r
  <2>1. PICK qv \in Int : qv = Q /\ qv > 0
    BY TensorBoundIs
  <2> QED BY <2>1, DivMod
<1>3. c \in 0 .. p - 1 /\ c = r % p
  <2>1. k \in 1 .. Len(P) /\ Usable(QBase, 17)
    <3>1. Cardinality(QBase) \in Nat
      BY QBaseIs, TotalOnes
    <3> QED BY <3>1, BBaseIs, QBaseIs DEF Usable
  <2>2. Reduced(QBase, t) /\ al \in Int /\ 0 <= al /\ al <= Cardinality(QBase)
    BY DEF Normal
  <2>3. /\ c \in 0 .. P[k] - 1
        /\ c = (Sum(QBase, t) - al * Product(QBase)) % P[k]
    BY <2>1, <2>2, ConvertIs
  <2>4. Sum(QBase, t) - al * Product(QBase) = r
    BY <1>2 DEF Normal
  <2> QED BY <1>1, <2>3, <2>4
<1>4. v \in 0 .. p - 1 /\ (v * qv) % p = 1
  BY <1>1, <1>2, CoprimeAssumption DEF Undoes
<1> HIDE DEF v, c
<1>5. PICK w \in Int, z \in Int : w = v /\ z = c /\ 0 <= z /\ z < p
  BY <1>1, <1>3, <1>4
<1>6. PICK a \in Int, i \in Int : a = y % p /\ y = i * p + a /\ 0 <= a /\ a < p
  BY <1>1, DivMod
<1>7. PICK e \in Int : r = e * p + z
  <2>1. r = (r \div p) * p + (r % p) /\ r \div p \in Int
    <3>1. p \in Int /\ p > 0
      BY <1>1
    <3> QED BY <3>1, DivMod
  <2>2. r % p = z
    BY <1>3, <1>5
  <2> QED BY <2>1, <2>2
<1>8. PICK x \in Int : x = a + p - z /\ 0 <= x /\ x < B
  <2>1. a + p - z \in Int /\ 0 <= a + p - z /\ a + p - z < 2 * p
    BY <1>5, <1>6
  <2>2. 2 * p < B
    BY <1>1, BaseFacts
  <2> QED BY <2>1, <2>2, BaseFacts
<1>9. Multiply(Multiplier(v, p), x, p) = (x * v) % p
  <2>1. x \in Words
    BY <1>8, BaseFacts DEF Words
  <2> QED BY <1>1, <1>4, <2>1, ProductIsExact
<1>10. PICK u \in Int : x = g * qv + u * p
  <2>1. (1 + e - i) * p = p + e * p - i * p
    OBVIOUS
  <2>2. PICK ep \in Int, ip \in Int, gq \in Int : ep = e * p /\ ip = i * p /\ gq = g * qv
    OBVIOUS
  <2>3. PICK u \in Int : u = 1 + e - i
    OBVIOUS
  <2>4. x = gq + (p + ep - ip)
    <3>1. y = ip + a /\ y = gq + r /\ r = ep + z
      BY <1>2, <1>6, <1>7, <2>2
    <3> QED BY <1>8, <3>1
  <2> QED BY <2>1, <2>2, <2>3, <2>4
<1>11. (x * w) % p = g % p
  <2>1. PICK b \in Int : w * qv = b * p + 1
    <3>1. w * qv \in Int /\ (w * qv) % p = 1 /\ p > 0
      BY <1>1, <1>4, <1>5
    <3>2. PICK m \in Int : m = w * qv
      OBVIOUS
    <3>3. m = (m \div p) * p + (m % p) /\ m \div p \in Int
      BY <1>1, DivMod
    <3> QED BY <3>1, <3>2, <3>3
  <2>2. x * w = g + (g * b + u * w) * p
    <3>1. (g * qv + u * p) * w = g * (w * qv) + (u * w) * p
      OBVIOUS
    <3>2. g * (b * p + 1) + (u * w) * p = g + (g * b + u * w) * p
      OBVIOUS
    <3> QED BY <1>10, <2>1, <3>1, <3>2
  <2>3. PICK h \in Int : h = g * b + u * w
    OBVIOUS
  <2>4. PICK v2 \in Int : v2 = x * w /\ v2 = h * p + g
    <3>1. g + h * p = h * p + g
      OBVIOUS
    <3> QED BY <2>2, <2>3, <3>1
  <2>5. v2 % p = g % p
    <3>1. p \in Int /\ p > 0
      BY <1>1
    <3>2. v2 = h * p + g
      BY <2>4
    <3> QED BY <3>1, <3>2, ModDiffers
  <2> QED BY <2>4, <2>5
<1>12. Multiply(Multiplier(w, p), (y % p) + p - z, p) = g % p
  <2>1. x = (y % p) + p - z
    BY <1>6, <1>8
  <2> QED BY <1>5, <1>9, <1>11, <2>1
<1> QED BY <1>1, <1>2, <1>5, <1>12 DEF v, c

(* The remainder by Q, scaled by m and rounded.                            *)
Scaled(m, y) == (2 * (m * (y % Q)) + Q) \div (2 * Q)

(* Hence the remainder by Q is scaled and rounded exactly.                 *)
LEMMA ScaledRemainder ==
  ASSUME NEW y \in Int, NEW t, NEW al, Normal(QBase, t, al, y % Q), NEW m \in PlainModuli
  PROVE  RoundFraction(QBase, t, al, m) = Scaled(m, y) /\ Scaled(m, y) \in 0 .. m
<1>1. PICK r \in Int : r = y % Q /\ 0 <= r /\ r < Q
  BY TensorBoundIs, DivMod
<1>2. m \in Int /\ 0 < m /\ 16 * m < B
  BY RescalingAssumption
<1>3. Reduced(QBase, t) /\ al \in Int /\ r = Sum(QBase, t) - al * Product(QBase)
  BY <1>1 DEF Normal
<1>4. /\ RoundFraction(QBase, t, al, m) \in 0 .. m
      /\ RoundFraction(QBase, t, al, m)
           = (2 * (m * r) + Product(QBase)) \div (2 * Product(QBase))
  BY <1>1, <1>2, <1>3, QBaseIs, RoundFractionIs DEF Q
<1> QED BY <1>1, <1>4 DEF Scaled, Q

(* The residue of the product, scaled and rounded.                         *)
LEMMA CombinedResidue ==
  ASSUME NEW y \in Int, NEW t, NEW al, Normal(BBase, t, al, y \div Q), NEW m \in PlainModuli,
         Scaled(m, y) \in 0 .. m, NEW j \in QBase
  PROVE  LET new == Below(Multiply(Multiplier(m % P[j], P[j]), Convert(BBase, t, al, j), P[j])
                            + Below(Scaled(m, y), P[j]), P[j])
         IN  new = ((2 * m * y + Q) \div (2 * Q)) % P[j] /\ new \in 0 .. P[j] - 1
<1> DEFINE c == Convert(BBase, t, al, j)
           s == Scaled(m, y)
<1>1. PICK p \in Int : p = P[j] /\ Fits(p) /\ p > 1 /\ p > 0 /\ 16 * p < B /\ 32 * p > B
  BY QBaseIs, PrimesListed, FitsFacts
<1>2. PICK qv \in Int, g \in Int, r \in Int :
        qv = Q /\ qv > 0 /\ g = y \div qv /\ r = y % qv /\ y = g * qv + r /\ 0 <= r /\ r < qv
  <2>1. PICK qv \in Int : qv = Q /\ qv > 0
    BY TensorBoundIs
  <2> QED BY <2>1, DivMod
<1>3. PICK n \in Int : n = m /\ n > 0 /\ 16 * n < B
  BY RescalingAssumption
<1>4. c \in 0 .. p - 1 /\ c = g % p
  <2>1. j \in 1 .. Len(P) /\ Usable(BBase, 17)
    BY BBaseIs, QBaseIs
  <2>2. Reduced(BBase, t) /\ al \in Int /\ 0 <= al /\ al <= Cardinality(BBase)
    BY DEF Normal
  <2>3. /\ c \in 0 .. P[j] - 1
        /\ c = (Sum(BBase, t) - al * Product(BBase)) % P[j]
    BY <2>1, <2>2, ConvertIs
  <2>4. Sum(BBase, t) - al * Product(BBase) = g
    BY <1>2 DEF Normal
  <2> QED BY <1>1, <2>3, <2>4
<1> HIDE DEF c, s
<1>5. PICK z \in Int, x \in Int : z = c /\ 0 <= z /\ z < p /\ x = s /\ 0 <= x /\ x <= n
  BY <1>1, <1>3, <1>4 DEF s
<1>6. PICK v \in Int : v = n % p /\ 0 <= v /\ v < p
  BY <1>1, DivMod
<1>7. Multiply(Multiplier(v, p), z, p) = (z * v) % p
  <2>1. z \in Words /\ v \in 0 .. p - 1
    BY <1>1, <1>5, <1>6, BaseFacts DEF Words
  <2> QED BY <1>1, <2>1, ProductIsExact
<1>8. (z * v) % p = (g * n) % p
  <2>1. z = g % p
    BY <1>4, <1>5
  <2>2. ((g % p) * v) % p = (g * v) % p
    BY <1>1, ModTimes
  <2>3. ((n % p) * g) % p = (n * g) % p
    BY <1>1, ModTimes
  <2>4. g * v = v * g /\ n * g = g * n
    OBVIOUS
  <2> QED BY <1>6, <2>1, <2>2, <2>3, <2>4
<1>9. PICK a \in Int, b \in Int : a = (g * n) % p /\ b = x % p /\ 0 <= a /\ a < p /\ 0 <= b /\ b < p
  <2>1. PICK w \in Int : w = g * n
    OBVIOUS
  <2> QED BY <1>1, <2>1, DivMod
<1>10. Below(x, p) = b
  <2>1. x <= 2 * p - 1
    BY <1>1, <1>3, <1>5, BaseFacts
  <2>2. x \in 0 .. 2 * p - 1
    BY <1>1, <1>5, <2>1
  <2> QED BY <1>1, <1>9, <2>2, BelowIs
<1>11. Below(a + b, p) = (a + b) % p /\ (a + b) % p \in 0 .. p - 1
  <2>1. PICK w \in Int : w = a + b /\ w \in 0 .. 2 * p - 1
    BY <1>1, <1>9
  <2>2. Below(w, p) = w % p
    BY <1>1, <2>1, BelowIs
  <2>3. w % p \in Int /\ 0 <= w % p /\ w % p < p
    BY <1>1, <2>1, DivMod
  <2> QED BY <1>1, <2>1, <2>2, <2>3
<1>12. (a + b) % p = (g * n + x) % p
  <2>1. PICK w \in Int : w = g * n
    OBVIOUS
  <2>2. ((w % p) + b) % p = (w + b) % p
    BY <1>1, ModAdd
  <2>3. ((x % p) + w) % p = (x + w) % p
    BY <1>1, ModAdd
  <2>4. w + b = b + w /\ x + w = w + x
    OBVIOUS
  <2> QED BY <1>9, <2>1, <2>2, <2>3, <2>4
<1>13. (2 * m * y + Q) \div (2 * Q) = g * n + x
  <2>1. PICK d \in Int, u \in Int : d = 2 * qv /\ d > 0 /\ u = 2 * (n * r) + qv
    BY <1>2
  <2>2. x = u \div d
    BY <1>2, <1>3, <1>5, <2>1 DEF s, Scaled
  <2>3. PICK f \in Int : u = x * d + f /\ 0 <= f /\ f < d
    BY <2>1, <2>2, DivMod
  <2>4. 2 * n * (g * qv + r) + qv = (g * n) * (2 * qv) + (2 * (n * r) + qv)
    OBVIOUS
  <2>5. 2 * n * y + qv = (g * n) * d + u
    BY <1>2, <2>1, <2>4
  <2>6. PICK w \in Int, h \in Int : w = g * n /\ h = w + x
    OBVIOUS
  <2>7. w * d + (x * d + f) = h * d + f
    <3>1. w * d + (x * d + f) = (w + x) * d + f
      OBVIOUS
    <3> QED BY <2>6, <3>1
  <2>8. (h * d + f) \div d = h
    BY <2>1, <2>3, DivModUnique
  <2>9. 2 * n * y + qv = h * d + f
    BY <2>3, <2>5, <2>6, <2>7
  <2> QED BY <1>2, <1>3, <2>1, <2>6, <2>8, <2>9
<1> QED BY <1>1, <1>3, <1>5, <1>6, <1>7, <1>8, <1>9, <1>10, <1>11, <1>12, <1>13 DEF c, s

TermsOf(base, y) == Terms(base, ResidueOf(base, y))

(* What each step of the rescaling has made of the value.                  *)
ScaledSoFar ==
  /\ rounded = Scaled(modulus, value) /\ rounded \in 0 .. modulus
  /\ quotient = ResidueOf(BBase, value \div Q)

RescaleInv ==
  /\ step \in {"normalize", "convert", "quotient", "combine", "scaled", "decode", "decoded"}
  /\ value \in Int /\ modulus \in Nat
  /\ step \in {"normalize", "convert", "quotient", "combine", "scaled"} =>
       value \in - TensorBound .. TensorBound /\ modulus \in PlainModuli
  /\ step \in {"decode", "decoded"} =>
       /\ 2 * value < Product(1 .. SwitchCount) /\ 0 - Product(1 .. SwitchCount) < 2 * value
       /\ modulus \in SwitchModuli
  /\ step \in {"normalize", "decode", "decoded"} => terms = <<>>
  /\ step \in {"normalize", "convert", "decode", "decoded"} => quotient = <<>> /\ rounded = 0
  /\ step \in {"convert", "quotient"} => Normal(QBase, terms, alpha, value % Q)
  /\ step \in {"quotient", "combine", "scaled"} => ScaledSoFar
  /\ step \in {"combine", "scaled"} => Normal(BBase, terms, alpha, value \div Q)
  /\ step = "scaled" => \A j \in QBase :
       /\ rescaled[j] = ((2 * modulus * value + Q) \div (2 * Q)) % P[j]
       /\ rescaled[j] \in 0 .. P[j] - 1
  /\ step = "decoded" => rescaled[1] = value % modulus

(* Nothing was computed yet.                                               *)
LEMMA EmptySequence == DOMAIN <<>> = {}
<1>1. <<>> \in Seq(Nat) /\ Len(<<>>) = 0
  OBVIOUS
<1> QED BY <1>1

(* Hence rescaling is exact.                                               *)
LEMMA RescaleExact == RescaleInv => RescalingIsExact
<1> SUFFICES ASSUME RescaleInv PROVE RescalingIsExact
  OBVIOUS
<1>1. /\ step = "convert" => Sum(QBase, terms) - alpha * Q = value % Q
      /\ step = "combine" => Sum(BBase, terms) - alpha * Product(BBase) = value \div Q
  BY DEF RescaleInv, Normal, Q
<1>2. \A j \in DOMAIN terms : terms[j] \in 0 .. P[j] - 1
  <2>1. ASSUME NEW base, base \subseteq 1 .. Len(P), NEW y, Normal(base, terms, alpha, y)
        PROVE  \A j \in DOMAIN terms : terms[j] \in 0 .. P[j] - 1
    <3>1. DOMAIN terms = base /\ \A j \in base : terms[j] \in Nat /\ terms[j] < P[j]
      BY <2>1 DEF Normal, Reduced
    <3>2. \A j \in base : P[j] \in Nat
      BY <2>1, PrimesListed
    <3>3. \A a \in Nat, p \in Nat : a < p => a \in 0 .. p - 1
      OBVIOUS
    <3> QED BY <3>1, <3>2, <3>3
  <2>2. CASE terms = <<>>
    BY <2>2, EmptySequence
  <2>3. CASE Normal(QBase, terms, alpha, value % Q)
    BY <2>1, <2>3, QBaseIs
  <2>4. CASE Normal(BBase, terms, alpha, value \div Q)
    BY <2>1, <2>4, BBaseIs
  <2> QED BY <2>2, <2>3, <2>4 DEF RescaleInv
<1>3. rounded \in 0 .. modulus
  BY DEF RescaleInv, ScaledSoFar
<1>4. \A j \in DOMAIN quotient : quotient[j] \in 0 .. P[j] - 1
  <2>1. CASE quotient = <<>>
    BY <2>1, EmptySequence
  <2>2. CASE quotient = ResidueOf(BBase, value \div Q)
    <3>1. value \in Int
      BY DEF RescaleInv
    <3>2. PICK qv \in Int : qv = Q /\ qv > 0
      BY TensorBoundIs
    <3>3. PICK v \in Int : v = value \div Q
      BY <3>1, <3>2, DivMod
    <3>4. ASSUME NEW j \in BBase PROVE v % P[j] \in 0 .. P[j] - 1
      <4>1. PICK p \in Int : p = P[j] /\ p > 0
        BY BBaseIs, PrimesListed
      <4>2. v % p \in Int /\ 0 <= v % p /\ v % p < p
        BY <4>1, DivMod
      <4> QED BY <4>1, <4>2
    <3> QED BY <2>2, <3>3, <3>4 DEF ResidueOf
  <2> QED BY <2>1, <2>2 DEF RescaleInv, ScaledSoFar
<1>5. RescaleTypeOK
  BY <1>2, <1>3, <1>4 DEF RescaleTypeOK, RescaleInv
<1> QED BY <1>1, <1>5 DEF RescalingIsExact, RescaleInv

(* The integers to be scaled and to be decoded are within their bounds.    *)
LEMMA RescaleStart == RescaleInit => RescaleInv
<1> SUFFICES ASSUME RescaleInit PROVE RescaleInv
  OBVIOUS
<1>1. CASE step = "normalize" /\ value \in Products /\ modulus \in PlainModuli
  <2>1. value \in - TensorBound .. TensorBound
    BY <1>1 DEF Products
  <2>2. value \in Int /\ modulus \in Nat
    BY <1>1, <2>1, QuotientFits, RescalingAssumption
  <2> QED BY <1>1, <2>1, <2>2 DEF RescaleInit, RescaleInv
<1>2. CASE step = "decode" /\ value \in Centered(1 .. SwitchCount) /\ modulus \in SwitchModuli
  <2>1. PICK H \in Int : H = Product(1 .. SwitchCount) /\ H > 0
    BY ProductPositive
  <2>2. PICK h \in Int : h = (H - 1) \div 2 /\ 2 * h <= H - 1
    <3>1. PICK a \in Int : a = H - 1
      OBVIOUS
    <3>2. 2 \in Int /\ 2 > 0
      OBVIOUS
    <3>3. PICK h \in Int, r \in Int : h = a \div 2 /\ a = h * 2 + r /\ 0 <= r
      BY <3>2, DivMod
    <3> QED BY <3>1, <3>3
  <2>3. value \in - h .. h
    BY <1>2, <2>1, <2>2 DEF Centered
  <2>4. value \in Int /\ 0 - h <= value /\ value <= h
    BY <2>3
  <2>5. 2 * value < H /\ 0 - H < 2 * value
    BY <2>2, <2>4
  <2>6. modulus \in Nat
    BY <1>2, RescalingAssumption
  <2> QED BY <1>2, <2>1, <2>4, <2>5, <2>6 DEF RescaleInit, RescaleInv
<1> QED BY <1>1, <1>2 DEF RescaleInit

(* Every step computes what its name says of the value.                    *)
LEMMA RescaleStep == RescaleInv /\ [RescaleNext]_rescaleVars => RescaleInv'
<1> SUFFICES ASSUME RescaleInv, [RescaleNext]_rescaleVars PROVE RescaleInv'
  OBVIOUS
<1>1. value \in Int /\ modulus \in Nat
  BY DEF RescaleInv
<1>2. CASE NormalizeRemainder
  <2>1. Residues(QBase) = ResidueOf(QBase, value)
    BY DEF Residues, ResidueOf
  <2>2. Normal(QBase, terms', alpha', value % Q)
    BY <1>1, <1>2, <2>1, RemainderIs DEF NormalizeRemainder
  <2> QED BY <1>2, <2>2 DEF NormalizeRemainder, RescaleInv
<1>3. CASE ConvertRemainder
  <2>1. Normal(QBase, terms, alpha, value % Q) /\ modulus \in PlainModuli
    BY <1>3 DEF RescaleInv, ConvertRemainder
  <2>2. rounded' = Scaled(modulus, value) /\ rounded' \in 0 .. modulus
    BY <1>1, <1>3, <2>1, ScaledRemainder DEF ConvertRemainder
  <2>3. quotient' = ResidueOf(BBase, value \div Q)
    <3>1. \A k \in BBase :
            Multiply(Multiplier(Invert(Q % P[k], P[k]), P[k]),
                     (value % P[k]) + P[k] - Convert(QBase, terms, alpha, k), P[k])
              = (value \div Q) % P[k]
      BY <1>1, <2>1, QuotientResidue
    <3> QED BY <1>3, <3>1 DEF ConvertRemainder, ResidueOf
  <2>4. ScaledSoFar'
    BY <1>3, <2>2, <2>3 DEF ScaledSoFar, ConvertRemainder, Scaled
  <2> QED BY <1>3, <2>1, <2>4 DEF ConvertRemainder, RescaleInv
<1>4. CASE NormalizeQuotient
  <2>1. value \in - TensorBound .. TensorBound /\ ScaledSoFar
    BY <1>4 DEF RescaleInv, NormalizeQuotient
  <2>2. Normal(BBase, terms', alpha', value \div Q)
    <3>1. Normal(BBase, Terms(BBase, ResidueOf(BBase, value \div Q)),
                 Alpha(BBase, Terms(BBase, ResidueOf(BBase, value \div Q)), TRUE), value \div Q)
      BY <2>1, QuotientFits, BBaseIs, CenteredRestored
    <3> QED BY <1>4, <2>1, <3>1 DEF NormalizeQuotient, ScaledSoFar
  <2>3. ScaledSoFar'
    BY <1>4, <2>1 DEF ScaledSoFar, NormalizeQuotient, Scaled
  <2> QED BY <1>4, <2>2, <2>3 DEF NormalizeQuotient, RescaleInv
<1>5. CASE Combine
  <2>1. /\ Normal(BBase, terms, alpha, value \div Q) /\ modulus \in PlainModuli
        /\ ScaledSoFar
    BY <1>5 DEF RescaleInv, Combine
  <2>2. Scaled(modulus, value) \in 0 .. modulus /\ rounded = Scaled(modulus, value)
    BY <2>1 DEF ScaledSoFar
  <2>3. ASSUME NEW j \in QBase
        PROVE  /\ rescaled'[j] = ((2 * modulus * value + Q) \div (2 * Q)) % P[j]
               /\ rescaled'[j] \in 0 .. P[j] - 1
    <3>1. rescaled'[j]
            = Below(Multiply(Multiplier(modulus % P[j], P[j]),
                             Convert(BBase, terms, alpha, j), P[j])
                      + Below(Scaled(modulus, value), P[j]), P[j])
      BY <1>5, <2>2 DEF Combine
    <3> QED BY <1>1, <2>1, <2>2, <3>1, CombinedResidue
  <2>4. ScaledSoFar'
    BY <1>5, <2>1 DEF ScaledSoFar, Combine, Scaled
  <2> QED BY <1>5, <2>1, <2>3, <2>4 DEF Combine, RescaleInv
<1>6. CASE DecodeCoefficient
  <2>1. /\ 2 * value < Product(1 .. SwitchCount) /\ 0 - Product(1 .. SwitchCount) < 2 * value
        /\ modulus \in Int /\ modulus > 0
    BY <1>6, RescalingAssumption DEF RescaleInv, DecodeCoefficient
  <2>2. Residues(1 .. SwitchCount) = ResidueOf(1 .. SwitchCount, value)
    BY DEF Residues, ResidueOf
  <2>3. DecodeModQ(1 .. SwitchCount, ResidueOf(1 .. SwitchCount, value), modulus)
          = value % modulus
    BY <1>1, <2>1, SwitchBaseIs, DecodeIs
  <2>4. rescaled' = <<value % modulus>>
    BY <1>6, <2>2, <2>3 DEF DecodeCoefficient
  <2>5. rescaled'[1] = value % modulus
    BY <2>4
  <2> QED BY <1>6, <2>5 DEF DecodeCoefficient, RescaleInv
<1>7. CASE UNCHANGED rescaleVars
  BY <1>7 DEF rescaleVars, RescaleInv, ScaledSoFar
<1> QED BY <1>2, <1>3, <1>4, <1>5, <1>6, <1>7 DEF RescaleNext

(* For every word size, list of primes and value within the bounds of a    *)
(* tensor: scaling by t / Q on residues is the rounded quotient of the big *)
(* integers, and a ring whose q is no product of primes decodes its        *)
(* coefficients exactly.                                                   *)
THEOREM Rescaling == RescaleSpec => []RescalingIsExact
<1>1. RescaleSpec => []RescaleInv
  BY RescaleStart, RescaleStep, PTL DEF RescaleSpec
<1> QED BY <1>1, RescaleExact, PTL
=============================================================================
