-------------------------- MODULE TransformProofs --------------------------
(***************************************************************************)
(* The transforms of the native kernels multiply polynomials exactly, for  *)
(* every word size, degree, prime and pair of polynomials: before a pass   *)
(* of blocks of length 2^l a value stands, up to a fixed power of two and  *)
(* the twist, for a coefficient of the polynomial at one of the 2^(l+1)-th *)
(* roots, so each butterfly halves or joins blocks and nothing else; and   *)
(* it is below a bound that the next butterfly, once reduced, keeps.       *)
(***************************************************************************)
EXTENDS RescalingProofs, PrimeTransform

-----------------------------------------------------------------------------

(* Remainders, and powers.                                                 *)

(* Numbers with the same remainder may replace each other in sums and      *)
(* products.                                                               *)
LEMMA RestAdds ==
  ASSUME NEW m \in Int, m > 0, NEW a \in Int, NEW b \in Int, NEW c \in Int, NEW d \in Int,
         SameRest(a, b, m), SameRest(c, d, m)
  PROVE  SameRest(a + c, b + d, m)
<1>1. ASSUME NEW x \in Int, NEW y \in Int, NEW z \in Int, x % m = y % m
      PROVE  (x + z) % m = (y + z) % m
  <2>1. ((x % m) + z) % m = (x + z) % m
    BY ModAdd
  <2>2. ((y % m) + z) % m = (y + z) % m
    BY ModAdd
  <2> QED BY <1>1, <2>1, <2>2
<1>2. (a + c) % m = (b + c) % m
  BY <1>1 DEF SameRest
<1>3. (c + b) % m = (d + b) % m
  BY <1>1 DEF SameRest
<1>4. c + b = b + c /\ d + b = b + d
  OBVIOUS
<1> QED BY <1>2, <1>3, <1>4 DEF SameRest

LEMMA RestTimes ==
  ASSUME NEW m \in Int, m > 0, NEW a \in Int, NEW b \in Int, NEW c \in Int, NEW d \in Int,
         SameRest(a, b, m), SameRest(c, d, m)
  PROVE  SameRest(a * c, b * d, m)
<1>1. ASSUME NEW x \in Int, NEW y \in Int, NEW z \in Int, x % m = y % m
      PROVE  (x * z) % m = (y * z) % m
  <2>1. ((x % m) * z) % m = (x * z) % m
    BY ModTimes
  <2>2. ((y % m) * z) % m = (y * z) % m
    BY ModTimes
  <2> QED BY <1>1, <2>1, <2>2
<1>2. (a * c) % m = (b * c) % m
  BY <1>1 DEF SameRest
<1>3. (c * b) % m = (d * b) % m
  BY <1>1 DEF SameRest
<1>4. c * b = b * c /\ d * b = b * d
  OBVIOUS
<1> QED BY <1>2, <1>3, <1>4 DEF SameRest

LEMMA RestMinus ==
  ASSUME NEW m \in Int, m > 0, NEW a \in Int, NEW b \in Int, NEW c \in Int, NEW d \in Int,
         SameRest(a, b, m), SameRest(c, d, m)
  PROVE  SameRest(a - c, b - d, m)
<1>1. SameRest(-1, -1, m)
  BY DEF SameRest
<1>2. SameRest(c * (-1), d * (-1), m)
  BY <1>1, RestTimes
<1>3. c * (-1) = -c /\ d * (-1) = -d /\ -c \in Int /\ -d \in Int
  OBVIOUS
<1>4. SameRest(a + (-c), b + (-d), m)
  BY <1>2, <1>3, RestAdds
<1>5. a + (-c) = a - c /\ b + (-d) = b - d
  OBVIOUS
<1> QED BY <1>4, <1>5

LEMMA RestIsSame ==
  ASSUME NEW m \in Int, m > 0, NEW a \in Int
  PROVE  SameRest(a % m, a, m) /\ SameRest(a, a, m)
BY ModTwice DEF SameRest

(* A remainder is recognised by its range.                                 *)
LEMMA RestIs ==
  ASSUME NEW m \in Int, m > 0, NEW a \in Int, NEW x \in Int, 0 <= x, x < m, SameRest(x, a, m)
  PROVE  x = a % m
BY ModSmall DEF SameRest

(* Powers.                                                                 *)
PowerSteps(a) == [n \in Nat |-> [x \in Int |-> x * a]]
Powers(a) == CHOOSE f : RunsOn(f, Int, 1, PowerSteps(a))
Raise(a, n) == Powers(a)[n]

LEMMA RaiseIs ==
  ASSUME NEW a \in Int
  PROVE  /\ Raise(a, 0) = 1
         /\ \A n \in Nat : Raise(a, n) \in Int /\ Raise(a, n + 1) = Raise(a, n) * a
<1>1. PowerSteps(a) \in [Nat -> [Int -> Int]] /\ 1 \in Int
  BY DEF PowerSteps
<1>2. \E f : RunsOn(f, Int, 1, PowerSteps(a))
  BY <1>1, NatRecursion
<1>3. RunsOn(Powers(a), Int, 1, PowerSteps(a))
  BY <1>2, Zenon DEF Powers
<1>4. ASSUME NEW n \in Nat PROVE Raise(a, n) \in Int /\ Raise(a, n + 1) = Raise(a, n) * a
  <2>1. PICK f : f = Powers(a)
    OBVIOUS
  <2>2. f \in [Nat -> Int] /\ \A k \in Nat : f[k + 1] = PowerSteps(a)[k + 1][f[k]]
    BY <1>3, <2>1 DEF RunsOn
  <2>3. f[n] \in Int /\ n + 1 \in Nat /\ f[n + 1] = PowerSteps(a)[n + 1][f[n]]
    BY <2>2
  <2>4. PowerSteps(a)[n + 1][f[n]] = f[n] * a
    BY <2>3 DEF PowerSteps
  <2> QED BY <2>1, <2>3, <2>4 DEF Raise
<1> QED BY <1>3, <1>4 DEF RunsOn, Raise

LEMMA RaiseOne == ASSUME NEW a \in Int PROVE Raise(a, 1) = a
<1>1. Raise(a, 0 + 1) = Raise(a, 0) * a /\ Raise(a, 0) = 1
  BY RaiseIs
<1> QED BY <1>1

LEMMA RaiseAdds ==
  ASSUME NEW a \in Int, NEW b \in Nat, NEW c \in Nat
  PROVE  Raise(a, b + c) = Raise(a, b) * Raise(a, c)
<1> DEFINE S == {k \in Nat : Raise(a, b + k) = Raise(a, b) * Raise(a, k)}
<1>1. 0 \in S
  BY RaiseIs
<1>2. ASSUME NEW k \in Nat, k \in S PROVE k + 1 \in S
  <2>1. b + k \in Nat /\ (b + k) + 1 = b + (k + 1)
    OBVIOUS
  <2>2. Raise(a, b + (k + 1)) = Raise(a, b + k) * a /\ Raise(a, k + 1) = Raise(a, k) * a
    BY <2>1, RaiseIs
  <2>3. Raise(a, b + k) = Raise(a, b) * Raise(a, k)
    BY <1>2
  <2>4. PICK x \in Int, y \in Int : x = Raise(a, b) /\ y = Raise(a, k)
    BY RaiseIs
  <2>5. (x * y) * a = x * (y * a)
    OBVIOUS
  <2> QED BY <2>2, <2>3, <2>4, <2>5
<1> HIDE DEF S
<1>3. c \in S
  BY <1>1, <1>2, SetInduction
<1> QED BY <1>3 DEF S

LEMMA RaiseTimes ==
  ASSUME NEW a \in Int, NEW b \in Nat, NEW c \in Nat
  PROVE  Raise(Raise(a, b), c) = Raise(a, b * c)
<1> DEFINE S == {k \in Nat : Raise(Raise(a, b), k) = Raise(a, b * k)}
<1>0. Raise(a, b) \in Int
  BY RaiseIs
<1>1. 0 \in S
  BY <1>0, RaiseIs
<1>2. ASSUME NEW k \in Nat, k \in S PROVE k + 1 \in S
  <2>1. b * k \in Nat /\ b * (k + 1) = b * k + b
    OBVIOUS
  <2>2. Raise(a, b * (k + 1)) = Raise(a, b * k) * Raise(a, b)
    BY <2>1, RaiseAdds
  <2>3. Raise(Raise(a, b), k + 1) = Raise(Raise(a, b), k) * Raise(a, b)
    BY <1>0, RaiseIs
  <2>4. Raise(Raise(a, b), k) = Raise(a, b * k)
    BY <1>2
  <2> QED BY <2>2, <2>3, <2>4
<1> HIDE DEF S
<1>3. c \in S
  BY <1>1, <1>2, SetInduction
<1> QED BY <1>3 DEF S

LEMMA RaiseProduct ==
  ASSUME NEW a \in Int, NEW b \in Int, NEW n \in Nat
  PROVE  Raise(a * b, n) = Raise(a, n) * Raise(b, n)
<1> DEFINE S == {k \in Nat : Raise(a * b, k) = Raise(a, k) * Raise(b, k)}
<1>0. a * b \in Int
  OBVIOUS
<1>1. 0 \in S
  BY <1>0, RaiseIs
<1>2. ASSUME NEW k \in Nat, k \in S PROVE k + 1 \in S
  <2>1. /\ Raise(a * b, k + 1) = Raise(a * b, k) * (a * b)
        /\ Raise(a, k + 1) = Raise(a, k) * a /\ Raise(b, k + 1) = Raise(b, k) * b
    BY <1>0, RaiseIs
  <2>2. Raise(a * b, k) = Raise(a, k) * Raise(b, k)
    BY <1>2
  <2>3. PICK x \in Int, y \in Int : x = Raise(a, k) /\ y = Raise(b, k)
    BY RaiseIs
  <2>4. (x * y) * (a * b) = (x * a) * (y * b)
    OBVIOUS
  <2> QED BY <2>1, <2>2, <2>3, <2>4
<1> HIDE DEF S
<1>3. n \in S
  BY <1>1, <1>2, SetInduction
<1> QED BY <1>3 DEF S

LEMMA RaiseUnit == ASSUME NEW n \in Nat PROVE Raise(1, n) = 1
<1> DEFINE S == {k \in Nat : Raise(1, k) = 1}
<1>1. 0 \in S
  BY RaiseIs
<1>2. ASSUME NEW k \in Nat, k \in S PROVE k + 1 \in S
  BY <1>2, RaiseIs
<1> HIDE DEF S
<1>3. n \in S
  BY <1>1, <1>2, SetInduction
<1> QED BY <1>3 DEF S

LEMMA RaiseRest ==
  ASSUME NEW m \in Int, m > 0, NEW a \in Int, NEW b \in Int, SameRest(a, b, m), NEW n \in Nat
  PROVE  SameRest(Raise(a, n), Raise(b, n), m)
<1> DEFINE S == {k \in Nat : SameRest(Raise(a, k), Raise(b, k), m)}
<1>1. 0 \in S
  BY RaiseIs DEF SameRest
<1>2. ASSUME NEW k \in Nat, k \in S PROVE k + 1 \in S
  <2>1. Raise(a, k) \in Int /\ Raise(b, k) \in Int /\ SameRest(Raise(a, k), Raise(b, k), m)
    BY <1>2, RaiseIs
  <2>2. SameRest(Raise(a, k) * a, Raise(b, k) * b, m)
    BY <2>1, RestTimes
  <2> QED BY <2>2, RaiseIs
<1> HIDE DEF S
<1>3. n \in S
  BY <1>1, <1>2, SetInduction
<1> QED BY <1>3 DEF S

(* power_mod computes powers by squaring.                                  *)
LEMMA PowerModIs ==
  ASSUME NEW m \in Int, m > 1, NEW a \in Int, NEW n \in Nat
  PROVE  /\ PowerMod(a, n, m) = Raise(a, n) % m
         /\ PowerMod(a, n, m) \in Int /\ PowerMod(a, n, m) \in 0 .. m - 1
         /\ SameRest(PowerMod(a, n, m), Raise(a, n), m)
<1> DEFINE By(r) == r = [e \in 0 .. n |->
             IF e = 0 THEN 1
             ELSE LET root == r[e \div 2]
                  IN  (((root * root) % m) * (IF e % 2 = 1 THEN a ELSE 1)) % m]
           g == [e \in 0 .. n |-> Raise(a, e) % m]
           T == CHOOSE r : By(r)
<1>1. ASSUME NEW e \in 1 .. n, NEW x, x = Raise(a, e \div 2) % m
      PROVE  /\ e \div 2 \in 0 .. e - 1
             /\ Raise(a, e) % m = (((x * x) % m) * (IF e % 2 = 1 THEN a ELSE 1)) % m
  <2>1. PICK h \in Int, o \in Int : h = e \div 2 /\ o = e % 2 /\ e = h * 2 + o /\ 0 <= o /\ o < 2
    BY DivMod
  <2>2. h \in Nat /\ o \in Nat /\ e = (h + h) + o /\ h <= e - 1
    BY <2>1
  <2>3. Raise(a, e) = (Raise(a, h) * Raise(a, h)) * Raise(a, o)
    BY <2>2, RaiseAdds
  <2>4. Raise(a, o) = IF o = 1 THEN a ELSE 1
    <3>1. o = 0 \/ o = 1
      BY <2>1
    <3>2. Raise(a, 0) = 1 /\ Raise(a, 1) = a
      BY RaiseOne, RaiseIs
    <3> QED BY <3>1, <3>2
  <2>5. PICK y \in Int : y = Raise(a, h)
    BY <2>2, RaiseIs
  <2>6. x \in Int /\ SameRest(x, y, m)
    BY <1>1, <2>1, <2>5, RestIsSame, DivMod
  <2>7. SameRest(x * x, y * y, m) /\ x * x \in Int /\ y * y \in Int
    <3>1. x \in Int /\ y \in Int /\ m > 0 /\ SameRest(x, y, m)
      BY <2>6
    <3>2. SameRest(x * x, y * y, m)
      BY <3>1, RestTimes
    <3> QED BY <3>1, <3>2
  <2>8. (x * x) % m \in Int /\ SameRest((x * x) % m, y * y, m)
    <3>1. PICK w \in Int : w = x * x
      BY <2>7
    <3>2. SameRest(w % m, w, m)
      BY RestIsSame
    <3>3. w % m \in Int
      BY DivMod
    <3>4. (w % m) % m = w % m /\ w % m = (y * y) % m
      BY <2>7, <3>1, <3>2 DEF SameRest
    <3> QED BY <3>1, <3>3, <3>4 DEF SameRest
  <2>9. PICK z \in Int : z = IF o = 1 THEN a ELSE 1
    OBVIOUS
  <2>10. SameRest(z, z, m)
    BY DEF SameRest
  <2>11. SameRest(((x * x) % m) * z, (y * y) * z, m)
    BY <2>7, <2>8, <2>10, RestTimes
  <2> QED BY <2>1, <2>2, <2>3, <2>4, <2>5, <2>9, <2>11 DEF SameRest
<1>2. By(g)
  <2>1. ASSUME NEW e \in 0 .. n
        PROVE  g[e] = IF e = 0 THEN 1
                      ELSE (((g[e \div 2] * g[e \div 2]) % m) * (IF e % 2 = 1 THEN a ELSE 1)) % m
    <3>1. CASE e = 0
      <4>1. 1 % m = 1
        BY ModSmall
      <4> QED BY <3>1, <4>1, RaiseIs
    <3>2. CASE e # 0
      <4>1. e \in 1 .. n
        BY <3>2
      <4>2. e \div 2 \in 0 .. e - 1
        BY <4>1, <1>1
      <4>3. g[e \div 2] = Raise(a, e \div 2) % m
        BY <4>1, <4>2
      <4> HIDE DEF g
      <4>4. Raise(a, e) % m
              = (((g[e \div 2] * g[e \div 2]) % m) * (IF e % 2 = 1 THEN a ELSE 1)) % m
        BY <4>1, <4>3, <1>1
      <4> USE DEF g
      <4>5. g[e] = Raise(a, e) % m
        OBVIOUS
      <4> HIDE DEF g
      <4> QED BY <3>2, <4>4, <4>5
    <3> QED BY <3>1, <3>2
  <2> QED BY <2>1
<1>3. By(T)
  <2> HIDE DEF By, g
  <2> QED BY <1>2, Zenon
<1>4. PowerMod(a, n, m) = T[n]
  BY Zenon DEF PowerMod
<1> HIDE DEF T
<1> DEFINE S == {e \in 0 .. n : T[e] = Raise(a, e) % m}
<1>5. ASSUME NEW e \in 0 .. n, \A k \in 0 .. e - 1 : k \in S PROVE e \in S
  <2>1. T[e] = IF e = 0 THEN 1
               ELSE (((T[e \div 2] * T[e \div 2]) % m) * (IF e % 2 = 1 THEN a ELSE 1)) % m
    BY <1>3
  <2>2. CASE e = 0
    <3>1. 1 % m = 1
      BY ModSmall
    <3> QED BY <2>1, <2>2, <3>1, RaiseIs
  <2>3. CASE e # 0
    <3>1. e \in 1 .. n
      BY <2>3
    <3>2. e \div 2 \in 0 .. e - 1
      BY <3>1, <1>1
    <3>3. T[e \div 2] = Raise(a, e \div 2) % m
      BY <3>2, <1>5
    <3>4. Raise(a, e) % m
            = (((T[e \div 2] * T[e \div 2]) % m) * (IF e % 2 = 1 THEN a ELSE 1)) % m
      BY <3>1, <3>3, <1>1
    <3> QED BY <2>1, <2>3, <3>4
  <2> QED BY <2>2, <2>3
<1> HIDE DEF S
<1>6. \A e \in 0 .. n : e \in S
  BY <1>5, StrongInduction
<1>7. T[n] = Raise(a, n) % m
  BY <1>6 DEF S
<1>8. Raise(a, n) \in Int
  BY RaiseIs
<1>9. Raise(a, n) % m \in Int /\ 0 <= Raise(a, n) % m /\ Raise(a, n) % m < m
  BY <1>8, DivMod
<1>10. SameRest(Raise(a, n) % m, Raise(a, n), m)
  BY <1>8, RestIsSame
<1> QED BY <1>4, <1>7, <1>9, <1>10

-----------------------------------------------------------------------------

(* Sums.                                                                   *)

(* Sums from the front, of two ranges, and of every other term.            *)
LEMMA SumParts ==
  ASSUME NEW n \in Nat, NEW d \in Nat, NEW f, Integral(f, n + d), NEW g,
         \A i \in 0 .. d - 1 : g[i] = f[n + i]
  PROVE  SumTo(f, n + d) = SumTo(f, n) + SumTo(g, d)
<1> DEFINE S == {k \in Nat : k <= d => SumTo(f, n + k) = SumTo(f, n) + SumTo(g, k)}
<1>0. Integral(g, d)
  <2>1. ASSUME NEW k \in 0 .. d - 1 PROVE g[k] \in Int
    <3>1. n + k \in 0 .. (n + d) - 1 /\ g[k] = f[n + k]
      OBVIOUS
    <3> QED BY <3>1 DEF Integral
  <2> QED BY <2>1 DEF Integral
<1>1. 0 \in S
  <2>1. SumTo(g, 0) = 0
    BY <1>0, SumIs
  <2>2. n + d \in Nat /\ n \in 0 .. n + d
    OBVIOUS
  <2>3. SumTo(f, n) \in Int
    BY <2>2, SumIs
  <2> QED BY <2>1, <2>3
<1>2. ASSUME NEW k \in Nat, k \in S PROVE k + 1 \in S
  <2> SUFFICES ASSUME k + 1 <= d PROVE SumTo(f, n + (k + 1)) = SumTo(f, n) + SumTo(g, k + 1)
    OBVIOUS
  <2>1. /\ n + d \in Nat /\ n + k \in 0 .. (n + d) - 1 /\ k \in 0 .. d - 1 /\ n \in 0 .. n + d
        /\ n + (k + 1) = (n + k) + 1 /\ n + k \in 0 .. n + d /\ k \in 0 .. d
    OBVIOUS
  <2>2. SumTo(f, (n + k) + 1) = SumTo(f, n + k) + f[n + k]
    BY <2>1, SumIs
  <2>3. SumTo(g, k + 1) = SumTo(g, k) + g[k] /\ SumTo(g, k) \in Int
    BY <1>0, <2>1, SumIs
  <2>4. SumTo(f, n) \in Int
    BY <2>1, SumIs
  <2>5. g[k] = f[n + k] /\ g[k] \in Int
    BY <1>0, <2>1 DEF Integral
  <2>6. SumTo(f, n + k) = SumTo(f, n) + SumTo(g, k)
    BY <1>2
  <2> QED BY <2>1, <2>2, <2>3, <2>4, <2>5, <2>6
<1> HIDE DEF S
<1>3. d \in S
  BY <1>1, <1>2, SetInduction
<1> QED BY <1>3 DEF S

LEMMA SumAdds ==
  ASSUME NEW n \in Nat, NEW f, NEW g, NEW h, Integral(f, n), Integral(g, n),
         \A k \in 0 .. n - 1 : h[k] = f[k] + g[k]
  PROVE  SumTo(h, n) = SumTo(f, n) + SumTo(g, n)
<1> DEFINE S == {m \in Nat : m <= n => SumTo(h, m) = SumTo(f, m) + SumTo(g, m)}
<1>0. Integral(h, n)
  BY DEF Integral
<1>1. 0 \in S
  BY <1>0, SumIs
<1>2. ASSUME NEW m \in Nat, m \in S PROVE m + 1 \in S
  <2> SUFFICES ASSUME m + 1 <= n
               PROVE  SumTo(h, m + 1) = SumTo(f, m + 1) + SumTo(g, m + 1)
    OBVIOUS
  <2>1. m \in 0 .. n - 1 /\ m \in 0 .. n
    OBVIOUS
  <2>2. /\ SumTo(f, m) \in Int /\ f[m] \in Int /\ SumTo(f, m + 1) = SumTo(f, m) + f[m]
        /\ SumTo(g, m) \in Int /\ g[m] \in Int /\ SumTo(g, m + 1) = SumTo(g, m) + g[m]
        /\ SumTo(h, m + 1) = SumTo(h, m) + h[m]
    BY <1>0, <2>1, SumIs DEF Integral
  <2> QED BY <1>2, <2>1, <2>2
<1> HIDE DEF S
<1>3. n \in S
  BY <1>1, <1>2, SetInduction
<1> QED BY <1>3 DEF S

LEMMA SumScales ==
  ASSUME NEW n \in Nat, NEW f, NEW h, NEW c \in Int, Integral(f, n),
         \A k \in 0 .. n - 1 : h[k] = c * f[k]
  PROVE  SumTo(h, n) = c * SumTo(f, n)
<1> DEFINE S == {m \in Nat : m <= n => SumTo(h, m) = c * SumTo(f, m)}
<1>0. Integral(h, n)
  BY DEF Integral
<1>1. 0 \in S
  BY <1>0, SumIs
<1>2. ASSUME NEW m \in Nat, m \in S PROVE m + 1 \in S
  <2> SUFFICES ASSUME m + 1 <= n PROVE SumTo(h, m + 1) = c * SumTo(f, m + 1)
    OBVIOUS
  <2>1. m \in 0 .. n - 1 /\ m \in 0 .. n
    OBVIOUS
  <2>2. /\ SumTo(f, m) \in Int /\ f[m] \in Int /\ SumTo(f, m + 1) = SumTo(f, m) + f[m]
        /\ SumTo(h, m + 1) = SumTo(h, m) + h[m]
    BY <1>0, <2>1, SumIs DEF Integral
  <2>3. PICK x \in Int, y \in Int : x = SumTo(f, m) /\ y = f[m]
    BY <2>2
  <2>4. c * (x + y) = c * x + c * y
    OBVIOUS
  <2>5. SumTo(h, m) = c * x /\ h[m] = c * y
    BY <1>2, <2>1, <2>3
  <2> QED BY <2>2, <2>3, <2>4, <2>5
<1> HIDE DEF S
<1>3. n \in S
  BY <1>1, <1>2, SetInduction
<1> QED BY <1>3 DEF S

EveryOther(f, g, h, n) == \A k \in 0 .. n - 1 : g[k] = f[2 * k] /\ h[k] = f[2 * k + 1]

LEMMA SumEveryOther ==
  ASSUME NEW n \in Nat, NEW d \in Nat, d = 2 * n, NEW f, NEW g, NEW h, Integral(f, d),
         EveryOther(f, g, h, n)
  PROVE  SumTo(f, d) = SumTo(g, n) + SumTo(h, n)
<1> DEFINE S == {m \in Nat : m <= n => SumTo(f, 2 * m) = SumTo(g, m) + SumTo(h, m)}
<1>0. /\ Integral(g, n) /\ Integral(h, n)
      /\ \A k \in 0 .. n - 1 : /\ 2 * k \in 0 .. 2 * n - 1 /\ 2 * k + 1 \in 0 .. 2 * n - 1
                               /\ f[2 * k] \in Int /\ f[2 * k + 1] \in Int
  <2>1. \A k \in 0 .. n - 1 : 2 * k \in 0 .. 2 * n - 1 /\ 2 * k + 1 \in 0 .. 2 * n - 1
    OBVIOUS
  <2> QED BY <2>1 DEF Integral, EveryOther
<1>1. 0 \in S
  <2>1. 2 * n \in Nat /\ 2 * 0 = 0
    OBVIOUS
  <2>2. SumTo(f, 0) = 0
    BY <2>1, SumIs
  <2>3. SumTo(g, 0) = 0 /\ SumTo(h, 0) = 0
    BY <1>0, SumIs
  <2> QED BY <2>1, <2>2, <2>3
<1>2. ASSUME NEW m \in Nat, m \in S PROVE m + 1 \in S
  <2> SUFFICES ASSUME m + 1 <= n
               PROVE  SumTo(f, 2 * (m + 1)) = SumTo(g, m + 1) + SumTo(h, m + 1)
    OBVIOUS
  <2>0. m \in 0 .. n - 1 /\ m \in 0 .. n
    OBVIOUS
  <2>01. 2 * n \in Nat /\ 2 * (m + 1) = (2 * m + 1) + 1 /\ 2 * m \in 0 .. 2 * n
    BY <2>0
  <2>1. /\ m \in 0 .. n - 1 /\ m \in 0 .. n /\ 2 * n \in Nat
        /\ 2 * (m + 1) = (2 * m + 1) + 1 /\ 2 * m \in 0 .. 2 * n
    BY <2>0, <2>01
  <2>2. /\ SumTo(g, m) \in Int /\ SumTo(g, m + 1) = SumTo(g, m) + g[m]
        /\ SumTo(h, m) \in Int /\ SumTo(h, m + 1) = SumTo(h, m) + h[m]
    BY <1>0, <2>1, SumIs
  <2>3. /\ SumTo(f, 2 * m + 1) = SumTo(f, 2 * m) + f[2 * m]
        /\ SumTo(f, (2 * m + 1) + 1) = SumTo(f, 2 * m + 1) + f[2 * m + 1]
    BY <1>0, <2>1, SumIs
  <2>4. f[2 * m] \in Int /\ f[2 * m + 1] \in Int /\ g[m] = f[2 * m] /\ h[m] = f[2 * m + 1]
    BY <1>0, <2>1 DEF EveryOther
  <2>5. SumTo(f, 2 * m) = SumTo(g, m) + SumTo(h, m)
    BY <1>2, <2>1
  <2> QED BY <2>1, <2>2, <2>3, <2>4, <2>5
<1> HIDE DEF S
<1>3. n \in S
  BY <1>1, <1>2, SetInduction
<1> QED BY <1>3 DEF S

(* Sums of terms with the same remainders have the same remainder.         *)
LEMMA SumRests ==
  ASSUME NEW m \in Int, m > 0, NEW n \in Nat, NEW f, NEW g, Integral(f, n), Integral(g, n),
         \A k \in 0 .. n - 1 : SameRest(f[k], g[k], m)
  PROVE  SameRest(SumTo(f, n), SumTo(g, n), m)
<1> DEFINE S == {k \in Nat : k <= n => SameRest(SumTo(f, k), SumTo(g, k), m)}
<1>1. 0 \in S
  BY SumIs DEF SameRest
<1>2. ASSUME NEW k \in Nat, k \in S PROVE k + 1 \in S
  <2> SUFFICES ASSUME k + 1 <= n PROVE SameRest(SumTo(f, k + 1), SumTo(g, k + 1), m)
    OBVIOUS
  <2>1. k \in 0 .. n - 1 /\ k \in 0 .. n
    OBVIOUS
  <2>2. /\ SumTo(f, k) \in Int /\ f[k] \in Int /\ SumTo(f, k + 1) = SumTo(f, k) + f[k]
        /\ SumTo(g, k) \in Int /\ g[k] \in Int /\ SumTo(g, k + 1) = SumTo(g, k) + g[k]
    BY <2>1, SumIs DEF Integral
  <2>3. SameRest(SumTo(f, k), SumTo(g, k), m) /\ SameRest(f[k], g[k], m)
    BY <1>2, <2>1
  <2>4. SameRest(SumTo(f, k) + f[k], SumTo(g, k) + g[k], m)
    BY <2>2, <2>3, RestAdds
  <2> QED BY <2>2, <2>4
<1> HIDE DEF S
<1>3. n \in S
  BY <1>1, <1>2, SetInduction
<1> QED BY <1>3 DEF S

(* A double sum in either order.                                           *)
LEMMA SumSwap ==
  ASSUME NEW n \in Nat, NEW d \in Nat, NEW a,
         \A i \in 0 .. n - 1, k \in 0 .. d - 1 : a[i][k] \in Int
  PROVE  /\ SumTo([i \in 0 .. n - 1 |-> SumTo(a[i], d)], n)
              = SumTo([k \in 0 .. d - 1 |-> SumTo([i \in 0 .. n - 1 |-> a[i][k]], n)], d)
         /\ \A i \in 0 .. n - 1 : SumTo(a[i], d) \in Int
         /\ \A k \in 0 .. d - 1 : SumTo([i \in 0 .. n - 1 |-> a[i][k]], n) \in Int
<1> DEFINE row == [i \in 0 .. n - 1 |-> SumTo(a[i], d)]
           col(k) == [i \in 0 .. n - 1 |-> a[i][k]]
           cols(m) == [k \in 0 .. d - 1 |-> SumTo(col(k), m)]
           S == {m \in Nat : m <= n => SumTo(row, m) = SumTo(cols(m), d)}
<1>1. \A i \in 0 .. n - 1 : Integral(a[i], d) /\ SumTo(a[i], d) \in Int
  <2>1. ASSUME NEW i \in 0 .. n - 1 PROVE Integral(a[i], d) /\ SumTo(a[i], d) \in Int
    <3>1. Integral(a[i], d) /\ d \in 0 .. d
      BY DEF Integral
    <3> QED BY <3>1, SumIs
  <2> QED BY <2>1
<1>2. \A k \in 0 .. d - 1 : Integral(col(k), n)
  BY DEF Integral
<1>3. Integral(row, n)
  BY <1>1 DEF Integral
<1>4. \A m \in 0 .. n : Integral(cols(m), d) /\ \A k \in 0 .. d - 1 : cols(m)[k] = SumTo(col(k), m)
  <2> SUFFICES ASSUME NEW m \in 0 .. n PROVE \A k \in 0 .. d - 1 : SumTo(col(k), m) \in Int
    BY DEF Integral
  <2> HIDE DEF col
  <2> QED BY <1>2, SumIs
<1> HIDE DEF cols, row, col
<1>5. 0 \in S
  <2>1. SumTo(row, 0) = 0
    BY <1>3, SumIs
  <2>2. 0 \in 0 .. n /\ 0 \in 0 .. d
    OBVIOUS
  <2>3. \A k \in 0 .. d - 1 : cols(0)[k] = 0
    BY <1>2, <1>4, <2>2, SumIs
  <2>4. SumTo(cols(0), d) = SumTo(cols(0), 0)
    BY <1>4, <2>2, <2>3, SumRest
  <2>5. SumTo(cols(0), 0) = 0
    BY <1>4, <2>2, SumIs
  <2> QED BY <2>1, <2>4, <2>5
<1>6. ASSUME NEW m \in Nat, m \in S PROVE m + 1 \in S
  <2> SUFFICES ASSUME m + 1 <= n PROVE SumTo(row, m + 1) = SumTo(cols(m + 1), d)
    OBVIOUS
  <2>1. m \in 0 .. n - 1 /\ m \in 0 .. n /\ m + 1 \in 0 .. n
    OBVIOUS
  <2>2. SumTo(row, m + 1) = SumTo(row, m) + SumTo(a[m], d)
    <3>1. SumTo(row, m + 1) = SumTo(row, m) + row[m]
      BY <1>3, <2>1, SumIs
    <3> QED BY <2>1, <3>1 DEF row
  <2>3. ASSUME NEW k \in 0 .. d - 1 PROVE cols(m + 1)[k] = cols(m)[k] + a[m][k]
    <3>1. SumTo(col(k), m + 1) = SumTo(col(k), m) + col(k)[m]
      BY <1>2, <2>1, SumIs
    <3>2. col(k)[m] = a[m][k]
      BY <2>1 DEF col
    <3> QED BY <1>4, <2>1, <3>1, <3>2
  <2>4. SumTo(cols(m + 1), d) = SumTo(cols(m), d) + SumTo(a[m], d)
    <3>1. Integral(cols(m), d) /\ Integral(a[m], d)
      BY <1>1, <1>4, <2>1
    <3> QED BY <2>3, <3>1, SumAdds
  <2>5. SumTo(row, m) = SumTo(cols(m), d)
    BY <1>6, <2>1
  <2> QED BY <2>2, <2>4, <2>5
<1> HIDE DEF S
<1>7. n \in S
  BY <1>5, <1>6, SetInduction
<1>8. SumTo(row, n) = SumTo(cols(n), d)
  BY <1>7 DEF S
<1>9. \A k \in 0 .. d - 1 : SumTo(col(k), n) \in Int
  BY <1>4 DEF Integral
<1> QED BY <1>1, <1>8, <1>9 DEF row, cols, col

-----------------------------------------------------------------------------

(* Polynomials: values, and products modulo X^N + 1.                       *)

LEMMA RestChains ==
  ASSUME NEW m, NEW a, NEW b, NEW c, SameRest(a, b, m), SameRest(b, c, m)
  PROVE  SameRest(a, c, m) /\ SameRest(b, a, m)
BY DEF SameRest

(* The value of a polynomial of n coefficients.                            *)
Monomials(f, s, n) == [k \in 0 .. n - 1 |-> f[k] * Raise(s, k)]
Poly(f, s, n) == SumTo(Monomials(f, s, n), n)

LEMMA PolyIs ==
  ASSUME NEW n \in Nat, NEW f, NEW s \in Int, Integral(f, n)
  PROVE  Integral(Monomials(f, s, n), n) /\ Poly(f, s, n) \in Int
<1>1. ASSUME NEW k \in 0 .. n - 1 PROVE Monomials(f, s, n)[k] \in Int
  <2>1. f[k] \in Int
    BY DEF Integral
  <2>2. Raise(s, k) \in Int
    BY RaiseIs
  <2>3. PICK x \in Int, y \in Int : x = f[k] /\ y = Raise(s, k)
    BY <2>1, <2>2
  <2>4. x * y \in Int
    OBVIOUS
  <2> QED BY <2>3, <2>4 DEF Monomials
<1>2. Integral(Monomials(f, s, n), n) /\ n \in 0 .. n
  BY <1>1 DEF Integral
<1>3. SumTo(Monomials(f, s, n), n) \in Int
  BY <1>2, SumIs
<1> QED BY <1>2, <1>3 DEF Poly

LEMMA PolyRests ==
  ASSUME NEW m \in Int, m > 0, NEW n \in Nat, NEW f, NEW g, NEW s \in Int, NEW t \in Int,
         Integral(f, n), Integral(g, n), SameRest(s, t, m),
         \A k \in 0 .. n - 1 : SameRest(f[k], g[k], m)
  PROVE  SameRest(Poly(f, s, n), Poly(g, t, n), m)
<1>1. ASSUME NEW k \in 0 .. n - 1
      PROVE  SameRest(Monomials(f, s, n)[k], Monomials(g, t, n)[k], m)
  <2>0. f[k] \in Int /\ g[k] \in Int /\ SameRest(f[k], g[k], m) /\ k \in Nat
    BY DEF Integral
  <2>1. /\ Raise(s, k) \in Int /\ Raise(t, k) \in Int
        /\ SameRest(Raise(s, k), Raise(t, k), m)
    BY <2>0, RaiseIs, RaiseRest
  <2>2. SameRest(f[k] * Raise(s, k), g[k] * Raise(t, k), m)
    BY <2>0, <2>1, RestTimes
  <2> QED BY <2>2 DEF Monomials
<1>2. Integral(Monomials(f, s, n), n) /\ Integral(Monomials(g, t, n), n)
  BY PolyIs
<1> QED BY <1>1, <1>2, SumRests DEF Poly

(* Multiplication by a power turns the coefficients, where the n-th power  *)
(* is -1.                                                                  *)
Turned(g, i, n) == [k \in 0 .. n - 1 |-> IF i <= k THEN g[k - i] ELSE -g[n + k - i]]

LEMMA TurnedIs ==
  ASSUME NEW n \in Nat, NEW i \in 0 .. n - 1, NEW g, Integral(g, n)
  PROVE  Integral(Turned(g, i, n), n)
<1>1. ASSUME NEW k \in 0 .. n - 1 PROVE Turned(g, i, n)[k] \in Int
  <2>1. CASE i <= k
    <3>1. k - i \in 0 .. n - 1
      BY <2>1
    <3> QED BY <2>1, <3>1 DEF Turned, Integral
  <2>2. CASE ~ i <= k
    <3>1. n + k - i \in 0 .. n - 1
      BY <2>2
    <3>2. g[n + k - i] \in Int
      BY <3>1 DEF Integral
    <3>3. -g[n + k - i] \in Int
      BY <3>2
    <3> QED BY <2>2, <3>3 DEF Turned
  <2> QED BY <2>1, <2>2
<1> QED BY <1>1 DEF Integral

LEMMA PolyTurns ==
  ASSUME NEW m \in Int, m > 0, NEW n \in Nat, NEW i \in 0 .. n - 1, NEW g, Integral(g, n),
         NEW s \in Int, SameRest(Raise(s, n), -1, m)
  PROVE  SameRest(Raise(s, i) * Poly(g, s, n), Poly(Turned(g, i, n), s, n), m)
<1> DEFINE e == n - i
           monomials == Monomials(g, s, n)
           others == Monomials(Turned(g, i, n), s, n)
           high == [u \in 0 .. i - 1 |-> monomials[e + u]]
           tail == [u \in 0 .. e - 1 |-> others[i + u]]
           shifted == [u \in 0 .. i - 1 |-> Raise(s, i) * high[u]]
<1>0. e \in Nat /\ e + i = n /\ i + e = n /\ i \in Nat /\ e \in 0 .. n /\ i \in 0 .. n
  OBVIOUS
<1>1. /\ Integral(monomials, n) /\ Integral(others, n)
      /\ Integral(g, n) /\ Integral(Turned(g, i, n), n)
  BY PolyIs, TurnedIs
<1>2. /\ \A k \in 0 .. n - 1 : monomials[k] = g[k] * Raise(s, k)
      /\ \A k \in 0 .. n - 1 : others[k] = Turned(g, i, n)[k] * Raise(s, k)
  BY DEF Monomials
<1>3. PICK r \in Int : r = Raise(s, i)
  BY RaiseIs
<1> HIDE DEF monomials, others
<1>4. Integral(monomials, e) /\ Integral(others, i) /\ Integral(high, i) /\ Integral(tail, e)
  <2>1. \A k \in 0 .. e - 1 : k \in 0 .. n - 1 /\ i + k \in 0 .. n - 1
    BY <1>0
  <2>2. \A k \in 0 .. i - 1 : k \in 0 .. n - 1 /\ e + k \in 0 .. n - 1
    BY <1>0
  <2> HIDE DEF e
  <2> QED BY <1>1, <2>1, <2>2 DEF Integral
<1>5. Poly(g, s, n) = SumTo(monomials, e) + SumTo(high, i)
  <2>1. Integral(monomials, e + i) /\ \A u \in 0 .. i - 1 : high[u] = monomials[e + u]
    BY <1>0, <1>1
  <2> HIDE DEF high, e
  <2>2. SumTo(monomials, e + i) = SumTo(monomials, e) + SumTo(high, i)
    BY <1>0, <2>1, SumParts
  <2> QED BY <1>0, <2>2 DEF Poly, monomials
<1>6. Poly(Turned(g, i, n), s, n) = SumTo(others, i) + SumTo(tail, e)
  <2>1. Integral(others, i + e) /\ \A u \in 0 .. e - 1 : tail[u] = others[i + u]
    BY <1>0, <1>1
  <2> HIDE DEF tail, e
  <2>2. SumTo(others, i + e) = SumTo(others, i) + SumTo(tail, e)
    BY <1>0, <2>1, SumParts
  <2> QED BY <1>0, <2>2 DEF Poly, others
<1>7. SumTo(tail, e) = r * SumTo(monomials, e)
  <2>1. ASSUME NEW u \in 0 .. e - 1 PROVE tail[u] = r * monomials[u]
    <3>1. u \in 0 .. n - 1 /\ i + u \in 0 .. n - 1 /\ i <= i + u /\ (i + u) - i = u /\ u \in Nat
      BY <1>0
    <3>2. tail[u] = Turned(g, i, n)[i + u] * Raise(s, i + u)
      BY <1>2, <3>1
    <3>3. Turned(g, i, n)[i + u] = g[u]
      BY <3>1 DEF Turned
    <3>4. Raise(s, i + u) = r * Raise(s, u)
      BY <1>0, <1>3, <3>1, RaiseAdds
    <3>5. PICK x \in Int, y \in Int : x = g[u] /\ y = Raise(s, u)
      BY <1>1, <3>1, RaiseIs DEF Integral
    <3>6. monomials[u] = x * y
      BY <1>2, <3>1, <3>5
    <3>7. x * (r * y) = r * (x * y)
      OBVIOUS
    <3> QED BY <3>2, <3>3, <3>4, <3>5, <3>6, <3>7
  <2> HIDE DEF tail, e
  <2> QED BY <1>0, <1>4, <2>1, SumScales
<1>8. Integral(shifted, i) /\ SumTo(shifted, i) = r * SumTo(high, i)
  <2>1. \A u \in 0 .. i - 1 : shifted[u] = r * high[u]
    BY <1>3
  <2>2. Integral(shifted, i)
    <3> SUFFICES ASSUME NEW u \in 0 .. i - 1 PROVE shifted[u] \in Int
      BY DEF Integral
    <3>1. PICK x \in Int : x = high[u]
      BY <1>4 DEF Integral
    <3>2. r * x \in Int
      OBVIOUS
    <3> QED BY <2>1, <3>1, <3>2
  <2> HIDE DEF shifted, high
  <2> QED BY <1>0, <1>4, <2>1, <2>2, SumScales
<1>9. SameRest(SumTo(shifted, i), SumTo(others, i), m)
  <2>1. ASSUME NEW u \in 0 .. i - 1 PROVE SameRest(shifted[u], others[u], m)
    <3>1. /\ u \in 0 .. n - 1 /\ e + u \in 0 .. n - 1 /\ ~ i <= u /\ n + u - i = e + u
          /\ u \in Nat /\ e + u \in Nat /\ i + (e + u) = n + u
      BY <1>0
    <3>2. shifted[u] = r * (g[e + u] * Raise(s, e + u))
      BY <1>2, <1>3, <3>1
    <3>3. others[u] = (-g[e + u]) * Raise(s, u)
      <4>1. Turned(g, i, n)[u] = -g[n + u - i]
        BY <3>1 DEF Turned
      <4> HIDE DEF e
      <4> QED BY <1>2, <3>1, <4>1
    <3>4. r * Raise(s, e + u) = Raise(s, n) * Raise(s, u)
      <4>1. Raise(s, i + (e + u)) = r * Raise(s, e + u)
        BY <1>0, <1>3, <3>1, RaiseAdds
      <4>2. Raise(s, n + u) = Raise(s, n) * Raise(s, u)
        BY <3>1, RaiseAdds
      <4> QED BY <3>1, <4>1, <4>2
    <3>5. PICK x \in Int, y \in Int, z \in Int, w \in Int :
            x = g[e + u] /\ y = Raise(s, e + u) /\ z = Raise(s, u) /\ w = Raise(s, n)
      BY <1>1, <3>1, RaiseIs DEF Integral
    <3>6. SameRest(w, -1, m) /\ SameRest(x * z, x * z, m) /\ x * z \in Int
      BY <3>5 DEF SameRest
    <3>7. SameRest(w * (x * z), (-1) * (x * z), m)
      BY <3>6, RestTimes
    <3>8. r * (x * y) = (r * y) * x /\ (w * z) * x = w * (x * z)
          /\ (-x) * z = (-1) * (x * z)
      OBVIOUS
    <3>9. shifted[u] = r * (x * y) /\ others[u] = (-x) * z /\ r * y = w * z
      <4> HIDE DEF shifted, others, e
      <4> QED BY <3>2, <3>3, <3>4, <3>5
    <3> HIDE DEF shifted, others
    <3> QED BY <3>7, <3>8, <3>9
  <2> HIDE DEF shifted
  <2> QED BY <1>0, <1>4, <1>8, <2>1, SumRests
<1>10. /\ SumTo(monomials, e) \in Int /\ SumTo(high, i) \in Int /\ SumTo(others, i) \in Int
       /\ SumTo(shifted, i) \in Int
  <2> HIDE DEF shifted, high, e
  <2>1. e \in 0 .. e /\ i \in 0 .. i
    BY <1>0
  <2> QED BY <1>0, <1>4, <1>8, <2>1, SumIs
<1> HIDE DEF shifted, high, tail, e
<1>11. PICK x \in Int, y \in Int, z \in Int :
         x = SumTo(monomials, e) /\ y = SumTo(high, i) /\ z = SumTo(others, i)
  BY <1>10
<1>12. r * (x + y) = r * x + r * y /\ r * x \in Int /\ r * y \in Int /\ z + r * x = r * x + z
  OBVIOUS
<1>13. SameRest(r * y, z, m) /\ SameRest(r * x, r * x, m)
  BY <1>8, <1>9, <1>11 DEF SameRest
<1>14. SameRest(r * x + r * y, r * x + z, m)
  BY <1>12, <1>13, RestAdds
<1> QED BY <1>3, <1>5, <1>6, <1>7, <1>11, <1>12, <1>14

(* The product modulo X^n + 1.                                             *)
Wrapped(f, g, n, k) ==
  [i \in 0 .. n - 1 |-> IF i <= k THEN f[i] * g[k - i] ELSE - (f[i] * g[n + k - i])]
RingProduct(f, g, n) == [k \in 0 .. n - 1 |-> SumTo(Wrapped(f, g, n, k), n)]

LEMMA WrappedTerm ==
  ASSUME NEW n \in Nat, NEW f, NEW g, Integral(f, n), Integral(g, n),
         NEW i \in 0 .. n - 1, NEW k \in 0 .. n - 1
  PROVE  /\ Wrapped(f, g, n, k)[i] = f[i] * Turned(g, i, n)[k]
         /\ Wrapped(f, g, n, k)[i] \in Int
<1>1. Wrapped(f, g, n, k)[i] = IF i <= k THEN f[i] * g[k - i] ELSE - (f[i] * g[n + k - i])
  BY DEF Wrapped
<1>2. Turned(g, i, n)[k] = IF i <= k THEN g[k - i] ELSE -g[n + k - i]
  BY DEF Turned
<1>3. CASE i <= k
  <2>1. k - i \in 0 .. n - 1
    BY <1>3
  <2>2. PICK x \in Int, y \in Int : x = f[i] /\ y = g[k - i]
    BY <2>1 DEF Integral
  <2>3. x * y \in Int
    OBVIOUS
  <2> QED BY <1>1, <1>2, <1>3, <2>2, <2>3
<1>4. CASE ~ i <= k
  <2>1. n + k - i \in 0 .. n - 1
    BY <1>4
  <2>2. PICK x \in Int, y \in Int : x = f[i] /\ y = g[n + k - i]
    BY <2>1 DEF Integral
  <2>3. -(x * y) \in Int /\ x * (-y) = -(x * y)
    OBVIOUS
  <2> QED BY <1>1, <1>2, <1>4, <2>2, <2>3
<1> QED BY <1>3, <1>4

LEMMA WrappedIs ==
  ASSUME NEW n \in Nat, NEW f, NEW g, Integral(f, n), Integral(g, n)
  PROVE  /\ \A k \in 0 .. n - 1 : Integral(Wrapped(f, g, n, k), n)
         /\ Integral(RingProduct(f, g, n), n)
<1>1. ASSUME NEW i \in 0 .. n - 1, NEW k \in 0 .. n - 1 PROVE Wrapped(f, g, n, k)[i] \in Int
  BY WrappedTerm
<1>2. \A k \in 0 .. n - 1 : Integral(Wrapped(f, g, n, k), n)
  BY <1>1 DEF Integral
<1>3. ASSUME NEW k \in 0 .. n - 1 PROVE RingProduct(f, g, n)[k] \in Int
  <2>1. SumTo(Wrapped(f, g, n, k), n) \in Int
    BY <1>2, SumIs
  <2> QED BY <2>1 DEF RingProduct
<1> QED BY <1>1, <1>2, <1>3 DEF Integral

LEMMA PolyProducts ==
  ASSUME NEW m \in Int, m > 0, NEW n \in Nat, NEW f, NEW g, Integral(f, n), Integral(g, n),
         NEW s \in Int, SameRest(Raise(s, n), -1, m)
  PROVE  SameRest(Poly(f, s, n) * Poly(g, s, n), Poly(RingProduct(f, g, n), s, n), m)
<1> DEFINE a == [i \in 0 .. n - 1 |-> [k \in 0 .. n - 1 |-> f[i] * (Turned(g, i, n)[k] * Raise(s, k))]]
           rows == [i \in 0 .. n - 1 |-> SumTo(a[i], n)]
           cols == [k \in 0 .. n - 1 |-> SumTo([i \in 0 .. n - 1 |-> a[i][k]], n)]
           monomials == [i \in 0 .. n - 1 |-> Poly(g, s, n) * Monomials(f, s, n)[i]]
<1>1. PICK v \in Int : v = Poly(g, s, n)
  BY PolyIs
<1>2. Integral(Monomials(f, s, n), n)
  BY PolyIs
<1>3. SumTo(monomials, n) = v * Poly(f, s, n) /\ Integral(monomials, n)
  <2>1. \A i \in 0 .. n - 1 : monomials[i] = v * Monomials(f, s, n)[i]
    BY <1>1
  <2>2. ASSUME NEW i \in 0 .. n - 1 PROVE monomials[i] \in Int
    <3>1. PICK x \in Int : x = Monomials(f, s, n)[i]
      BY <1>2 DEF Integral
    <3>2. v * x \in Int
      OBVIOUS
    <3> QED BY <2>1, <3>1, <3>2
  <2> HIDE DEF monomials
  <2> QED BY <1>2, <2>1, <2>2, SumScales DEF Poly, Integral
<1>4. ASSUME NEW i \in 0 .. n - 1, NEW k \in 0 .. n - 1
      PROVE  /\ Turned(g, i, n)[k] \in Int /\ f[i] \in Int /\ Raise(s, k) \in Int
             /\ Wrapped(f, g, n, k)[i] = f[i] * Turned(g, i, n)[k]
             /\ a[i][k] \in Int /\ a[i][k] = f[i] * Monomials(Turned(g, i, n), s, n)[k]
             /\ a[i][k] = Raise(s, k) * Wrapped(f, g, n, k)[i]
  <2>0. f[i] \in Int /\ k \in Nat
    BY DEF Integral
  <2>01. Integral(Turned(g, i, n), n)
    BY TurnedIs
  <2>02. Turned(g, i, n)[k] \in Int
    BY <2>01 DEF Integral
  <2>03. Raise(s, k) \in Int
    BY <2>0, RaiseIs
  <2>1. PICK x \in Int, y \in Int, z \in Int : x = f[i] /\ y = Turned(g, i, n)[k] /\ z = Raise(s, k)
    BY <2>0, <2>02, <2>03
  <2>2. x * (y * z) \in Int /\ x * (y * z) = z * (x * y)
    OBVIOUS
  <2>3. Wrapped(f, g, n, k)[i] = x * y
    <3>2. Wrapped(f, g, n, k)[i] = f[i] * Turned(g, i, n)[k]
      BY WrappedTerm
    <3> QED BY <2>1, <3>2
  <2>4. a[i][k] = x * (y * z) /\ Monomials(Turned(g, i, n), s, n)[k] = y * z
    BY <2>1 DEF Monomials
  <2> HIDE DEF a
  <2> QED BY <2>1, <2>2, <2>3, <2>4
<1> HIDE DEF a
<1>5. ASSUME NEW i \in 0 .. n - 1 PROVE a[i] = [k \in 0 .. n - 1 |-> a[i][k]]
  BY DEF a
<1>6. SumTo(rows, n) = SumTo(cols, n) /\ Integral(rows, n) /\ Integral(cols, n)
  <2>1. \A i \in 0 .. n - 1, k \in 0 .. n - 1 : a[i][k] \in Int
    BY <1>4
  <2> QED BY <2>1, SumSwap DEF Integral
<1>7. ASSUME NEW i \in 0 .. n - 1 PROVE SameRest(monomials[i], rows[i], m)
  <2>1. PICK x \in Int, y \in Int, w \in Int :
          x = f[i] /\ y = Raise(s, i) /\ w = Poly(Turned(g, i, n), s, n)
    <3>1. f[i] \in Int /\ i \in Nat
      BY DEF Integral
    <3>2. Raise(s, i) \in Int
      BY <3>1, RaiseIs
    <3>3. Integral(Turned(g, i, n), n)
      BY TurnedIs
    <3>4. Poly(Turned(g, i, n), s, n) \in Int
      BY <3>3, PolyIs
    <3> QED BY <3>1, <3>2, <3>4
  <2>2. SameRest(y * v, w, m) /\ SameRest(x, x, m) /\ y * v \in Int
    <3>1. SameRest(Raise(s, i) * Poly(g, s, n), Poly(Turned(g, i, n), s, n), m)
      BY PolyTurns
    <3>2. y * v \in Int
      OBVIOUS
    <3>3. SameRest(x, x, m)
      BY DEF SameRest
    <3> QED BY <1>1, <2>1, <3>1, <3>2, <3>3
  <2>3. SameRest(x * (y * v), x * w, m)
    BY <2>2, RestTimes
  <2>4. monomials[i] = v * (x * y)
    BY <1>1, <2>1 DEF Monomials
  <2>5. v * (x * y) = x * (y * v)
    OBVIOUS
  <2>6. SumTo(a[i], n) = x * w
    <3>1. Integral(Monomials(Turned(g, i, n), s, n), n)
      BY TurnedIs, PolyIs
    <3>2. \A k \in 0 .. n - 1 : a[i][k] = x * Monomials(Turned(g, i, n), s, n)[k]
      BY <1>4, <2>1
    <3>3. SumTo(a[i], n) = x * SumTo(Monomials(Turned(g, i, n), s, n), n)
      BY <3>1, <3>2, SumScales
    <3> QED BY <2>1, <3>3 DEF Poly
  <2> QED BY <2>3, <2>4, <2>5, <2>6
<1>8. SameRest(SumTo(monomials, n), SumTo(rows, n), m)
  <2> HIDE DEF monomials, rows
  <2> QED BY <1>3, <1>6, <1>7, SumRests
<1>9. SumTo(cols, n) = Poly(RingProduct(f, g, n), s, n)
  <2>1. ASSUME NEW k \in 0 .. n - 1 PROVE Monomials(RingProduct(f, g, n), s, n)[k] = cols[k]
    <3> DEFINE col == [i \in 0 .. n - 1 |-> a[i][k]]
    <3>1. PICK z \in Int : z = Raise(s, k)
      BY RaiseIs
    <3>2. Integral(Wrapped(f, g, n, k), n) /\ \A i \in 0 .. n - 1 : col[i] = z * Wrapped(f, g, n, k)[i]
      BY <1>4, <3>1, WrappedIs
    <3> HIDE DEF col
    <3>3. SumTo(col, n) = z * SumTo(Wrapped(f, g, n, k), n)
      BY <3>2, SumScales
    <3>4. RingProduct(f, g, n)[k] = SumTo(Wrapped(f, g, n, k), n) /\ RingProduct(f, g, n)[k] \in Int
      BY WrappedIs DEF RingProduct, Integral
    <3>5. PICK x \in Int : x = RingProduct(f, g, n)[k]
      BY <3>4
    <3>6. x * z = z * x
      OBVIOUS
    <3>7. Monomials(RingProduct(f, g, n), s, n)[k] = x * z
      BY <3>1, <3>5 DEF Monomials
    <3>8. cols[k] = SumTo(col, n)
      BY DEF col
    <3> QED BY <3>3, <3>4, <3>5, <3>6, <3>7, <3>8
  <2> HIDE DEF cols
  <2>2. SumTo(Monomials(RingProduct(f, g, n), s, n), n) = SumTo(cols, n)
    BY <1>6, <2>1, SumSame
  <2> QED BY <2>2 DEF Poly
<1>10. PICK w \in Int : w = Poly(f, s, n)
  BY PolyIs
<1>11. v * w = w * v
  OBVIOUS
<1> HIDE DEF monomials, rows, cols
<1> QED BY <1>1, <1>3, <1>6, <1>8, <1>9, <1>10, <1>11

-----------------------------------------------------------------------------

(* Powers of two, and the reversal of bits.                                *)

(* The degree of the ring, and what a power of two leaves of it.           *)
LEMMA DegreeIs ==
  /\ LogN \in 2 .. 15 /\ Two[LogN] = RingDegree
  /\ RingDegree \in Nat /\ RingDegree >= 4 /\ RingDegree <= 32768
<1>1. PICK n \in 2 .. 15 : RingDegree = 2^n
  BY TransformAssumption
<1>2. n \in 0 .. 15 /\ n \in 0 .. 16 /\ RingDegree = Two[n]
  <2>1. n \in 0 .. 15 /\ n \in 0 .. 16
    BY <1>1
  <2>2. Two[n] = 2^n
    BY <2>1, TwoTo
  <2> QED BY <1>1, <2>1, <2>2
<1>3. Two[n] \in Nat /\ Two[n] >= 4 /\ Two[n] <= 32768
  BY <1>1, TwoValues
<1>4. LogN \in 0 .. 15 /\ 2^LogN = RingDegree
  <2>1. \E j \in 0 .. 15 : 2^j = RingDegree
    BY <1>1, <1>2
  <2> QED BY <2>1, Zenon DEF LogN
<1>5. Two[LogN] = RingDegree
  <2>1. LogN \in 0 .. 16
    BY <1>4
  <2>2. Two[LogN] = 2^LogN
    BY <2>1, TwoTo
  <2> QED BY <1>4, <2>2
<1>6. LogN # 0 /\ LogN # 1
  BY <1>2, <1>3, <1>5, TwoValues
<1> QED BY <1>2, <1>3, <1>4, <1>5, <1>6

LEMMA LevelIs ==
  ASSUME NEW l \in 0 .. LogN
  PROVE  /\ LogN \in Nat /\ l \in Nat /\ LogN - l \in 0 .. LogN /\ l \in 0 .. 16 /\ LogN - l \in 0 .. 16
         /\ Two[l] \in Nat /\ Two[l] > 0 /\ Two[LogN - l] \in Nat /\ Two[LogN - l] > 0
         /\ Two[LogN - l] * Two[l] = RingDegree /\ RingDegree \div Two[l] = Two[LogN - l]
<1>1. LogN \in 2 .. 15 /\ l \in 0 .. 16 /\ LogN - l \in 0 .. 16 /\ (LogN - l) + l = LogN
  BY DegreeIs
<1>2. Two[l] \in Nat \ {0} /\ Two[LogN - l] \in Nat \ {0}
  BY <1>1, TwoType
<1>3. Two[LogN - l] * Two[l] = RingDegree
  BY <1>1, TwoPlus, DegreeIs
<1>4. PICK a \in Int, c \in Int : a = Two[l] /\ c = Two[LogN - l]
  BY <1>2
<1>5. (c * a + 0) \div a = c
  BY <1>2, <1>4, DivModUnique
<1>6. c * a + 0 = RingDegree
  BY <1>3, <1>4, DegreeIs
<1> QED BY <1>1, <1>2, <1>3, <1>4, <1>5, <1>6

(* The bits of a number in reversed order.                                 *)
BitTerms(i, n) == [c \in 0 .. n - 1 |-> ((i \div Two[c]) % 2) * Two[n - 1 - c]]
Rev(i, n) == SumTo(BitTerms(i, n), n)

LEMMA RevIs ==
  ASSUME NEW i \in Nat, NEW n \in 0 .. 16
  PROVE  Integral(BitTerms(i, n), n) /\ Rev(i, n) \in Nat
<1>1. ASSUME NEW c \in 0 .. n - 1
      PROVE  BitTerms(i, n)[c] \in Int /\ 0 <= BitTerms(i, n)[c] /\ BitTerms(i, n)[c] <= 65536
  <2>1. c \in 0 .. 16 /\ n - 1 - c \in 0 .. 16
    OBVIOUS
  <2>2. Two[c] \in Nat \ {0} /\ Two[n - 1 - c] \in Nat
    BY <2>1, TwoType
  <2>3. Two[n - 1 - c] <= 65536
    BY <2>1, TwoValues
  <2>4. i \div Two[c] \in Int
    BY <2>2, DivMod
  <2>5. (i \div Two[c]) % 2 \in {0, 1}
    BY <2>4, DivMod
  <2>6. PICK u \in {0, 1}, v \in Nat : u = (i \div Two[c]) % 2 /\ v = Two[n - 1 - c]
    BY <2>2, <2>5
  <2>7. u * v \in Int /\ 0 <= u * v /\ u * v <= v
    BY <2>6
  <2> QED BY <2>3, <2>6, <2>7 DEF BitTerms
<1>2. Integral(BitTerms(i, n), n) /\ n \in Nat /\ n \in 0 .. n
  BY <1>1 DEF Integral
<1>3. 0 <= SumTo(BitTerms(i, n), n)
  <2>1. PICK z \in Int : z = 65536
    OBVIOUS
  <2>2. \A c \in 0 .. n - 1 : 0 <= BitTerms(i, n)[c] /\ BitTerms(i, n)[c] <= z
    BY <1>1, <2>1
  <2> QED BY <1>2, <2>2, SumRange
<1>4. SumTo(BitTerms(i, n), n) \in Int
  BY <1>2, SumIs
<1> QED BY <1>2, <1>3, <1>4 DEF Rev

LEMMA RevDoubles ==
  ASSUME NEW b \in Nat, NEW o \in {0, 1}, NEW k \in 0 .. 15
  PROVE  Rev(2 * b + o, k + 1) = Rev(b, k) + o * Two[k]
<1> DEFINE i == 2 * b + o
           f == BitTerms(i, k + 1)
           g == BitTerms(b, k)
<1>0. i \in Nat /\ k + 1 \in 0 .. 16 /\ k \in 0 .. 16 /\ k \in Nat /\ 1 + k = k + 1
  OBVIOUS
<1>1. Integral(f, 1 + k) /\ Integral(f, k + 1) /\ Rev(b, k) \in Nat
  BY <1>0, RevIs
<1>2. ASSUME NEW c \in 0 .. k - 1 PROVE g[c] = f[1 + c]
  <2>1. c \in 0 .. 15 /\ 1 + c \in 0 .. k /\ (k + 1) - 1 - (1 + c) = k - 1 - c /\ 1 + c = c + 1
    OBVIOUS
  <2>2. Two[c] \in Nat \ {0} /\ Two[1 + c] = 2 * Two[c]
    BY <2>1, TwoDoubles
  <2>3. (i \div 2) \div Two[c] = i \div (2 * Two[c])
    <3>1. PICK w \in Int, u \in Int : w = i /\ u = Two[c] /\ u > 0
      BY <1>0, <2>2
    <3>2. 2 \in Int /\ 2 > 0
      OBVIOUS
    <3>3. (w \div 2) \div u = w \div (2 * u)
      BY <3>1, <3>2, DivDiv
    <3> QED BY <3>1, <3>3
  <2>4. i \div 2 = b
    <3>1. (b * 2 + o) \div 2 = b /\ b * 2 + o = i
      BY DivModUnique
    <3> QED BY <3>1
  <2>5. g[c] = ((b \div Two[c]) % 2) * Two[k - 1 - c]
    BY DEF BitTerms
  <2>6. f[1 + c] = ((i \div Two[1 + c]) % 2) * Two[(k + 1) - 1 - (1 + c)]
    BY <2>1 DEF BitTerms
  <2> QED BY <2>1, <2>2, <2>3, <2>4, <2>5, <2>6
<1>3. f[0] = o * Two[k]
  <2>1. f[0] = ((i \div Two[0]) % 2) * Two[(k + 1) - 1 - 0]
    BY DEF BitTerms
  <2>2. (k + 1) - 1 - 0 = k /\ Two[0] = 1 /\ i \div 1 = i
    BY <1>0, TwoValues
  <2>3. i % 2 = o
    <3>1. (b * 2 + o) % 2 = o /\ b * 2 + o = i
      BY DivModUnique
    <3> QED BY <3>1
  <2> QED BY <2>1, <2>2, <2>3
<1> HIDE DEF f, g, i
<1>4. SumTo(f, 1) = f[0]
  <2>1. 0 \in 0 .. (1 + k) - 1 /\ 1 + k \in Nat
    BY <1>0
  <2>2. SumTo(f, 0 + 1) = SumTo(f, 0) + f[0] /\ SumTo(f, 0) = 0 /\ f[0] \in Int
    BY <1>1, <2>1, SumIs DEF Integral
  <2> QED BY <2>2
<1>5. SumTo(f, 1 + k) = SumTo(f, 1) + SumTo(g, k)
  BY <1>0, <1>1, <1>2, SumParts
<1>6. PICK x \in Int, y \in Int : x = Rev(b, k) /\ y = Two[k]
  BY <1>0, <1>1, TwoType
<1>7. o * y \in Int
  OBVIOUS
<1>8. SumTo(f, k + 1) = o * y + x
  BY <1>0, <1>3, <1>4, <1>5, <1>6 DEF Rev, g
<1>9. o * y + x = x + o * y
  BY <1>7
<1> QED BY <1>6, <1>8, <1>9 DEF Rev, f, i

LEMMA ReversedIs ==
  ASSUME NEW i \in Nat
  PROVE  BitReversed(i) = Rev(i, LogN)
<1> DEFINE f == [b \in 0 .. LogN - 1 |-> ((i \div 2^b) % 2) * 2^(LogN - 1 - b)]
<1>1. \A b \in 0 .. LogN - 1 : 2^b = Two[b] /\ 2^(LogN - 1 - b) = Two[LogN - 1 - b]
  <2> SUFFICES ASSUME NEW b \in 0 .. LogN - 1
               PROVE  2^b = Two[b] /\ 2^(LogN - 1 - b) = Two[LogN - 1 - b]
    OBVIOUS
  <2>1. b \in 0 .. 16 /\ LogN - 1 - b \in 0 .. 16
    BY DegreeIs
  <2> QED BY <2>1, TwoTo
<1>2. f = BitTerms(i, LogN)
  BY <1>1 DEF BitTerms
<1>3. BitReversed(i) = SumBelow(f, LogN)
  BY DEF BitReversed
<1> HIDE DEF f
<1>4. SumBelow(f, LogN) = SumTo(f, LogN)
  BY DEF SumBelow, SumTo
<1> QED BY <1>2, <1>3, <1>4 DEF Rev

LEMMA ReversedAt ==
  ASSUME NEW k \in 0 .. LogN - 1, NEW b \in 0 .. Two[k] - 1
  PROVE  BitReversed(Two[k] + b) = Two[LogN - 1 - k] * (2 * Rev(b, k) + 1)
<1> DEFINE i == Two[k] + b
           d == LogN - 1 - k
           f == BitTerms(i, LogN)
           g == BitTerms(b, k)
<1>0. /\ LogN \in Nat /\ LogN \in 0 .. 16 /\ k \in 0 .. 15 /\ k \in 0 .. 16 /\ k \in Nat
      /\ d \in 0 .. 15 /\ d \in 0 .. 16 /\ k \in 0 .. LogN
  BY DegreeIs
<1>1. Two[k] \in Nat \ {0} /\ Two[d] \in Nat \ {0} /\ Two[k + 1] = 2 * Two[k]
  BY <1>0, TwoDoubles
<1>2. i \in Nat /\ b \in Nat /\ i < 2 * Two[k]
  BY <1>1
<1>3. Integral(f, LogN) /\ Integral(g, k) /\ Rev(b, k) \in Nat
  BY <1>0, <1>2, RevIs
<1>4. PICK t \in Int, a \in Int : t = Two[d] /\ a = Two[k]
  BY <1>1
<1>5. f[k] = t
  <2>1. f[k] = ((i \div Two[k]) % 2) * Two[LogN - 1 - k]
    BY <1>0 DEF BitTerms
  <2>2. (1 * a + b) \div a = 1 /\ 1 * a + b = i
    <3>1. b \in Int /\ 0 <= b /\ b < a /\ a > 0
      BY <1>1, <1>2, <1>4
    <3>2. (1 * a + b) \div a = 1
      BY <3>1, DivModUnique
    <3> QED BY <1>4, <3>2
  <2>3. 1 % 2 = 1
    OBVIOUS
  <2>4. i \div a = 1
    BY <2>2
  <2> HIDE DEF i, f
  <2>5. f[k] = (1 % 2) * t
    BY <1>4, <2>1, <2>4
  <2> QED BY <2>3, <2>5
<1>6. ASSUME NEW c \in (k + 1) .. LogN - 1 PROVE f[c] = 0
  <2>1. c \in 0 .. 16 /\ c \in 0 .. LogN - 1 /\ LogN - 1 - c \in 0 .. 16 /\ k + 1 \in 0 .. 16
        /\ c - (k + 1) \in 0 .. 16 /\ (c - (k + 1)) + (k + 1) = c
    BY DegreeIs
  <2>2. Two[c] \in Nat \ {0} /\ Two[LogN - 1 - c] \in Nat /\ Two[c - (k + 1)] \in Nat \ {0}
    BY <2>1, TwoType
  <2>3. Two[c] = Two[c - (k + 1)] * Two[k + 1]
    BY <2>1, TwoPlus
  <2>4. PICK u \in Int : u = Two[c - (k + 1)] /\ u >= 1
    BY <2>2
  <2>5. 1 * (2 * a) <= u * (2 * a)
    BY <1>1, <1>4, <2>4, TimesMonotone
  <2>6. i < Two[c]
    BY <1>1, <1>2, <1>4, <2>3, <2>4, <2>5
  <2>7. (0 * Two[c] + i) \div Two[c] = 0
    BY <1>2, <2>2, <2>6, DivModUnique
  <2>8. i \div Two[c] = 0
    BY <1>2, <2>2, <2>7
  <2>9. f[c] = ((i \div Two[c]) % 2) * Two[LogN - 1 - c]
    BY <2>1 DEF BitTerms
  <2>10. 0 % 2 = 0
    OBVIOUS
  <2> HIDE DEF f, i
  <2> QED BY <2>2, <2>8, <2>9, <2>10
<1>7. ASSUME NEW c \in 0 .. k - 1 PROVE f[c] = (2 * t) * g[c]
  <2>1. c \in 0 .. 16 /\ c \in 0 .. LogN - 1 /\ k - 1 - c \in 0 .. 15 /\ k - c = (k - 1 - c) + 1
        /\ k - c \in 0 .. 16 /\ (k - c) + c = k /\ LogN - 1 - c = d + (k - c) /\ d + (k - c) <= 16
    BY DegreeIs
  <2>2. Two[c] \in Nat \ {0} /\ Two[k - 1 - c] \in Nat \ {0}
    BY <2>1, TwoType
  <2>3. Two[k - c] = 2 * Two[k - 1 - c]
    BY <2>1, TwoDoubles
  <2>4. Two[k] = Two[k - c] * Two[c] /\ Two[LogN - 1 - c] = Two[d] * Two[k - c]
    BY <1>0, <2>1, TwoPlus
  <2>5. PICK u \in Int, v \in Int : u = Two[c] /\ u > 0 /\ v = Two[k - 1 - c]
    BY <2>2
  <2>6. PICK h \in Int, r \in Int : h = b \div u /\ b = h * u + r /\ 0 <= r /\ r < u
    <3>1. b \in Int
      BY <1>2
    <3> QED BY <2>5, <3>1, DivMod
  <2>7. i = (2 * v + h) * u + r
    <3>1. i = (2 * v) * u + (h * u + r)
      BY <1>2, <2>3, <2>4, <2>5, <2>6
    <3>2. (2 * v) * u + (h * u + r) = (2 * v + h) * u + r
      OBVIOUS
    <3> QED BY <3>1, <3>2
  <2>8. ((2 * v + h) * u + r) \div u = 2 * v + h
    <3>1. 2 * v + h \in Int
      OBVIOUS
    <3> QED BY <2>5, <2>6, <3>1, DivModUnique
  <2>9. i \div u = 2 * v + h
    BY <2>7, <2>8
  <2>10. (h + v * 2) % 2 = h % 2 /\ h + v * 2 = 2 * v + h
    BY ModShift
  <2>11. f[c] = ((i \div u) % 2) * (t * (2 * v))
    <3>1. f[c] = ((i \div Two[c]) % 2) * Two[LogN - 1 - c]
      BY <2>1 DEF BitTerms
    <3>2. Two[LogN - 1 - c] = t * (2 * v)
      BY <1>4, <2>3, <2>4, <2>5
    <3> HIDE DEF f, i, d
    <3> QED BY <2>5, <3>1, <3>2
  <2>12. g[c] = (h % 2) * v
    BY <2>5, <2>6 DEF BitTerms
  <2>13. PICK w \in Int : w = h % 2
    BY <2>6
  <2>14. w * (t * (2 * v)) = (2 * t) * (w * v)
    OBVIOUS
  <2> HIDE DEF f, g, i, d
  <2> QED BY <2>9, <2>10, <2>11, <2>12, <2>13, <2>14
<1> HIDE DEF f, g, i, d
<1>8. SumTo(f, LogN) = SumTo(f, k + 1)
  <2>1. k + 1 \in 0 .. LogN
    BY DegreeIs
  <2> QED BY <1>0, <1>3, <1>6, <2>1, SumRest
<1>9. SumTo(f, k + 1) = SumTo(f, k) + f[k]
  BY <1>0, <1>3, SumIs
<1>10. SumTo(f, k) = (2 * t) * SumTo(g, k)
  BY <1>0, <1>3, <1>7, SumScales
<1>11. PICK x \in Int : x = Rev(b, k)
  BY <1>3
<1>12. (2 * t) * x + t = t * (2 * x + 1)
  OBVIOUS
<1>13. BitReversed(i) = SumTo(f, LogN)
  BY <1>2, ReversedIs DEF Rev, f
<1> QED BY <1>4, <1>5, <1>8, <1>9, <1>10, <1>11, <1>12, <1>13 DEF Rev, g, i, d

-----------------------------------------------------------------------------

(* Blocks: the polynomial whose values the passes halve and join.          *)

(* A polynomial is that of its even and that of its odd coefficients.      *)
LEMMA PolyHalves ==
  ASSUME NEW n \in Nat, NEW d \in Nat, d = 2 * n, NEW s \in Int, NEW r \in Int, r = s * s,
         NEW f, NEW g, NEW h, Integral(f, d), EveryOther(f, g, h, n),
         NEW u \in Int, NEW v \in Int, u = Poly(g, r, n), v = Poly(h, r, n)
  PROVE  Poly(f, s, d) = u + s * v
<1> DEFINE monomials == Monomials(f, s, d)
           even == [k \in 0 .. n - 1 |-> monomials[2 * k]]
           odd == [k \in 0 .. n - 1 |-> monomials[2 * k + 1]]
<1>1. \A k \in 0 .. n - 1 : g[k] = f[2 * k] /\ h[k] = f[2 * k + 1]
  BY DEF EveryOther
<1>2. \A k \in 0 .. n - 1 : 2 * k \in 0 .. d - 1 /\ 2 * k + 1 \in 0 .. d - 1
  OBVIOUS
<1>3. Integral(g, n) /\ Integral(h, n)
  BY <1>1, <1>2 DEF Integral
<1>4. Integral(monomials, d)
  BY PolyIs
<1>5. EveryOther(monomials, even, odd, n)
  BY DEF EveryOther
<1>6. ASSUME NEW k \in 0 .. n - 1
      PROVE  /\ even[k] = Monomials(g, r, n)[k]
             /\ odd[k] = s * Monomials(h, r, n)[k]
  <2>0. k \in Nat /\ 2 * k \in Nat /\ 2 * k + 1 \in Nat /\ 2 \in Nat
    OBVIOUS
  <2>1. Raise(s, 2 * k) = Raise(r, k)
    <3>1. Raise(s, 1 + 1) = Raise(s, 1) * Raise(s, 1) /\ Raise(s, 1) = s
      <4>1. Raise(s, 1) = s /\ 1 \in Nat
        BY RaiseOne
      <4>2. Raise(s, 1 + 1) = Raise(s, 1) * Raise(s, 1)
        BY <4>1, RaiseAdds
      <4> QED BY <4>1, <4>2
    <3>2. Raise(s, 2) = r
      BY <3>1
    <3>3. Raise(Raise(s, 2), k) = Raise(s, 2 * k)
      BY <2>0, RaiseTimes
    <3> QED BY <3>2, <3>3
  <2>2. Raise(s, 2 * k + 1) = Raise(r, k) * s
    BY <2>0, <2>1, RaiseIs
  <2>3. g[k] \in Int /\ h[k] \in Int
    BY <1>3 DEF Integral
  <2>4. PICK x \in Int, y \in Int, z \in Int : x = g[k] /\ y = h[k] /\ z = Raise(r, k)
    BY <2>0, <2>3, RaiseIs
  <2>5. monomials[2 * k] = x * z
    BY <1>1, <1>2, <2>1, <2>4 DEF Monomials
  <2>6. monomials[2 * k + 1] = y * (z * s)
    BY <1>1, <1>2, <2>2, <2>4 DEF Monomials
  <2>7. Monomials(g, r, n)[k] = x * z /\ Monomials(h, r, n)[k] = y * z
    BY <2>4 DEF Monomials
  <2>8. y * (z * s) = s * (y * z)
    OBVIOUS
  <2> HIDE DEF monomials
  <2> QED BY <2>5, <2>6, <2>7, <2>8
<1> HIDE DEF monomials, even, odd
<1>7. SumTo(monomials, d) = SumTo(even, n) + SumTo(odd, n)
  BY <1>4, <1>5, SumEveryOther
<1>8. Integral(Monomials(g, r, n), n) /\ Integral(Monomials(h, r, n), n)
  BY <1>3, PolyIs
<1>9. SumTo(even, n) = SumTo(Monomials(g, r, n), n)
  BY <1>6, <1>8, SumSame
<1>10. SumTo(odd, n) = s * SumTo(Monomials(h, r, n), n)
  BY <1>6, <1>8, SumScales
<1> QED BY <1>3, <1>7, <1>9, <1>10 DEF Poly, monomials

(* The number at which block b of length 2^l is evaluated.                 *)
Odd(l, b) == 2 * Rev(b, LogN - l) + 1
Turn(s, l, b) == Raise(s, Two[l] * Odd(l, b))

(* The coefficients of a residue class modulo the length of the blocks,    *)
(* and their value at that number.                                         *)
Spread(x, l, j) == [u \in 0 .. Two[LogN - l] - 1 |-> x[j + u * Two[l]]]
Block(x, s, l, b, j) == Poly(Spread(x, l, j), Turn(s, l, b), Two[LogN - l])

LEMMA OddIs ==
  ASSUME NEW l \in 0 .. LogN, NEW b \in Nat
  PROVE  Odd(l, b) \in Nat
<1>1. LogN - l \in 0 .. 16
  BY DegreeIs
<1>2. Rev(b, LogN - l) \in Nat
  BY <1>1, RevIs
<1> QED BY <1>2 DEF Odd

LEMMA TurnIs ==
  ASSUME NEW s \in Int, NEW l \in 0 .. LogN, NEW b \in Nat
  PROVE  Two[l] * Odd(l, b) \in Nat /\ Turn(s, l, b) \in Int
<1>1. PICK x \in Nat, y \in Nat : x = Two[l] /\ y = Odd(l, b)
  BY LevelIs, OddIs
<1>2. x * y \in Nat
  OBVIOUS
<1> QED BY <1>1, <1>2, RaiseIs DEF Turn

LEMMA SpreadIs ==
  ASSUME NEW l \in 0 .. LogN, NEW j \in 0 .. Two[l] - 1, NEW x, Integral(x, RingDegree)
  PROVE  /\ Integral(Spread(x, l, j), Two[LogN - l])
         /\ \A u \in 0 .. Two[LogN - l] - 1 : j + u * Two[l] \in 0 .. RingDegree - 1
<1>1. PICK a \in Nat, c \in Nat : a = Two[l] /\ a > 0 /\ c = Two[LogN - l] /\ c * a = RingDegree
  BY LevelIs
<1>2. ASSUME NEW u \in 0 .. c - 1 PROVE j + u * a \in 0 .. RingDegree - 1
  <2>1. u * a \in Nat
    BY <1>1
  <2>2. (u + 1) * a <= c * a
    BY <1>1, TimesMonotone
  <2>3. (u + 1) * a = u * a + a
    OBVIOUS
  <2> QED BY <1>1, <2>1, <2>2, <2>3
<1>3. \A u \in 0 .. c - 1 : Spread(x, l, j)[u] = x[j + u * a]
  BY <1>1 DEF Spread
<1> QED BY <1>1, <1>2, <1>3 DEF Integral

LEMMA BlockIs ==
  ASSUME NEW s \in Int, NEW l \in 0 .. LogN, NEW b \in Nat, NEW j \in 0 .. Two[l] - 1, NEW x,
         Integral(x, RingDegree)
  PROVE  Block(x, s, l, b, j) \in Int
BY LevelIs, TurnIs, SpreadIs, PolyIs DEF Block

(* The twist of a block, half way, and the butterfly: a block is the sum   *)
(* and the difference of blocks of twice its length.                       *)
Twiddle(s, l, b) == Raise(s, Two[l - 1] * Odd(l, b))

LEMMA TwiddleIs ==
  ASSUME NEW s \in Int, NEW l \in 1 .. LogN, NEW b \in Nat
  PROVE  /\ Two[l - 1] \in Nat /\ Two[l - 1] > 0 /\ Two[l] = 2 * Two[l - 1]
         /\ Two[LogN - (l - 1)] = 2 * Two[LogN - l]
         /\ Two[l - 1] * Odd(l, b) \in Nat /\ Twiddle(s, l, b) \in Int
         /\ Twiddle(s, l, b) * Twiddle(s, l, b) = Turn(s, l, b)
<1>1. l \in 0 .. LogN /\ l - 1 \in 0 .. 15 /\ (l - 1) + 1 = l /\ LogN - l \in 0 .. 15
      /\ LogN - (l - 1) = (LogN - l) + 1
  BY DegreeIs
<1>2. Two[l - 1] \in Nat \ {0} /\ Two[l] = 2 * Two[l - 1] /\ Two[(LogN - l) + 1] = 2 * Two[LogN - l]
  BY <1>1, TwoDoubles
<1>3. PICK x \in Nat, y \in Nat : x = Two[l - 1] /\ y = Odd(l, b)
  BY <1>1, <1>2, OddIs
<1>4. x * y \in Nat /\ x * y + x * y = (2 * x) * y
  OBVIOUS
<1>5. Raise(s, x * y + x * y) = Raise(s, x * y) * Raise(s, x * y) /\ Raise(s, x * y) \in Int
  BY <1>4, RaiseAdds, RaiseIs
<1> QED BY <1>1, <1>2, <1>3, <1>4, <1>5 DEF Twiddle, Turn

LEMMA TurnHalves ==
  ASSUME NEW s \in Int, NEW l \in 1 .. LogN, NEW b \in Nat, NEW o \in {0, 1}
  PROVE  /\ Odd(l - 1, 2 * b + o) = Odd(l, b) + o * (2 * Two[LogN - l])
         /\ Turn(s, l - 1, 2 * b + o) = Twiddle(s, l, b) * Raise(s, o * RingDegree)
<1> DEFINE k == LogN - l
<1>0. k \in 0 .. 15 /\ LogN - (l - 1) = k + 1 /\ l \in 0 .. LogN /\ 2 * b + o \in Nat /\ RingDegree \in Nat
  BY DegreeIs
<1> HIDE DEF k
<1>1. Rev(2 * b + o, k + 1) = Rev(b, k) + o * Two[k]
  BY <1>0, RevDoubles
<1>2. PICK y \in Int, z \in Int : y = Rev(b, k) /\ z = Two[k]
  <2>1. k \in 0 .. 16
    BY <1>0
  <2>2. Rev(b, k) \in Nat
    BY <2>1, RevIs
  <2>3. Two[k] \in Nat \ {0}
    BY <2>1, TwoType
  <2> QED BY <2>2, <2>3
<1>3. o * z \in Int /\ 2 * (y + o * z) + 1 = (2 * y + 1) + o * (2 * z)
  OBVIOUS
<1>4. Odd(l - 1, 2 * b + o) = Odd(l, b) + o * (2 * z)
  BY <1>0, <1>1, <1>2, <1>3 DEF Odd, k
<1>5. PICK w \in Nat, a \in Nat : w = Odd(l, b) /\ a = Two[l - 1]
  BY <1>0, OddIs, TwiddleIs
<1>6. z * (2 * a) = RingDegree
  BY <1>0, <1>2, <1>5, LevelIs, TwiddleIs DEF k
<1>7. a * (w + o * (2 * z)) = a * w + o * (z * (2 * a)) /\ a * w \in Nat
  OBVIOUS
<1>8. o * RingDegree \in Nat
  BY <1>0
<1>9. Raise(s, a * w + o * RingDegree) = Raise(s, a * w) * Raise(s, o * RingDegree)
  BY <1>7, <1>8, RaiseAdds
<1>10. Turn(s, l - 1, 2 * b + o) = Raise(s, a * (w + o * (2 * z)))
  BY <1>4, <1>5 DEF Turn
<1> QED BY <1>2, <1>4, <1>5, <1>6, <1>7, <1>9, <1>10 DEF Twiddle, k

Signed(o, x) == IF o = 0 THEN x ELSE -x

LEMMA Butterfly ==
  ASSUME NEW m \in Int, m > 1, NEW s \in Int, SameRest(Raise(s, RingDegree), -1, m),
         NEW l \in 1 .. LogN, NEW b \in Nat, NEW o \in {0, 1}, NEW j \in 0 .. Two[l - 1] - 1,
         NEW x, Integral(x, RingDegree)
  PROVE  SameRest(Block(x, s, l - 1, 2 * b + o, j),
                  Block(x, s, l, b, j)
                    + Signed(o, Twiddle(s, l, b) * Block(x, s, l, b, j + Two[l - 1])), m)
<1> DEFINE n == Two[LogN - l]
           f == Spread(x, l - 1, j)
           g == Spread(x, l, j)
           h == Spread(x, l, j + Two[l - 1])
           r == Turn(s, l - 1, 2 * b + o)
           w == Twiddle(s, l, b)
           t == Turn(s, l, b)
<1>0. l \in 0 .. LogN /\ l - 1 \in 0 .. LogN /\ 2 * b + o \in Nat
  BY DegreeIs
<1>1. PICK a \in Int : a = Two[l - 1] /\ a > 0 /\ Two[l] = 2 * a /\ Two[LogN - (l - 1)] = 2 * n
  <2>1. Two[l - 1] \in Nat /\ Two[l - 1] > 0 /\ Two[l] = 2 * Two[l - 1]
        /\ Two[LogN - (l - 1)] = 2 * n
    BY TwiddleIs
  <2> QED BY <2>1
<1>2. j \in 0 .. Two[l] - 1 /\ j + Two[l - 1] \in 0 .. Two[l] - 1
  BY <1>1
<1>3. n \in Nat /\ w \in Int /\ t \in Int /\ w * w = t /\ r \in Int
  <2>1. n \in Nat
    BY <1>0, LevelIs
  <2>2. t \in Int /\ r \in Int
    BY <1>0, TurnIs
  <2>3. w \in Int /\ w * w = t
    BY TwiddleIs
  <2> QED BY <2>1, <2>2, <2>3
<1>4. Integral(f, 2 * n) /\ Integral(g, n) /\ Integral(h, n)
  BY <1>0, <1>1, <1>2, SpreadIs
<1>5. ASSUME NEW k \in 0 .. n - 1 PROVE g[k] = f[2 * k] /\ h[k] = f[2 * k + 1]
  <2>1. 2 * k \in 0 .. 2 * n - 1 /\ 2 * k + 1 \in 0 .. 2 * n - 1
    BY <1>3
  <2>2. f[2 * k] = x[j + (2 * k) * a] /\ f[2 * k + 1] = x[j + (2 * k + 1) * a]
    BY <1>1, <2>1 DEF Spread
  <2>3. g[k] = x[j + k * (2 * a)] /\ h[k] = x[(j + a) + k * (2 * a)]
    BY <1>1 DEF Spread
  <2>4. j + (2 * k) * a = j + k * (2 * a) /\ j + (2 * k + 1) * a = (j + a) + k * (2 * a)
    OBVIOUS
  <2> HIDE DEF f, g, h
  <2> QED BY <2>2, <2>3, <2>4
<1> HIDE DEF n, f, g, h, r, w, t
<1>50. EveryOther(f, g, h, n)
  BY <1>5 DEF EveryOther
<1>51. PICK c \in Int : c = r * r
  BY <1>3
<1>7. PICK u \in Int, v \in Int : u = Poly(g, t, n) /\ v = Poly(h, t, n)
  BY <1>3, <1>4, PolyIs
<1>8. SameRest(r, Signed(o, w), m) /\ Signed(o, w) \in Int /\ SameRest(c, t, m)
      /\ Signed(o, w) * v = Signed(o, w * v) /\ w * v \in Int
  <2>1. r = w * Raise(s, o * RingDegree)
    BY TurnHalves DEF r, w
  <2>2. CASE o = 0
    <3>1. o * RingDegree = 0 /\ Raise(s, 0) = 1
      BY <2>2, DegreeIs, RaiseIs
    <3>0. r = w * 1
      BY <2>1, <3>1
    <3>2. r = w /\ c = t
      BY <1>3, <1>51, <3>0
    <3>3. w * v \in Int
      BY <1>3
    <3> QED BY <1>3, <2>2, <3>2, <3>3 DEF SameRest, Signed
  <2>3. CASE o = 1
    <3>1. PICK y \in Int : y = Raise(s, RingDegree)
      BY DegreeIs, RaiseIs
    <3>2. r = w * y
      BY <2>1, <2>3, <3>1, DegreeIs
    <3>3. SameRest(y, -1, m) /\ SameRest(w, w, m)
      BY <3>1 DEF SameRest
    <3>4. SameRest(w * y, w * (-1), m)
      BY <1>3, <3>3, RestTimes
    <3>5. w * (-1) = -w /\ -w \in Int /\ (-w) * (-w) = t /\ (-w) * v = -(w * v) /\ w * v \in Int
      BY <1>3
    <3>6. SameRest(r, -w, m)
      BY <3>2, <3>4, <3>5
    <3>7. SameRest(r * r, (-w) * (-w), m)
      BY <1>3, <3>5, <3>6, RestTimes
    <3> QED BY <1>51, <2>3, <3>5, <3>6, <3>7 DEF Signed
  <2> QED BY <2>2, <2>3
<1>9. SameRest(Poly(g, c, n), u, m) /\ SameRest(Poly(h, c, n), v, m)
  <2>1. /\ \A k \in 0 .. n - 1 : SameRest(g[k], g[k], m)
        /\ \A k \in 0 .. n - 1 : SameRest(h[k], h[k], m)
        /\ m > 0 /\ SameRest(c, t, m)
    BY <1>8 DEF SameRest
  <2>2. SameRest(Poly(g, c, n), Poly(g, t, n), m)
    BY <1>3, <1>4, <2>1, PolyRests
  <2>3. SameRest(Poly(h, c, n), Poly(h, t, n), m)
    BY <1>3, <1>4, <2>1, PolyRests
  <2> QED BY <1>7, <2>2, <2>3
<1>10. PICK y \in Int, z \in Int : y = Poly(g, c, n) /\ z = Poly(h, c, n)
  BY <1>3, <1>4, PolyIs
<1>101. Poly(f, r, 2 * n) = y + r * z
  <2>1. PICK d \in Nat : d = 2 * n
    BY <1>3
  <2>2. Integral(f, d)
    BY <1>4, <2>1
  <2>3. Poly(f, r, d) = y + r * z
    BY <1>3, <1>4, <1>50, <1>51, <1>10, <2>1, <2>2, PolyHalves
  <2> QED BY <2>1, <2>3
<1>11. SameRest(r * z, Signed(o, w) * v, m) /\ r * z \in Int /\ Signed(o, w) * v \in Int
  <2>1. PICK e \in Int : e = Signed(o, w)
    BY <1>8
  <2>2. SameRest(r * z, e * v, m)
    BY <1>3, <1>8, <1>9, <1>10, <2>1, RestTimes
  <2>3. r * z \in Int /\ e * v \in Int
    BY <1>3
  <2> QED BY <2>1, <2>2, <2>3
<1>12. SameRest(y + r * z, u + Signed(o, w) * v, m)
  BY <1>9, <1>10, <1>11, RestAdds
<1>13. Block(x, s, l - 1, 2 * b + o, j) = y + r * z
  BY <1>1, <1>101 DEF Block, f, r
<1>14. Block(x, s, l, b, j) = u /\ Block(x, s, l, b, j + Two[l - 1]) = v
  BY <1>7 DEF Block, g, h, t, n
<1> QED BY <1>8, <1>12, <1>13, <1>14 DEF w

-----------------------------------------------------------------------------

(* The moduli: N-th roots of -1 and their inverses.                        *)

TransformModuli == NttPrimes \cup {PlainModulus}

LEMMA TransformPrime ==
  ASSUME NEW pr \in TransformModuli
  PROVE  /\ Fits(pr) /\ pr \in Int /\ pr > 8 /\ 16 * pr < B
         /\ 2 * RingDegree \in Int /\ 2 * RingDegree > 0
         /\ \E k \in Nat : pr - 1 = (2 * RingDegree) * k /\ (pr - 1) \div (2 * RingDegree) = k
<1>1. Fits(pr) /\ pr % (2 * RingDegree) = 1
  BY TransformAssumption DEF TransformModuli
<1>2. pr \in Int /\ pr > 1 /\ 16 * pr < B
  BY <1>1, FitsFacts
<1>3. PICK d \in Int : d = 2 * RingDegree /\ d >= 8
  BY DegreeIs
<1>4. PICK k \in Int : k = pr \div d /\ pr = k * d + 1
  BY <1>1, <1>2, <1>3, DivMod
<1>5. k >= 1
  <2>1. k <= 0 => k * d <= 0 * d
    BY <1>3, TimesMonotone
  <2>2. 0 * d = 0
    BY <1>3
  <2> QED BY <1>2, <1>4, <2>1, <2>2
<1>6. 1 * d <= k * d
  BY <1>3, <1>5, TimesMonotone
<1>7. (k * d + 0) \div d = k
  BY <1>3, <1>4, DivModUnique
<1>8. PICK e \in Int : e = k * d
  BY <1>3
<1>9. k * d = d * k /\ pr - 1 = e /\ e + 0 = e /\ 1 * d = d
  BY <1>3, <1>4, <1>8
<1>10. (pr - 1) \div d = k
  BY <1>7, <1>8, <1>9
<1>11. pr > 8
  <2>1. PICK w \in Int : w = 1 * d
    BY <1>3
  <2>2. w <= e /\ w = d
    BY <1>6, <1>8, <1>3, <2>1
  <2>3. pr = e + 1
    BY <1>4, <1>8
  <2> QED BY <1>3, <1>8, <2>2, <2>3
<1>12. k \in Nat /\ pr - 1 = d * k /\ (pr - 1) \div d = k
  BY <1>4, <1>5, <1>8, <1>9, <1>10
<1>13. d \in Int /\ d > 0
  BY <1>3
<1>14. \E n \in Nat : pr - 1 = d * n /\ (pr - 1) \div d = n
  BY <1>12
<1>15. \E n \in Nat : pr - 1 = (2 * RingDegree) * n /\ (pr - 1) \div (2 * RingDegree) = n
  BY <1>3, <1>14
<1>16. 2 * RingDegree \in Int /\ 2 * RingDegree > 0
  BY <1>3, <1>13
<1> QED BY <1>1, <1>2, <1>11, <1>15, <1>16

(* power_mod inverts what has an order that divides p - 1.                 *)
LEMMA InvertIs ==
  ASSUME NEW pr \in TransformModuli, NEW a \in Int, SameRest(Raise(a, 2 * RingDegree), 1, pr)
  PROVE  /\ Invert(a, pr) \in Int /\ Invert(a, pr) \in 0 .. pr - 1
         /\ SameRest(Invert(a, pr) * a, 1, pr)
<1>1. pr \in Int /\ pr > 8 /\ pr > 1 /\ pr > 0
  BY TransformPrime
<1>2. PICK d \in Nat, k \in Nat : d = 2 * RingDegree /\ pr - 1 = d * k
  BY TransformPrime
<1>3. PICK x \in Int : x = Raise(a, d)
  BY RaiseIs
<1>4. SameRest(Raise(x, k), Raise(1, k), pr)
  BY <1>1, <1>2, <1>3, RaiseRest
<1>5. Raise(x, k) = Raise(a, d * k) /\ Raise(1, k) = 1
  BY <1>3, RaiseTimes, RaiseUnit
<1>6. SameRest(Raise(a, pr - 1), 1, pr)
  BY <1>2, <1>4, <1>5
<1>7. pr - 2 \in Nat /\ (pr - 2) + 1 = pr - 1
  BY <1>1
<1>8. Raise(a, pr - 1) = Raise(a, pr - 2) * a /\ Raise(a, pr - 2) \in Int
  BY <1>7, RaiseIs
<1>9. /\ PowerMod(a, pr - 2, pr) \in Int /\ PowerMod(a, pr - 2, pr) \in 0 .. pr - 1
      /\ SameRest(PowerMod(a, pr - 2, pr), Raise(a, pr - 2), pr)
  BY <1>1, <1>7, PowerModIs
<1>10. PICK v \in Int, y \in Int : v = PowerMod(a, pr - 2, pr) /\ y = Raise(a, pr - 2)
  BY <1>8, <1>9
<1>11. SameRest(v * a, y * a, pr)
  <2>1. SameRest(a, a, pr) /\ SameRest(v, y, pr)
    BY <1>9, <1>10 DEF SameRest
  <2> QED BY <1>1, <2>1, RestTimes
<1>12. SameRest(v * a, 1, pr)
  BY <1>6, <1>8, <1>10, <1>11 DEF SameRest
<1> QED BY <1>9, <1>10, <1>12 DEF Invert

(* Powers of inverses are inverse.                                         *)
LEMMA PowersUndo ==
  ASSUME NEW m \in Int, m > 0, NEW a \in Int, NEW b \in Int, SameRest(a * b, 1, m), NEW n \in Nat
  PROVE  SameRest(Raise(a, n) * Raise(b, n), 1, m)
<1>1. PICK c \in Int : c = a * b
  OBVIOUS
<1>2. SameRest(Raise(c, n), Raise(1, n), m)
  BY <1>1, RaiseRest
<1>3. Raise(c, n) = Raise(a, n) * Raise(b, n) /\ Raise(1, n) = 1
  BY <1>1, RaiseProduct, RaiseUnit
<1> QED BY <1>2, <1>3

(* Psi is a root of -1, and of 1 twice as often.                           *)
LEMMA PsiIs ==
  ASSUME NEW pr \in TransformModuli
  PROVE  /\ Psi(pr) \in Int
         /\ SameRest(Raise(Psi(pr), RingDegree), -1, pr)
         /\ SameRest(Raise(Psi(pr), 2 * RingDegree), 1, pr)
<1>1. pr \in Int /\ pr > 8 /\ pr > 1 /\ pr > 0 /\ RingDegree \in Nat
  BY TransformPrime, DegreeIs
<1>2. Candidates(pr) # {}
  BY RootsAssumption DEF TransformModuli
<1>3. Candidates(pr) \subseteq 0 .. pr /\ pr \in Nat
  BY <1>1 DEF Candidates
<1>4. PICK c \in Candidates(pr) : c = Min(Candidates(pr))
  BY <1>2, <1>3, MinExists
<1>5. Psi(pr) = RootOf(c, pr)
  BY <1>4 DEF Psi
<1>6. c \in Int /\ PowerMod(Psi(pr), RingDegree, pr) = pr - 1
  BY <1>1, <1>5 DEF Candidates
<1>7. Psi(pr) \in Int
  <2>1. (pr - 1) \div (2 * RingDegree) \in Nat
    BY TransformPrime
  <2>2. PowerMod(c, (pr - 1) \div (2 * RingDegree), pr) \in Int
    BY <1>1, <1>6, <2>1, PowerModIs
  <2> QED BY <1>5, <2>2 DEF RootOf
<1>8. PICK x \in Int : x = Raise(Psi(pr), RingDegree)
  BY <1>1, <1>7, RaiseIs
<1>9. SameRest(pr - 1, x, pr)
  BY <1>1, <1>6, <1>7, <1>8, PowerModIs
<1>10. SameRest(pr - 1, -1, pr)
  <2>1. (-1 + 1 * pr) % pr = (-1) % pr
    BY <1>1, ModShift
  <2>2. -1 + 1 * pr = pr - 1
    BY <1>1
  <2> QED BY <2>1, <2>2 DEF SameRest
<1>11. SameRest(x, -1, pr)
  BY <1>9, <1>10 DEF SameRest
<1>12. SameRest(x * x, (-1) * (-1), pr)
  BY <1>1, <1>11, RestTimes
<1>13. Raise(Psi(pr), RingDegree + RingDegree) = x * x /\ RingDegree + RingDegree = 2 * RingDegree
  BY <1>1, <1>7, <1>8, RaiseAdds
<1>14. (-1) * (-1) = 1
  OBVIOUS
<1> QED BY <1>7, <1>8, <1>11, <1>12, <1>13, <1>14

-----------------------------------------------------------------------------

(* Fixed factors.                                                          *)

(* The factors of a plan.                                                  *)
IsFactor(t, pr) == \E w \in 0 .. pr - 1 : t = Multiplier(w, pr)
Fixes(t, v, pr) == \E w \in 0 .. pr - 1 : t = Multiplier(w, pr) /\ SameRest(w, v, pr)
BackFactor(t, v, pr) == \E w \in 0 .. pr - 1 : t = Multiplier(w, pr) /\ SameRest(w * v, 1, pr)

LEMMA FactorIs ==
  ASSUME NEW pr, Fits(pr), NEW t, IsFactor(t, pr)
  PROVE  t.value \in 0 .. pr - 1 /\ t.quotient \in Words
<1>1. pr \in Int /\ pr > 1 /\ pr > 0 /\ B \in Int /\ B > 0
  BY FitsFacts, BaseFacts
<1>2. PICK w \in 0 .. pr - 1 : t = Multiplier(w, pr)
  BY DEF IsFactor
<1>3. t.value = w /\ t.quotient = (w * B) \div pr
  BY <1>2 DEF Multiplier
<1>4. PICK x \in Int, k \in Int, r \in Int :
        x = w * B /\ k = x \div pr /\ x = k * pr + r /\ 0 <= r /\ r < pr
  <2>1. w * B \in Int
    BY <1>1
  <2> QED BY <1>1, <2>1, DivMod
<1>5. 0 <= w * B /\ w * B < pr * B
  BY <1>1, TimesStrict, TimesSign
<1>6. k * pr < B * pr /\ (0 - 1) * pr < k * pr
  <2>1. k * pr \in Int /\ pr * B = B * pr /\ B * pr \in Int /\ (0 - 1) * pr = - pr
    BY <1>1
  <2> QED BY <1>1, <1>4, <1>5, <2>1
<1>7. k < B /\ 0 - 1 < k
  BY <1>1, <1>6, TimesCancel
<1> QED BY <1>1, <1>3, <1>4, <1>7 DEF Words

LEMMA FixesIs ==
  ASSUME NEW pr, Fits(pr), NEW v \in Int, NEW t, Fixes(t, v, pr), NEW x \in Words
  PROVE  /\ MultiplyLazy(t, x, pr) \in 0 .. 2 * pr - 1 /\ SameRest(MultiplyLazy(t, x, pr), x * v, pr)
         /\ Multiply(t, x, pr) \in 0 .. pr - 1 /\ SameRest(Multiply(t, x, pr), x * v, pr)
<1>1. pr \in Int /\ pr > 0 /\ x \in Int
  BY FitsFacts, BaseFacts DEF Words
<1>2. PICK w \in 0 .. pr - 1 : t = Multiplier(w, pr) /\ SameRest(w, v, pr)
  BY DEF Fixes
<1>3. SameRest(x * w, x * v, pr) /\ x * w \in Int
  <2>1. SameRest(x, x, pr)
    BY DEF SameRest
  <2> QED BY <1>1, <1>2, <2>1, RestTimes
<1>4. /\ MultiplyLazy(t, x, pr) \in 0 .. 2 * pr - 1
      /\ MultiplyLazy(t, x, pr) % pr = (x * w) % pr
  BY <1>2, LazyProduct
<1>5. Multiply(t, x, pr) = (x * w) % pr
  BY <1>2, ProductIsExact
<1>6. PICK z \in Int : z = x * w
  BY <1>3
<1>7. z % pr \in 0 .. pr - 1 /\ (z % pr) % pr = z % pr
  BY <1>1, <1>6, DivMod, ModTwice
<1> QED BY <1>3, <1>4, <1>5, <1>6, <1>7 DEF SameRest

LEMMA InvertsIs ==
  ASSUME NEW pr, Fits(pr), NEW v \in Int, NEW t, BackFactor(t, v, pr), NEW x \in Words,
         NEW y \in Int, SameRest(x, y * v, pr)
  PROVE  /\ MultiplyLazy(t, x, pr) \in 0 .. 2 * pr - 1 /\ SameRest(MultiplyLazy(t, x, pr), y, pr)
         /\ Multiply(t, x, pr) \in 0 .. pr - 1 /\ SameRest(Multiply(t, x, pr), y, pr)
<1>1. pr \in Int /\ pr > 0 /\ x \in Int
  BY FitsFacts, BaseFacts DEF Words
<1>2. PICK w \in 0 .. pr - 1 : t = Multiplier(w, pr) /\ SameRest(w * v, 1, pr)
  BY DEF BackFactor
<1>3. Fixes(t, w, pr)
  BY <1>2 DEF Fixes, SameRest
<1>4. w \in Int
  OBVIOUS
<1>5. SameRest(x * w, y, pr)
  <2>1. SameRest(w, w, pr) /\ SameRest(y, y, pr)
    BY DEF SameRest
  <2>2. PICK a \in Int, b \in Int : a = y * v /\ b = w * v
    BY <1>4
  <2>3. SameRest(x * w, a * w, pr)
    BY <1>1, <1>4, <2>1, <2>2, RestTimes
  <2>4. SameRest(y * b, y * 1, pr)
    BY <1>1, <1>2, <2>1, <2>2, RestTimes
  <2>5. a * w = y * b /\ y * 1 = y
    <3>1. (y * v) * w = y * (w * v)
      BY <1>4
    <3> QED BY <2>2, <3>1
  <2> QED BY <2>3, <2>4, <2>5, RestChains
<1>6. /\ MultiplyLazy(t, x, pr) \in 0 .. 2 * pr - 1 /\ SameRest(MultiplyLazy(t, x, pr), x * w, pr)
      /\ Multiply(t, x, pr) \in 0 .. pr - 1 /\ SameRest(Multiply(t, x, pr), x * w, pr)
  BY <1>3, <1>4, FixesIs
<1> QED BY <1>5, <1>6, RestChains

(* A product of inverses is the inverse of a product.                      *)
LEMMA InverseProduct ==
  ASSUME NEW m \in Int, m > 0, NEW a \in Int, NEW b \in Int, NEW c \in Int, NEW d \in Int,
         SameRest(a * c, 1, m), SameRest(b * d, 1, m)
  PROVE  (a * b) % m \in 0 .. m - 1 /\ SameRest(((a * b) % m) * (c * d), 1, m)
<1>1. PICK x \in Int, y \in Int, u \in Int, v \in Int : x = a * c /\ y = b * d /\ u = a * b /\ v = c * d
  OBVIOUS
<1>2. SameRest(x * y, 1 * 1, m)
  BY <1>1, RestTimes
<1>3. x * y = u * v
  <2>1. (a * c) * (b * d) = (a * b) * (c * d)
    OBVIOUS
  <2> QED BY <1>1, <2>1
<1>4. SameRest(u % m, u, m) /\ SameRest(v, v, m) /\ u % m \in Int /\ u % m \in 0 .. m - 1
  BY RestIsSame, DivMod
<1>5. SameRest((u % m) * v, u * v, m)
  BY <1>4, RestTimes
<1>6. SameRest((u % m) * v, 1, m)
  BY <1>2, <1>3, <1>5, RestChains
<1> QED BY <1>1, <1>4, <1>6

(* A power of the inverse.                                                 *)
LEMMA PowerInverts ==
  ASSUME NEW pr \in TransformModuli, NEW a \in Int, SameRest(Raise(a, 2 * RingDegree), 1, pr),
         NEW n \in Nat
  PROVE  /\ PowerMod(Invert(a, pr), n, pr) \in 0 .. pr - 1
         /\ SameRest(PowerMod(Invert(a, pr), n, pr) * Raise(a, n), 1, pr)
<1>1. pr \in Int /\ pr > 8 /\ pr > 1 /\ pr > 0
  BY TransformPrime
<1>2. PICK b \in Int : b = Invert(a, pr) /\ SameRest(b * a, 1, pr)
  BY InvertIs
<1>3. SameRest(Raise(b, n) * Raise(a, n), 1, pr)
  BY <1>1, <1>2, PowersUndo
<1>4. PICK x \in Int, y \in Int : x = Raise(b, n) /\ y = Raise(a, n)
  BY RaiseIs
<1>5. PowerMod(b, n, pr) \in Int /\ PowerMod(b, n, pr) \in 0 .. pr - 1 /\ SameRest(PowerMod(b, n, pr), x, pr)
  BY <1>1, <1>4, PowerModIs
<1>6. PICK w \in Int : w = PowerMod(b, n, pr)
  BY <1>5
<1>7. SameRest(y, y, pr) /\ SameRest(w, x, pr)
  BY <1>5, <1>6 DEF SameRest
<1>8. SameRest(w * y, x * y, pr)
  BY <1>1, <1>7, RestTimes
<1>9. SameRest(w * y, 1, pr)
  BY <1>3, <1>4, <1>8, RestChains
<1> QED BY <1>2, <1>4, <1>5, <1>6, <1>9

LEMMA DegreeInverse ==
  ASSUME NEW pr \in TransformModuli
  PROVE  /\ Invert(RingDegree % pr, pr) \in Int /\ Invert(RingDegree % pr, pr) \in 0 .. pr - 1
         /\ SameRest(Invert(RingDegree % pr, pr) * RingDegree, 1, pr)
<1>1. pr \in Int /\ pr > 8 /\ pr > 1 /\ pr - 2 \in Nat
  BY TransformPrime
<1>2. RingDegree % pr \in Int
  BY <1>1, DegreeIs, DivMod
<1>3. /\ Invert(RingDegree % pr, pr) \in Int /\ Invert(RingDegree % pr, pr) \in 0 .. pr - 1
  BY <1>1, <1>2, PowerModIs DEF Invert
<1>4. (Invert(RingDegree % pr, pr) * RingDegree) % pr = 1
  BY RootsAssumption DEF TransformModuli
<1>5. 1 % pr = 1
  BY <1>1, ModSmall
<1> QED BY <1>3, <1>4, <1>5 DEF SameRest

-----------------------------------------------------------------------------

(* What the plans hold.                                                    *)

(* The plan of the fused form: at every butterfly the twist of its block,  *)
(* and what undoes it.                                                     *)
LEMMA ReversalIs ==
  /\ Positions = 0 .. RingDegree - 1
  /\ \A i \in Positions : i \in Nat /\ BitReversed(i) \in Nat
<1>1. LogN \in 0 .. 16
  BY DegreeIs
<1>2. ASSUME NEW i \in Positions PROVE i \in Nat /\ BitReversed(i) \in Nat
  <2>1. i \in Nat
    BY DEF Positions
  <2>2. Rev(i, LogN) \in Nat
    BY <1>1, <2>1, RevIs
  <2> QED BY <2>1, <2>2, ReversedIs
<1> QED BY <1>2 DEF Positions

LEMMA BlockPosition ==
  ASSUME NEW k \in 0 .. LogN - 1, NEW b \in 0 .. Two[k] - 1
  PROVE  /\ Two[k] + b \in Positions /\ LogN - k \in 1 .. LogN /\ b \in Nat
         /\ BitReversed(Two[k] + b) = Two[(LogN - k) - 1] * Odd(LogN - k, b)
<1>1. /\ k \in 0 .. 15 /\ k + 1 \in 0 .. LogN /\ LogN - k \in 1 .. LogN
      /\ LogN - (LogN - k) = k /\ LogN - 1 - k = (LogN - k) - 1
      /\ LogN - (k + 1) \in 0 .. 16
  BY DegreeIs
<1>2. Two[k] \in Nat \ {0} /\ Two[k + 1] = 2 * Two[k]
  BY <1>1, TwoDoubles
<1>3. PICK c \in Int, d \in Int :
        c = Two[LogN - (k + 1)] /\ c >= 1 /\ d = Two[k + 1] /\ d > 0 /\ c * d = RingDegree
  <2>1. PICK l \in 0 .. LogN : l = k + 1
    BY <1>1
  <2>2. /\ Two[l] \in Nat /\ Two[l] > 0 /\ Two[LogN - l] \in Nat /\ Two[LogN - l] > 0
        /\ Two[LogN - l] * Two[l] = RingDegree
    BY LevelIs
  <2> QED BY <2>1, <2>2
<1>4. c * d = RingDegree
  BY <1>3
<1>5. 1 * d <= c * d
  BY <1>3, TimesMonotone
<1>6. 1 * d = d
  BY <1>3
<1>7. d <= RingDegree /\ RingDegree \in Int
  BY <1>4, <1>5, <1>6, DegreeIs
<1>8. b \in Nat /\ Two[k] + b \in 0 .. RingDegree - 1
  BY <1>2, <1>3, <1>7
<1>9. BitReversed(Two[k] + b) = Two[LogN - 1 - k] * (2 * Rev(b, k) + 1)
  BY ReversedAt
<1> QED BY <1>1, <1>8, <1>9, ReversalIs DEF Odd

LEMMA FusedRoots ==
  ASSUME NEW pr \in TransformModuli, NEW i \in Positions
  PROVE  /\ Fixes(FusedPlan(pr).roots[i], Raise(Psi(pr), BitReversed(i)), pr)
         /\ BackFactor(FusedPlan(pr).inverses[i], Raise(Psi(pr), BitReversed(i)), pr)
<1> DEFINE s == Psi(pr)
           n == BitReversed(i)
<1>1. pr \in Int /\ pr > 8 /\ pr > 1
  BY TransformPrime
<1>2. s \in Int /\ SameRest(Raise(s, 2 * RingDegree), 1, pr)
  BY PsiIs
<1>3. n \in Nat
  BY ReversalIs
<1>4. FusedPlan(pr).roots[i] = Multiplier(PowerMod(s, n, pr), pr)
  BY DEF FusedPlan
<1>5. FusedPlan(pr).inverses[i] = Multiplier(PowerMod(Invert(s, pr), n, pr), pr)
  BY DEF FusedPlan
<1> HIDE DEF s, n
<1>6. PowerMod(s, n, pr) \in 0 .. pr - 1 /\ SameRest(PowerMod(s, n, pr), Raise(s, n), pr)
  BY <1>1, <1>2, <1>3, PowerModIs
<1>7. /\ PowerMod(Invert(s, pr), n, pr) \in 0 .. pr - 1
      /\ SameRest(PowerMod(Invert(s, pr), n, pr) * Raise(s, n), 1, pr)
  BY <1>2, <1>3, PowerInverts
<1>8. Fixes(FusedPlan(pr).roots[i], Raise(s, n), pr)
  BY <1>4, <1>6 DEF Fixes
<1>9. BackFactor(FusedPlan(pr).inverses[i], Raise(s, n), pr)
  BY <1>5, <1>7 DEF BackFactor
<1> QED BY <1>8, <1>9 DEF s, n

LEMMA FusedEnds ==
  ASSUME NEW pr \in TransformModuli
  PROVE  /\ BackFactor(FusedPlan(pr).scale, RingDegree, pr)
         /\ BackFactor(FusedPlan(pr).last, Twiddle(Psi(pr), LogN, 0) * RingDegree, pr)
<1> DEFINE s == Psi(pr)
           n == Invert(RingDegree % pr, pr)
           back == PowerMod(Invert(s, pr), BitReversed(1), pr)
<1>1. pr \in Int /\ pr > 8 /\ pr > 1 /\ pr > 0
  BY TransformPrime
<1>2. s \in Int /\ SameRest(Raise(s, 2 * RingDegree), 1, pr)
  BY PsiIs
<1>3. n \in Int /\ n \in 0 .. pr - 1 /\ SameRest(n * RingDegree, 1, pr)
  BY DegreeInverse
<1>4. BitReversed(1) = Two[LogN - 1] * Odd(LogN, 0) /\ BitReversed(1) \in Nat
  <2>1. 0 \in 0 .. LogN - 1 /\ 0 \in 0 .. Two[0] - 1 /\ Two[0] + 0 = 1 /\ LogN - 0 = LogN
    BY DegreeIs, TwoValues
  <2>2. /\ Two[0] + 0 \in Positions
        /\ BitReversed(Two[0] + 0) = Two[(LogN - 0) - 1] * Odd(LogN - 0, 0)
    BY <2>1, BlockPosition
  <2> QED BY <2>1, <2>2, ReversalIs
<1>5. /\ back \in 0 .. pr - 1
      /\ SameRest(back * Raise(s, BitReversed(1)), 1, pr)
  BY <1>2, <1>4, PowerInverts
<1>6. Raise(s, BitReversed(1)) = Twiddle(s, LogN, 0) /\ Twiddle(s, LogN, 0) \in Int
  BY <1>2, <1>4, RaiseIs DEF Twiddle
<1>7. FusedPlan(pr).scale = Multiplier(n, pr)
  BY DEF FusedPlan
<1>8. FusedPlan(pr).last = Multiplier((back * n) % pr, pr)
  BY DEF FusedPlan
<1> HIDE DEF n, back, s
<1>9. PICK w \in Int : w = Twiddle(s, LogN, 0)
  BY <1>6
<1>10. back \in Int /\ RingDegree \in Int
  BY <1>5, DegreeIs
<1>11. SameRest(back * w, 1, pr)
  BY <1>5, <1>6, <1>9
<1>12. (back * n) % pr \in 0 .. pr - 1 /\ SameRest(((back * n) % pr) * (w * RingDegree), 1, pr)
  BY <1>1, <1>3, <1>10, <1>11, InverseProduct
<1>13. BackFactor(FusedPlan(pr).scale, RingDegree, pr)
  BY <1>3, <1>7 DEF BackFactor
<1>14. BackFactor(FusedPlan(pr).last, w * RingDegree, pr)
  BY <1>8, <1>12 DEF BackFactor
<1> QED BY <1>9, <1>13, <1>14 DEF s

(* The plan of the other forms: the powers of psi, and of its square.      *)
LEMMA TwistedTwists ==
  ASSUME NEW pr \in TransformModuli, NEW form, NEW i \in Positions
  PROVE  /\ Fixes(TwistedPlan(form, pr).twists[i], Raise(Psi(pr), i), pr)
         /\ BackFactor(TwistedPlan(form, pr).scales[i], RingDegree * Raise(Psi(pr), i), pr)
<1> DEFINE s == Psi(pr)
           n == Invert(RingDegree % pr, pr)
           back == PowerMod(Invert(s, pr), i, pr)
<1>1. pr \in Int /\ pr > 8 /\ pr > 1 /\ pr > 0 /\ i \in Nat
  BY TransformPrime, ReversalIs
<1>2. s \in Int /\ SameRest(Raise(s, 2 * RingDegree), 1, pr)
  BY PsiIs
<1>3. n \in Int /\ n \in 0 .. pr - 1 /\ SameRest(n * RingDegree, 1, pr)
  BY DegreeInverse
<1>4. TwistedPlan(form, pr).twists[i] = Multiplier(PowerMod(s, i, pr), pr)
  BY DEF TwistedPlan
<1>5. TwistedPlan(form, pr).scales[i] = Multiplier((n * back) % pr, pr)
  BY DEF TwistedPlan
<1>6. back \in 0 .. pr - 1 /\ SameRest(back * Raise(s, i), 1, pr)
  BY <1>1, <1>2, PowerInverts
<1> HIDE DEF s, n, back
<1>7. PowerMod(s, i, pr) \in 0 .. pr - 1 /\ SameRest(PowerMod(s, i, pr), Raise(s, i), pr)
  BY <1>1, <1>2, PowerModIs
<1>8. Fixes(TwistedPlan(form, pr).twists[i], Raise(s, i), pr)
  BY <1>4, <1>7 DEF Fixes
<1>9. PICK w \in Int : w = Raise(s, i)
  BY <1>1, <1>2, RaiseIs
<1>10. back \in Int /\ RingDegree \in Int
  BY <1>6, DegreeIs
<1>11. (n * back) % pr \in 0 .. pr - 1 /\ SameRest(((n * back) % pr) * (RingDegree * w), 1, pr)
  BY <1>1, <1>3, <1>6, <1>9, <1>10, InverseProduct
<1>12. BackFactor(TwistedPlan(form, pr).scales[i], RingDegree * w, pr)
  BY <1>5, <1>11 DEF BackFactor
<1> QED BY <1>8, <1>9, <1>12 DEF s

LEMMA TwistedRoots ==
  ASSUME NEW pr \in TransformModuli, NEW form, NEW i \in 0 .. RingDegree \div 2 - 1
  PROVE  /\ Fixes(TwistedPlan(form, pr).roots[i], Raise(Psi(pr), 2 * i), pr)
         /\ BackFactor(TwistedPlan(form, pr).inverses[i], Raise(Psi(pr), 2 * i), pr)
<1> DEFINE s == Psi(pr)
           o == (s * s) % pr
<1>1. pr \in Int /\ pr > 8 /\ pr > 1 /\ pr > 0 /\ i \in Nat /\ 2 * i \in Nat
  BY TransformPrime
<1>2. s \in Int /\ SameRest(Raise(s, 2 * RingDegree), 1, pr)
  BY PsiIs
<1>3. TwistedPlan(form, pr).roots[i] = Multiplier(PowerMod(o, i, pr), pr)
  BY DEF TwistedPlan
<1>4. TwistedPlan(form, pr).inverses[i] = Multiplier(PowerMod(Invert(o, pr), i, pr), pr)
  BY DEF TwistedPlan
<1> HIDE DEF s
<1>5. PICK r \in Int : r = s * s
  BY <1>2
<1>6. o \in Int /\ SameRest(o, r, pr)
  BY <1>1, <1>5, RestIsSame, DivMod
<1> HIDE DEF o
<1>7. ASSUME NEW n \in Nat PROVE Raise(r, n) = Raise(s, 2 * n) /\ SameRest(Raise(o, n), Raise(r, n), pr)
  <2>1. Raise(s, 1) = s /\ 1 \in Nat /\ 2 \in Nat /\ 1 + 1 = 2
    BY <1>2, RaiseOne
  <2>2. Raise(s, 1 + 1) = Raise(s, 1) * Raise(s, 1)
    BY <1>2, <2>1, RaiseAdds
  <2>3. Raise(s, 2) = r
    BY <1>5, <2>1, <2>2
  <2>4. Raise(Raise(s, 2), n) = Raise(s, 2 * n)
    BY <1>2, <2>1, RaiseTimes
  <2>5. SameRest(Raise(o, n), Raise(r, n), pr)
    BY <1>1, <1>6, RaiseRest
  <2> QED BY <2>3, <2>4, <2>5
<1>8. SameRest(Raise(o, 2 * RingDegree), 1, pr)
  <2>1. PICK d \in Nat : d = 2 * RingDegree /\ d = RingDegree + RingDegree
    BY DegreeIs
  <2>2. SameRest(Raise(o, d), Raise(r, d), pr) /\ Raise(r, d) = Raise(s, d) * Raise(s, d)
    BY <1>2, <1>5, <1>7, <2>1, RaiseProduct
  <2>3. PICK x \in Int : x = Raise(s, d)
    BY <1>2, <2>1, RaiseIs
  <2>4. SameRest(x * x, 1 * 1, pr)
    BY <1>1, <1>2, <2>1, <2>3, RestTimes
  <2>5. SameRest(Raise(o, d), x * x, pr) /\ 1 * 1 = 1
    BY <2>2, <2>3
  <2> QED BY <2>1, <2>4, <2>5, RestChains
<1>9. PICK v \in Int : v = Raise(s, 2 * i) /\ v = Raise(r, i) /\ SameRest(Raise(o, i), v, pr)
  BY <1>1, <1>2, <1>7, RaiseIs
<1>10. PowerMod(o, i, pr) \in 0 .. pr - 1 /\ SameRest(PowerMod(o, i, pr), Raise(o, i), pr)
  BY <1>1, <1>6, PowerModIs
<1>11. Fixes(TwistedPlan(form, pr).roots[i], v, pr)
  <2>1. SameRest(PowerMod(o, i, pr), v, pr)
    BY <1>9, <1>10, RestChains
  <2> QED BY <1>3, <1>10, <2>1 DEF Fixes
<1>12. PICK w \in 0 .. pr - 1 : w = PowerMod(Invert(o, pr), i, pr) /\ SameRest(w * Raise(o, i), 1, pr)
  BY <1>1, <1>6, <1>8, PowerInverts
<1>13. SameRest(w * v, 1, pr)
  <2>1. PICK x \in Int : x = Raise(o, i)
    BY <1>1, <1>6, RaiseIs
  <2>2. SameRest(w, w, pr) /\ SameRest(x, v, pr) /\ w \in Int
    BY <1>9, <2>1 DEF SameRest
  <2>3. SameRest(w * x, w * v, pr)
    BY <1>1, <2>1, <2>2, RestTimes
  <2> QED BY <1>12, <2>1, <2>3 DEF SameRest
<1>14. BackFactor(TwistedPlan(form, pr).inverses[i], v, pr)
  BY <1>4, <1>12, <1>13 DEF BackFactor
<1> QED BY <1>9, <1>11, <1>14 DEF s

-----------------------------------------------------------------------------

(* Positions in blocks, and what a value stands for there.                 *)

(* Position j of block b of length 2^l.                                    *)
At(l, b, j) == b * Two[l] + j

LEMMA AtIs ==
  ASSUME NEW l \in 0 .. LogN, NEW b \in 0 .. Two[LogN - l] - 1, NEW j \in 0 .. Two[l] - 1
  PROVE  At(l, b, j) \in Positions /\ At(l, b, j) \div Two[l] = b /\ At(l, b, j) % Two[l] = j
<1>1. PICK a \in Int, c \in Int :
        a = Two[l] /\ a > 0 /\ c = Two[LogN - l] /\ c > 0 /\ c * a = RingDegree
  BY LevelIs
<1>2. b \in Int /\ j \in Int /\ 0 <= b /\ b + 1 <= c /\ 0 <= j /\ j < a
  BY <1>1
<1>3. (b * a + j) \div a = b /\ (b * a + j) % a = j
  BY <1>1, <1>2, DivModUnique
<1>4. (b + 1) * a <= c * a /\ 0 <= b * a
  BY <1>1, <1>2, TimesMonotone, TimesSign
<1>5. b * a \in Int /\ (b + 1) * a = b * a + a
  BY <1>1, <1>2
<1>6. b * a + j \in 0 .. RingDegree - 1
  BY <1>1, <1>2, <1>4, <1>5
<1> QED BY <1>1, <1>3, <1>6 DEF At, Positions

(* The butterfly of a position.                                            *)
Located(l, i, b, j, o) ==
  /\ length \div 2 = Two[l - 1] /\ RingDegree \div length = Two[LogN - l]
  /\ i \div length = b /\ InHalf(i) = j /\ (IsFirst(i) <=> o = 0)
  /\ First(i) = At(l, b, j) /\ i = At(l - 1, 2 * b + o, j)
  /\ First(i) + length \div 2 = At(l, b, j + Two[l - 1])

LEMMA Locates ==
  ASSUME NEW l \in 1 .. LogN, length = Two[l], NEW i \in Positions
  PROVE  \E b \in 0 .. Two[LogN - l] - 1, j \in 0 .. Two[l - 1] - 1, o \in {0, 1} :
           Located(l, i, b, j, o)
<1>0. l \in 0 .. LogN /\ l - 1 \in 0 .. 15 /\ (l - 1) + 1 = l
  BY DegreeIs
<1>1. PICK h \in Int : h = Two[l - 1] /\ h > 0 /\ Two[l] = 2 * h
  <2>1. Two[l - 1] \in Nat \ {0} /\ Two[(l - 1) + 1] = 2 * Two[l - 1]
    BY <1>0, TwoDoubles
  <2> QED BY <1>0, <2>1
<1>2. PICK a \in Int, c \in Int :
        a = Two[l] /\ a = 2 * h /\ c = Two[LogN - l] /\ c * a = RingDegree /\ RingDegree \div a = c
  BY <1>0, <1>1, LevelIs
<1>3. i \in Int /\ 0 <= i /\ i < RingDegree
  BY DegreeIs DEF Positions
<1>4. PICK b \in Int, r \in Int : b = i \div a /\ r = i % a /\ i = b * a + r /\ 0 <= r /\ r < a
  <2>1. a > 0
    BY <1>1, <1>2
  <2> QED BY <1>2, <1>3, <2>1, DivMod
<1>5. 0 <= b /\ b < c
  <2>0. a > 0
    BY <1>1, <1>2
  <2>1. b * a \in Int /\ (0 - 1) * a = - a
    OBVIOUS
  <2>2. (0 - 1) * a < b * a /\ b * a < c * a
    BY <1>2, <1>3, <1>4, <2>0, <2>1
  <2>3. 0 - 1 < b /\ b < c
    BY <1>2, <1>4, <2>0, <2>2, TimesCancel
  <2> QED BY <1>4, <2>3
<1>6. PICK o \in {0, 1}, j \in Int : r = o * h + j /\ 0 <= j /\ j < h /\ (r < h <=> o = 0)
  <2>1. CASE r < h
    <3>1. r = 0 * h + r
      BY <1>1, <1>4
    <3> QED BY <1>1, <1>4, <2>1, <3>1
  <2>2. CASE ~ r < h
    <3>1. PICK k \in Int : k = r - h /\ 0 <= k /\ k < h
      BY <1>1, <1>2, <1>4, <2>2
    <3>2. r = 1 * h + k
      BY <3>1
    <3> QED BY <1>1, <1>4, <2>2, <3>1, <3>2
  <2> QED BY <2>1, <2>2
<1>7. r % h = j
  <2>0. o \in Int
    OBVIOUS
  <2>1. (o * h + j) % h = j
    BY <1>1, <1>6, <2>0, DivModUnique
  <2> QED BY <1>6, <2>1
<1>8. a \div 2 = h
  <2>1. (h * 2 + 0) \div 2 = h /\ h * 2 + 0 = a
    BY <1>1, <1>2, DivModUnique
  <2> QED BY <2>1
<1>9. PICK e \in Int, f \in Int : e = b * a /\ f = o * h
  BY <1>1, <1>2, <1>4
<1>10. (2 * b + o) * h + j = i
  <2>0. o \in Int
    OBVIOUS
  <2>1. (2 * b + o) * h = b * (2 * h) + o * h
    BY <2>0
  <2>2. (2 * b + o) * h = e + f
    BY <1>2, <1>9, <2>1
  <2> QED BY <1>4, <1>6, <1>9, <2>2
<1>11. (i - r) + j = b * a + j /\ (b * a + j) + h = b * a + (j + h)
  <2>1. i = e + r
    BY <1>4, <1>9
  <2>2. (i - r) + j = e + j /\ (e + j) + h = e + (j + h)
    BY <1>1, <1>4, <1>6, <1>9, <2>1
  <2> QED BY <1>9, <2>2
<1>12. length = a
  BY <1>2
<1>13. First(i) = b * a + j /\ InHalf(i) = j /\ (IsFirst(i) <=> r < h)
  <2>1. i % length = r /\ length \div 2 = h
    BY <1>4, <1>8, <1>12
  <2>2. InHalf(i) = r % h
    BY <2>1 DEF InHalf
  <2>3. (IsFirst(i) <=> r < h)
    BY <2>1 DEF IsFirst
  <2>4. First(i) = (i - r) + (r % h)
    BY <2>1 DEF First
  <2>5. First(i) = b * a + j
    BY <1>7, <1>11, <2>4
  <2>6. InHalf(i) = j
    BY <1>7, <2>2
  <2> QED BY <2>3, <2>5, <2>6
<1>14. b \in 0 .. Two[LogN - l] - 1 /\ j \in 0 .. Two[l - 1] - 1
  <2>1. b \in 0 .. c - 1
    BY <1>5
  <2>2. j \in 0 .. h - 1
    BY <1>6
  <2> QED BY <1>1, <1>2, <2>1, <2>2
<1>15. Located(l, i, b, j, o)
  <2>1. First(i) = At(l, b, j) /\ First(i) + h = At(l, b, j + h)
    BY <1>2, <1>11, <1>13 DEF At
  <2>2. i = At(l - 1, 2 * b + o, j)
    BY <1>1, <1>10 DEF At
  <2> QED BY <1>1, <1>2, <1>4, <1>6, <1>8, <1>12, <1>13, <2>1, <2>2 DEF Located
<1> QED BY <1>14, <1>15

(* What stands at a position when the blocks have length 2^l.              *)
Standing(form, s, x, l, b, j) ==
  Block(x, s, l, b, j) * (IF form = "fused" THEN 1 ELSE Raise(s, j * Odd(l, b)))

LEMMA StandingIs ==
  ASSUME NEW form, NEW s \in Int, NEW l \in 0 .. LogN, NEW b \in Nat, NEW j \in 0 .. Two[l] - 1,
         NEW x, Integral(x, RingDegree)
  PROVE  /\ Standing(form, s, x, l, b, j) \in Int
         /\ form = "fused" => Standing(form, s, x, l, b, j) = Block(x, s, l, b, j)
<1>1. PICK w \in Nat : w = Odd(l, b)
  BY OddIs
<1>2. j \in Nat /\ j * w \in Nat
  BY <1>1, LevelIs
<1>3. PICK e \in Int : e = Raise(s, j * w)
  BY <1>2, RaiseIs
<1>4. PICK a \in Int : a = Block(x, s, l, b, j)
  BY BlockIs
<1>5. Standing(form, s, x, l, b, j) = a * (IF form = "fused" THEN 1 ELSE e)
  BY <1>1, <1>3, <1>4 DEF Standing
<1>6. a * 1 = a /\ a * e \in Int
  OBVIOUS
<1> QED BY <1>4, <1>5, <1>6

LEMMA SplitFused ==
  ASSUME NEW m \in Int, m > 1, NEW s \in Int, SameRest(Raise(s, RingDegree), -1, m),
         NEW l \in 1 .. LogN, NEW b \in Nat, NEW o \in {0, 1}, NEW j \in 0 .. Two[l - 1] - 1,
         NEW x, Integral(x, RingDegree)
  PROVE  SameRest(Standing("fused", s, x, l - 1, 2 * b + o, j),
                  Standing("fused", s, x, l, b, j)
                    + Signed(o, Twiddle(s, l, b) * Standing("fused", s, x, l, b, j + Two[l - 1])), m)
<1>1. l \in 0 .. LogN /\ l - 1 \in 0 .. LogN /\ 2 * b + o \in Nat
  BY DegreeIs
<1>2. j \in 0 .. Two[l] - 1 /\ j + Two[l - 1] \in 0 .. Two[l] - 1
  <2>1. PICK h \in Nat : h = Two[l - 1] /\ Two[l] = 2 * h
    BY TwiddleIs
  <2>2. j \in 0 .. h - 1
    BY <2>1
  <2>3. j \in 0 .. 2 * h - 1 /\ j + h \in 0 .. 2 * h - 1
    BY <2>2
  <2> QED BY <2>1, <2>3
<1>3. /\ Standing("fused", s, x, l - 1, 2 * b + o, j) = Block(x, s, l - 1, 2 * b + o, j)
      /\ Standing("fused", s, x, l, b, j) = Block(x, s, l, b, j)
      /\ Standing("fused", s, x, l, b, j + Two[l - 1]) = Block(x, s, l, b, j + Two[l - 1])
  BY <1>1, <1>2, StandingIs
<1> QED BY <1>3, Butterfly

LEMMA SplitTwisted ==
  ASSUME NEW m \in Int, m > 1, NEW s \in Int, SameRest(Raise(s, RingDegree), -1, m),
         NEW l \in 1 .. LogN, NEW b \in Nat, NEW o \in {0, 1}, NEW j \in 0 .. Two[l - 1] - 1,
         NEW x, Integral(x, RingDegree), NEW form, form # "fused"
  PROVE  SameRest(Standing(form, s, x, l - 1, 2 * b + o, j),
                  (Standing(form, s, x, l, b, j) + Signed(o, Standing(form, s, x, l, b, j + Two[l - 1])))
                    * Raise(s, o * (2 * (j * Two[LogN - l]))), m)
<1>1. l \in 0 .. LogN /\ l - 1 \in 0 .. LogN /\ 2 * b + o \in Nat /\ m > 0
  BY DegreeIs
<1>2. PICK h \in Nat, c \in Nat, w \in Nat :
        h = Two[l - 1] /\ c = Two[LogN - l] /\ w = Odd(l, b) /\ Two[l] = 2 * h
  BY <1>1, OddIs, TwiddleIs, LevelIs
<1>3. j \in 0 .. Two[l] - 1 /\ j + h \in 0 .. Two[l] - 1 /\ j \in Nat
  BY <1>2
<1>4. PICK jw \in Nat, hw \in Nat, e2 \in Nat :
        jw = j * w /\ hw = h * w /\ e2 = o * (2 * (j * c))
  BY <1>2, <1>3
<1>5. PICK ee \in Int, ww \in Int, rr \in Int :
        ee = Raise(s, jw) /\ ww = Raise(s, hw) /\ rr = Raise(s, e2)
  BY <1>4, RaiseIs
<1>6. PICK aa \in Int, cc \in Int, zz \in Int :
        /\ aa = Block(x, s, l, b, j) /\ cc = Block(x, s, l, b, j + h)
        /\ zz = Block(x, s, l - 1, 2 * b + o, j)
  <2>1. j \in 0 .. Two[l - 1] - 1
    OBVIOUS
  <2>2. Block(x, s, l, b, j) \in Int /\ Block(x, s, l, b, j + h) \in Int
    BY <1>1, <1>3, BlockIs
  <2>3. Block(x, s, l - 1, 2 * b + o, j) \in Int
    BY <1>1, <2>1, BlockIs
  <2> QED BY <2>2, <2>3
<1>7. SameRest(zz, aa + Signed(o, ww * cc), m)
  BY <1>2, <1>4, <1>5, <1>6, Butterfly DEF Twiddle
<1>8. Standing(form, s, x, l, b, j) = aa * ee
  BY <1>2, <1>4, <1>5, <1>6 DEF Standing
<1>9. Standing(form, s, x, l, b, j + h) = cc * (ee * ww)
  <2>1. (j + h) * w = j * w + h * w
    BY <1>2, <1>3
  <2>2. Raise(s, jw + hw) = ee * ww
    BY <1>4, <1>5, RaiseAdds
  <2> QED BY <1>2, <1>4, <1>6, <2>1, <2>2 DEF Standing
<1>10. Standing(form, s, x, l - 1, 2 * b + o, j) = zz * (ee * rr)
  <2>1. Odd(l - 1, 2 * b + o) = w + o * (2 * c)
    BY <1>2, TurnHalves
  <2>2. j * (w + o * (2 * c)) = j * w + o * (2 * (j * c))
    <3>1. \A p1, p2, p3 \in Nat : p1 * (p2 + 0 * (2 * p3)) = p1 * p2 + 0 * (2 * (p1 * p3))
      OBVIOUS
    <3>2. \A p1, p2, p3 \in Nat : p1 * (p2 + 1 * (2 * p3)) = p1 * p2 + 1 * (2 * (p1 * p3))
      OBVIOUS
    <3>3. CASE o = 0
      BY <1>3, <3>1, <3>3
    <3>4. CASE o = 1
      BY <1>3, <3>2, <3>4
    <3> QED BY <3>3, <3>4
  <2>3. Raise(s, jw + e2) = ee * rr
    <3>1. Raise(s, jw + e2) = Raise(s, jw) * Raise(s, e2)
      BY RaiseAdds
    <3> QED BY <1>5, <3>1
  <2> QED BY <1>4, <1>6, <2>1, <2>2, <2>3 DEF Standing
<1>11. PICK uu \in Int, er \in Int : uu = aa + Signed(o, ww * cc) /\ er = ee * rr
  BY DEF Signed
<1>12. SameRest(zz * er, uu * er, m)
  <2>1. SameRest(er, er, m) /\ SameRest(zz, uu, m)
    BY <1>7, <1>11 DEF SameRest
  <2> QED BY <1>1, <2>1, RestTimes
<1>13. (aa * ee + Signed(o, cc * (ee * ww))) * rr = uu * er
  <2>1. CASE o = 0
    <3>1. (aa * ee + cc * (ee * ww)) * rr = (aa + ww * cc) * (ee * rr)
      OBVIOUS
    <3> QED BY <1>11, <2>1, <3>1 DEF Signed
  <2>2. CASE o = 1
    <3>1. (aa * ee + -(cc * (ee * ww))) * rr = (aa + -(ww * cc)) * (ee * rr)
      OBVIOUS
    <3> QED BY <1>11, <2>2, <3>1 DEF Signed
  <2> QED BY <2>1, <2>2
<1> QED BY <1>2, <1>4, <1>5, <1>8, <1>9, <1>10, <1>11, <1>12, <1>13

-----------------------------------------------------------------------------

(* One butterfly.                                                          *)

(* One butterfly, with what it adds to keep its words from going below 0   *)
(* and how late it reduces them.                                           *)
Range4(pr) == 0 .. 4 * pr - 1
Range2(pr) == 0 .. 2 * pr - 1

LEMMA RangeFacts ==
  ASSUME NEW pr, Fits(pr)
  PROVE  /\ pr \in Int /\ pr > 1 /\ pr > 0 /\ B \in Int /\ 8 * pr < B
         /\ \A z \in 0 .. 4 * pr : z \in Words /\ z % B = z
<1>1. pr \in Int /\ pr > 1 /\ 16 * pr < B /\ B \in Int /\ B > 0
  BY FitsFacts, BaseFacts
<1>2. ASSUME NEW z \in 0 .. 4 * pr PROVE z \in Words /\ z % B = z
  <2>1. z \in Int /\ 0 <= z /\ z < B
    BY <1>1
  <2>2. z % B = z
    BY <1>1, <2>1, ModSmall
  <2> QED BY <1>1, <2>1, <2>2 DEF Words
<1> QED BY <1>1, <1>2

LEMMA ReducesOnce ==
  ASSUME NEW pr, Fits(pr), NEW k \in {1, 2}, NEW m \in Int, m = k * pr, NEW z \in 0 .. 2 * m - 1
  PROVE  Below(z, m) \in 0 .. m - 1 /\ SameRest(Below(z, m), z, pr)
<1>1. pr \in Int /\ pr > 0 /\ m > 0
  BY RangeFacts
<1>2. CASE z >= m
  <2>0. PICK e \in Int, y \in Int : e = -k /\ y = z
    OBVIOUS
  <2>1. (y + e * pr) % pr = y % pr
    BY <1>1, ModShift
  <2>2. z + e * pr = z - m /\ Below(z, m) = z - m
    BY <1>1, <1>2, <2>0 DEF Below
  <2> QED BY <1>1, <1>2, <2>0, <2>1, <2>2 DEF SameRest
<1>3. CASE ~ z >= m
  BY <1>1, <1>3 DEF SameRest, Below
<1> QED BY <1>2, <1>3

LEMMA Borrows ==
  ASSUME NEW pr, Fits(pr), NEW k \in {1, 2}, NEW m \in Int, m = k * pr,
         NEW a \in Int, NEW b \in Int, NEW x \in Int, NEW y \in Int,
         SameRest(a, x, pr), SameRest(b, y, pr)
  PROVE  /\ SameRest(a + b, x + y, pr) /\ SameRest(a + m - b, x - y, pr)
         /\ a + b \in Int /\ a + m - b \in Int /\ x + y \in Int /\ x - y \in Int
<1>1. pr \in Int /\ pr > 0 /\ k \in Int
  BY RangeFacts
<1>2. SameRest(a + b, x + y, pr) /\ SameRest(a - b, x - y, pr)
  BY <1>1, RestAdds, RestMinus
<1>3. ((a - b) + k * pr) % pr = (a - b) % pr
  <2>1. PICK d \in Int : d = a - b
    OBVIOUS
  <2>2. (d + k * pr) % pr = d % pr
    BY <1>1, ModShift
  <2> QED BY <2>1, <2>2
<1>4. (a - b) + k * pr = a + m - b
  BY <1>1
<1> QED BY <1>2, <1>3, <1>4 DEF SameRest

LEMMA FusedForward ==
  ASSUME NEW pr, Fits(pr), NEW t, NEW w \in Int, Fixes(t, w, pr),
         NEW a \in Range4(pr), NEW b \in Range4(pr), NEW x \in Int, NEW y \in Int,
         SameRest(a, x, pr), SameRest(b, y, pr), NEW o \in {0, 1},
         NEW u, u = Below(a, 2 * pr), NEW v, v = MultiplyLazy(t, b, pr)
  PROVE  /\ (IF o = 0 THEN u + v ELSE u + 2 * pr - v) % B \in Range4(pr)
         /\ SameRest((IF o = 0 THEN u + v ELSE u + 2 * pr - v) % B, x + Signed(o, w * y), pr)
<1>1. pr \in Int /\ pr > 0 /\ a \in Int /\ b \in Int
  BY RangeFacts DEF Range4
<1>2. PICK m \in Int : m = 2 * pr
  BY <1>1
<1>3. a \in 0 .. 2 * m - 1 /\ b \in 0 .. 4 * pr
  BY <1>1, <1>2 DEF Range4
<1>4. u \in 0 .. m - 1 /\ SameRest(u, a, pr)
  BY <1>2, <1>3, ReducesOnce
<1>5. b \in Words
  BY <1>3, RangeFacts
<1>6. v \in 0 .. 2 * pr - 1 /\ SameRest(v, b * w, pr)
  BY <1>5, FixesIs
<1>7. SameRest(b * w, y * w, pr)
  <2>1. SameRest(w, w, pr)
    BY DEF SameRest
  <2> QED BY <1>1, <2>1, RestTimes
<1>8. PICK z \in Int : z = w * y /\ SameRest(v, z, pr)
  <2>1. w * y = y * w /\ w * y \in Int
    OBVIOUS
  <2> QED BY <1>6, <1>7, <2>1, RestChains
<1>9. SameRest(u, x, pr) /\ u \in Int /\ v \in Int
  BY <1>1, <1>2, <1>4, <1>6, RestChains
<1>10. SameRest(u + v, x + z, pr) /\ SameRest(u + m - v, x - z, pr)
  BY <1>2, <1>8, <1>9, Borrows
<1>11. u + v \in 0 .. 4 * pr - 1 /\ u + m - v \in 0 .. 4 * pr
  BY <1>1, <1>2, <1>4, <1>6
<1>12. u + m - v \in 0 .. 4 * pr - 1
  BY <1>1, <1>2, <1>4, <1>6
<1>13. (u + v) % B = u + v /\ (u + m - v) % B = u + m - v
  <2>1. u + v \in 0 .. 4 * pr
    BY <1>1, <1>11
  <2> QED BY <1>11, <2>1, RangeFacts
<1>14. CASE o = 0
  BY <1>8, <1>10, <1>11, <1>13, <1>14 DEF Range4, Signed
<1>15. CASE o = 1
  <2>1. x - z = x + -z
    OBVIOUS
  <2> QED BY <1>2, <1>8, <1>10, <1>12, <1>13, <1>15, <2>1 DEF Range4, Signed
<1> QED BY <1>14, <1>15

Times(k, t, x, pr) == IF k = 1 THEN Multiply(t, x, pr) ELSE MultiplyLazy(t, x, pr)

LEMMA TimesFixes ==
  ASSUME NEW pr, Fits(pr), NEW k \in {1, 2}, NEW m \in Int, m = k * pr,
         NEW t, NEW w \in Int, Fixes(t, w, pr), NEW z \in 0 .. 4 * pr
  PROVE  Times(k, t, z, pr) \in 0 .. m - 1 /\ SameRest(Times(k, t, z, pr), z * w, pr)
<1>1. z \in Words /\ pr \in Int
  BY RangeFacts
<1>2. /\ MultiplyLazy(t, z, pr) \in 0 .. 2 * pr - 1 /\ SameRest(MultiplyLazy(t, z, pr), z * w, pr)
      /\ Multiply(t, z, pr) \in 0 .. pr - 1 /\ SameRest(Multiply(t, z, pr), z * w, pr)
  BY <1>1, FixesIs
<1>3. CASE k = 1
  <2>1. m = pr
    BY <1>1, <1>3
  <2> QED BY <1>2, <1>3, <2>1 DEF Times
<1>4. CASE k = 2
  BY <1>2, <1>4 DEF Times
<1> QED BY <1>3, <1>4

LEMMA TimesInverts ==
  ASSUME NEW pr, Fits(pr), NEW k \in {1, 2}, NEW m \in Int, m = k * pr,
         NEW t, NEW w \in Int, BackFactor(t, w, pr), NEW z \in 0 .. 4 * pr, NEW y \in Int,
         SameRest(z, y * w, pr)
  PROVE  Times(k, t, z, pr) \in 0 .. m - 1 /\ SameRest(Times(k, t, z, pr), y, pr)
<1>1. z \in Words /\ pr \in Int
  BY RangeFacts
<1>2. /\ MultiplyLazy(t, z, pr) \in 0 .. 2 * pr - 1 /\ SameRest(MultiplyLazy(t, z, pr), y, pr)
      /\ Multiply(t, z, pr) \in 0 .. pr - 1 /\ SameRest(Multiply(t, z, pr), y, pr)
  BY <1>1, InvertsIs
<1>3. CASE k = 1
  <2>1. m = pr
    BY <1>1, <1>3
  <2> QED BY <1>2, <1>3, <2>1 DEF Times
<1>4. CASE k = 2
  BY <1>2, <1>4 DEF Times
<1> QED BY <1>3, <1>4

LEMMA TwistedForward ==
  ASSUME NEW pr, Fits(pr), NEW k \in {1, 2}, NEW m \in Int, m = k * pr,
         NEW t, NEW w \in Int, Fixes(t, w, pr),
         NEW a \in 0 .. m - 1, NEW b \in 0 .. m - 1, NEW x \in Int, NEW y \in Int,
         SameRest(a, x, pr), SameRest(b, y, pr)
  PROVE  /\ Below(a + b, m) \in 0 .. m - 1 /\ SameRest(Below(a + b, m), x + y, pr)
         /\ Times(k, t, a + m - b, pr) \in 0 .. m - 1
         /\ SameRest(Times(k, t, a + m - b, pr), (x - y) * w, pr)
<1>1. pr \in Int /\ pr > 0 /\ a \in Int /\ b \in Int /\ m <= 2 * pr
  BY RangeFacts
<1>2. /\ SameRest(a + b, x + y, pr) /\ SameRest(a + m - b, x - y, pr)
      /\ a + b \in Int /\ a + m - b \in Int /\ x + y \in Int /\ x - y \in Int
  BY <1>1, Borrows
<1>3. a + b \in 0 .. 2 * m - 1 /\ a + m - b \in 0 .. 4 * pr
  BY <1>1
<1>4. Below(a + b, m) \in 0 .. m - 1 /\ SameRest(Below(a + b, m), a + b, pr)
  BY <1>3, ReducesOnce
<1>5. PICK z \in Int, d \in Int : z = a + m - b /\ d = x - y
  BY <1>2
<1>6. Times(k, t, z, pr) \in 0 .. m - 1 /\ SameRest(Times(k, t, z, pr), z * w, pr)
  BY <1>3, <1>5, TimesFixes
<1>7. SameRest(z * w, d * w, pr)
  <2>1. SameRest(w, w, pr)
    BY DEF SameRest
  <2> QED BY <1>1, <1>2, <1>5, <2>1, RestTimes
<1>8. SameRest(Below(a + b, m), x + y, pr)
  BY <1>2, <1>4, RestChains
<1>9. SameRest(Times(k, t, z, pr), d * w, pr)
  BY <1>6, <1>7, RestChains
<1> QED BY <1>4, <1>5, <1>6, <1>8, <1>9

LEMMA InverseSum ==
  ASSUME NEW pr, Fits(pr), NEW k \in {1, 2}, NEW m \in Int, m = k * pr,
         NEW u \in 0 .. m - 1, NEW v \in 0 .. m - 1, NEW x \in Int, NEW y \in Int,
         SameRest(u, x, pr), SameRest(v, y, pr), NEW o \in {0, 1},
         NEW r, r = (IF o = 0 THEN u + v ELSE u + m - v) % B
  PROVE  /\ r \in 0 .. 2 * m - 1 /\ SameRest(r, x + Signed(o, y), pr)
         /\ Below(r, m) \in 0 .. m - 1 /\ SameRest(Below(r, m), x + Signed(o, y), pr)
<1>1. pr \in Int /\ pr > 0 /\ m <= 2 * pr /\ m > 0 /\ u \in Int /\ v \in Int
  BY RangeFacts
<1>6. SameRest(u + v, x + y, pr) /\ SameRest(u + m - v, x - y, pr)
  BY <1>1, Borrows
<1>7. u + v \in 0 .. 2 * m - 1 /\ u + m - v \in 0 .. 2 * m - 1
      /\ u + v \in 0 .. 4 * pr /\ u + m - v \in 0 .. 4 * pr
  BY <1>1
<1>8. (u + v) % B = u + v /\ (u + m - v) % B = u + m - v
  BY <1>7, RangeFacts
<1>9. r \in 0 .. 2 * m - 1 /\ SameRest(r, x + Signed(o, y), pr)
  <2>1. CASE o = 0
    BY <1>6, <1>7, <1>8, <2>1 DEF Signed
  <2>2. CASE o = 1
    <3>1. x - y = x + -y
      OBVIOUS
    <3> QED BY <1>6, <1>7, <1>8, <2>2, <3>1 DEF Signed
  <2> QED BY <2>1, <2>2
<1>10. Below(r, m) \in 0 .. m - 1 /\ SameRest(Below(r, m), r, pr)
  BY <1>9, ReducesOnce
<1> QED BY <1>9, <1>10, RestChains

LEMMA FusedInverse ==
  ASSUME NEW pr, Fits(pr), NEW t, NEW w \in Int, BackFactor(t, w, pr),
         NEW a \in Range2(pr), NEW b \in Range2(pr), NEW x \in Int, NEW y \in Int,
         NEW d \in Int, SameRest(a, x, pr), SameRest(b, y, pr), SameRest(x - y, d * w, pr)
  PROVE  /\ Below(a + b, 2 * pr) \in Range2(pr) /\ SameRest(Below(a + b, 2 * pr), x + y, pr)
         /\ MultiplyLazy(t, a + 2 * pr - b, pr) \in Range2(pr)
         /\ SameRest(MultiplyLazy(t, a + 2 * pr - b, pr), d, pr)
         /\ Multiply(t, a + 2 * pr - b, pr) \in 0 .. pr - 1
         /\ SameRest(Multiply(t, a + 2 * pr - b, pr), d, pr)
         /\ a + b \in 0 .. 4 * pr /\ SameRest(a + b, x + y, pr)
<1>1. pr \in Int /\ pr > 0 /\ a \in Int /\ b \in Int
  BY RangeFacts DEF Range2
<1>2. PICK m \in Int : m = 2 * pr
  BY <1>1
<1>3. a + b \in 0 .. 2 * m - 1 /\ a + b \in 0 .. 4 * pr /\ a + m - b \in 0 .. 4 * pr
  BY <1>1, <1>2 DEF Range2
<1>4. /\ SameRest(a + b, x + y, pr) /\ SameRest(a + m - b, x - y, pr)
  BY <1>1, <1>2, Borrows
<1>5. Below(a + b, m) \in 0 .. m - 1 /\ SameRest(Below(a + b, m), a + b, pr)
  BY <1>2, <1>3, ReducesOnce
<1>6. SameRest(Below(a + b, m), x + y, pr)
  BY <1>4, <1>5, RestChains
<1>7. PICK z \in Int : z = a + m - b /\ SameRest(z, d * w, pr) /\ z \in Words
  <2>1. a + m - b \in Words /\ a + m - b \in Int
    BY <1>3, RangeFacts
  <2>2. SameRest(a + m - b, d * w, pr)
    BY <1>4, RestChains
  <2> QED BY <2>1, <2>2
<1>8. /\ MultiplyLazy(t, z, pr) \in 0 .. 2 * pr - 1 /\ SameRest(MultiplyLazy(t, z, pr), d, pr)
      /\ Multiply(t, z, pr) \in 0 .. pr - 1 /\ SameRest(Multiply(t, z, pr), d, pr)
  BY <1>7, InvertsIs
<1> QED BY <1>2, <1>3, <1>4, <1>5, <1>6, <1>7, <1>8 DEF Range2

-----------------------------------------------------------------------------

(* The forward pass of the fused form.                                     *)

Forms == {"plain", "lazy", "fused"}
Late(form) == IF form = "plain" THEN 1 ELSE 2

LEMMA PlanIs ==
  ASSUME NEW pr \in TransformModuli, NEW form \in Forms, plan = NewPlan(form, pr)
  PROVE  /\ plan.form = form /\ Prime = pr /\ Twice = 2 * pr /\ Late(form) \in {1, 2}
         /\ form = "fused" => plan = FusedPlan(pr)
         /\ form # "fused" => plan = TwistedPlan(form, pr)
<1>1. FusedPlan(pr).form = "fused" /\ FusedPlan(pr).p = pr
  BY DEF FusedPlan
<1>2. TwistedPlan(form, pr).form = form /\ TwistedPlan(form, pr).p = pr
  BY DEF TwistedPlan
<1>3. form = "fused" => plan = FusedPlan(pr)
  BY DEF NewPlan
<1>4. form # "fused" => plan = TwistedPlan(form, pr)
  BY DEF NewPlan
<1>5. plan.form = form /\ plan.p = pr
  BY <1>1, <1>2, <1>3, <1>4
<1>6. Late(form) \in {1, 2}
  BY DEF Late
<1> QED BY <1>3, <1>4, <1>5, <1>6 DEF Prime, Twice

LEMMA PlanTimesIs ==
  ASSUME NEW pr \in TransformModuli, NEW form \in Forms, plan = NewPlan(form, pr), NEW t, NEW x
  PROVE  PlanTimes(t, x) = Times(Late(form), t, x, pr)
<1>1. plan.form = form /\ Prime = pr
  BY PlanIs
<1>2. CASE form = "plain"
  BY <1>1, <1>2 DEF PlanTimes, Times, Late
<1>3. CASE form # "plain"
  BY <1>1, <1>3 DEF PlanTimes, Times, Late
<1> QED BY <1>2, <1>3

(* The values of a pass, up to a factor.                                   *)
Represents(v, form, s, x, l, c, pr) ==
  \A i \in Positions :
    SameRest(v[i], c * Standing(form, s, x, l, i \div Two[l], i % Two[l]), pr)

LEMMA CarriesAt ==
  ASSUME NEW v, NEW form, NEW s, NEW x, NEW c, NEW pr, NEW l \in 0 .. LogN,
         Represents(v, form, s, x, l, c, pr),
         NEW b \in 0 .. Two[LogN - l] - 1, NEW j \in 0 .. Two[l] - 1
  PROVE  /\ At(l, b, j) \in Positions
         /\ SameRest(v[At(l, b, j)], c * Standing(form, s, x, l, b, j), pr)
<1>1. At(l, b, j) \in Positions /\ At(l, b, j) \div Two[l] = b /\ At(l, b, j) % Two[l] = j
  BY AtIs
<1>2. PICK i \in Positions : i = At(l, b, j)
  BY <1>1
<1>3. SameRest(v[i], c * Standing(form, s, x, l, i \div Two[l], i % Two[l]), pr)
  BY DEF Represents
<1> QED BY <1>1, <1>2, <1>3

LEMMA HalvesAt ==
  ASSUME NEW l \in 1 .. LogN, NEW b \in 0 .. Two[LogN - l] - 1, NEW j \in 0 .. Two[l - 1] - 1,
         NEW o \in {0, 1}
  PROVE  /\ l \in 0 .. LogN /\ l - 1 \in 0 .. LogN /\ b \in Nat /\ 2 * b + o \in Nat
         /\ j \in 0 .. Two[l] - 1 /\ j + Two[l - 1] \in 0 .. Two[l] - 1
         /\ 2 * b + o \in 0 .. Two[LogN - (l - 1)] - 1
         /\ At(l - 1, 2 * b + o, j) = At(l, b, j + o * Two[l - 1])
         /\ At(l - 1, 2 * b, j) = At(l, b, j)
         /\ At(l - 1, 2 * b + 1, j) = At(l, b, j + Two[l - 1])
<1>1. PICK h \in Nat, c \in Nat :
        /\ h = Two[l - 1] /\ Two[l] = 2 * h /\ c = Two[LogN - l] /\ Two[LogN - (l - 1)] = 2 * c
  <2>1. l \in 0 .. LogN
    BY DegreeIs
  <2>2. Two[LogN - l] \in Nat
    BY <2>1, LevelIs
  <2>3. /\ Two[l - 1] \in Nat /\ Two[l] = 2 * Two[l - 1]
        /\ Two[LogN - (l - 1)] = 2 * Two[LogN - l]
    <3>1. /\ l - 1 \in 0 .. 15 /\ (l - 1) + 1 = l /\ LogN - l \in 0 .. 15
          /\ LogN - (l - 1) = (LogN - l) + 1
      BY DegreeIs
    <3>2. Two[l - 1] \in Nat \ {0} /\ Two[(l - 1) + 1] = 2 * Two[l - 1]
      BY <3>1, TwoDoubles
    <3>3. Two[(LogN - l) + 1] = 2 * Two[LogN - l]
      BY <3>1, TwoDoubles
    <3> QED BY <3>1, <3>2, <3>3
  <2> QED BY <2>2, <2>3
<1>2. l \in 0 .. LogN /\ l - 1 \in 0 .. LogN
  BY DegreeIs
<1>3. b \in 0 .. c - 1 /\ j \in 0 .. h - 1
  BY <1>1
<1>4. /\ b \in Nat /\ 2 * b + o \in Nat /\ j \in 0 .. 2 * h - 1 /\ j + h \in 0 .. 2 * h - 1
      /\ 2 * b + o \in 0 .. 2 * c - 1
  BY <1>3
<1>5. PICK e \in Int, f \in Int : e = b * h /\ f = o * h
  BY <1>1, <1>3
<1>6. /\ (2 * b + o) * h = 2 * e + f /\ b * (2 * h) = 2 * e
      /\ (2 * b) * h = 2 * e /\ (2 * b + 1) * h = 2 * e + h
  <2>1. /\ (2 * b + o) * h = 2 * (b * h) + o * h /\ b * (2 * h) = 2 * (b * h)
        /\ (2 * b) * h = 2 * (b * h) /\ (2 * b + 1) * h = 2 * (b * h) + h
    <3>1. b \in Int /\ o \in Int /\ h \in Int
      BY <1>3
    <3> QED BY <3>1
  <2> QED BY <1>5, <2>1
<1>7. /\ At(l - 1, 2 * b + o, j) = (2 * e + f) + j /\ At(l, b, j + o * Two[l - 1]) = 2 * e + (j + f)
      /\ At(l - 1, 2 * b, j) = 2 * e + j /\ At(l, b, j) = 2 * e + j
      /\ At(l - 1, 2 * b + 1, j) = (2 * e + h) + j /\ At(l, b, j + Two[l - 1]) = 2 * e + (j + h)
  BY <1>1, <1>5, <1>6 DEF At
<1>8. (2 * e + f) + j = 2 * e + (j + f) /\ (2 * e + h) + j = 2 * e + (j + h)
  BY <1>3
<1> QED BY <1>1, <1>2, <1>4, <1>7, <1>8

LEMMA CarriesPair ==
  ASSUME NEW v, NEW form, NEW s, NEW x, NEW c, NEW pr, NEW l \in 1 .. LogN,
         Represents(v, form, s, x, l, c, pr),
         NEW b \in 0 .. Two[LogN - l] - 1, NEW j \in 0 .. Two[l - 1] - 1
  PROVE  /\ At(l, b, j) \in Positions /\ At(l, b, j + Two[l - 1]) \in Positions
         /\ SameRest(v[At(l, b, j)], c * Standing(form, s, x, l, b, j), pr)
         /\ SameRest(v[At(l, b, j + Two[l - 1])],
                     c * Standing(form, s, x, l, b, j + Two[l - 1]), pr)
<1>1. l \in 0 .. LogN /\ j \in 0 .. Two[l] - 1 /\ j + Two[l - 1] \in 0 .. Two[l] - 1
  BY HalvesAt
<1> QED BY <1>1, CarriesAt

LEMMA CarriesHalves ==
  ASSUME NEW v, NEW form, NEW s, NEW x, NEW c, NEW pr, NEW l \in 1 .. LogN,
         Represents(v, form, s, x, l - 1, c, pr),
         NEW b \in 0 .. Two[LogN - l] - 1, NEW j \in 0 .. Two[l - 1] - 1
  PROVE  /\ At(l, b, j) \in Positions /\ At(l, b, j + Two[l - 1]) \in Positions
         /\ SameRest(v[At(l, b, j)], c * Standing(form, s, x, l - 1, 2 * b, j), pr)
         /\ SameRest(v[At(l, b, j + Two[l - 1])], c * Standing(form, s, x, l - 1, 2 * b + 1, j), pr)
<1>1. /\ l - 1 \in 0 .. LogN /\ At(l - 1, 2 * b, j) = At(l, b, j)
      /\ At(l - 1, 2 * b + 1, j) = At(l, b, j + Two[l - 1])
      /\ 2 * b + 0 \in 0 .. Two[LogN - (l - 1)] - 1 /\ 2 * b + 1 \in 0 .. Two[LogN - (l - 1)] - 1
      /\ 2 * b + 0 = 2 * b
  BY HalvesAt
<1>2. /\ At(l - 1, 2 * b, j) \in Positions
      /\ SameRest(v[At(l - 1, 2 * b, j)], c * Standing(form, s, x, l - 1, 2 * b, j), pr)
  BY <1>1, CarriesAt
<1>3. /\ At(l - 1, 2 * b + 1, j) \in Positions
      /\ SameRest(v[At(l - 1, 2 * b + 1, j)], c * Standing(form, s, x, l - 1, 2 * b + 1, j), pr)
  BY <1>1, CarriesAt
<1> QED BY <1>1, <1>2, <1>3

(* One stage forward carries the values to half the length.                *)
LEMMA ForwardFusedStage ==
  ASSUME NEW pr \in TransformModuli, plan = NewPlan("fused", pr),
         NEW l \in 1 .. LogN, length = Two[l], NEW x, Integral(x, RingDegree),
         values \in [Positions -> Range4(pr)],
         Represents(values, "fused", Psi(pr), x, l, 1, pr)
  PROVE  /\ ForwardFused \in [Positions -> Range4(pr)]
         /\ Represents(ForwardFused, "fused", Psi(pr), x, l - 1, 1, pr)
<1> DEFINE s == Psi(pr)
<1>0. "fused" \in Forms /\ Fits(pr) /\ pr \in Int /\ pr > 1
  BY TransformPrime DEF Forms
<1>1. plan = FusedPlan(pr) /\ Prime = pr /\ Twice = 2 * pr
  BY <1>0, PlanIs
<1>2. s \in Int /\ SameRest(Raise(s, RingDegree), -1, pr)
  BY PsiIs
<1> HIDE DEF s
<1>3. ASSUME NEW i \in Positions
      PROVE  /\ ForwardFused[i] \in Range4(pr)
             /\ SameRest(ForwardFused[i],
                         1 * Standing("fused", s, x, l - 1, i \div Two[l - 1], i % Two[l - 1]), pr)
  <2>1. PICK b \in 0 .. Two[LogN - l] - 1, j \in 0 .. Two[l - 1] - 1, o \in {0, 1} :
          Located(l, i, b, j, o)
    BY Locates
  <2> DEFINE g == At(l, b, j)
             h == At(l, b, j + Two[l - 1])
             k == LogN - l
             t == plan.roots[Two[k] + b]
             w == Twiddle(s, l, b)
             u == Below(values[g], 2 * pr)
             v == MultiplyLazy(t, values[h], pr)
  <2>2. /\ l \in 0 .. LogN /\ l - 1 \in 0 .. LogN /\ b \in Nat /\ 2 * b + o \in Nat
        /\ j \in 0 .. Two[l] - 1 /\ j + Two[l - 1] \in 0 .. Two[l] - 1
        /\ 2 * b + o \in 0 .. Two[LogN - (l - 1)] - 1
    BY HalvesAt
  <2>3. /\ g \in Positions /\ h \in Positions
        /\ SameRest(values[g], 1 * Standing("fused", s, x, l, b, j), pr)
        /\ SameRest(values[h], 1 * Standing("fused", s, x, l, b, j + Two[l - 1]), pr)
    BY CarriesPair DEF s
  <2>4. PICK p1 \in Int, p2 \in Int, p3 \in Int :
          /\ p1 = Standing("fused", s, x, l, b, j)
          /\ p2 = Standing("fused", s, x, l, b, j + Two[l - 1])
          /\ p3 = Standing("fused", s, x, l - 1, 2 * b + o, j)
    BY <1>2, <2>2, StandingIs
  <2>5. values[g] \in Range4(pr) /\ values[h] \in Range4(pr)
    BY <2>3
  <2>6. Fixes(t, w, pr) /\ w \in Int
    <3>1. k \in 0 .. LogN - 1 /\ LogN - k = l
      BY DegreeIs
    <3>2. /\ Two[k] + b \in Positions
          /\ BitReversed(Two[k] + b) = Two[l - 1] * Odd(l, b)
      BY <3>1, BlockPosition
    <3>3. Fixes(FusedPlan(pr).roots[Two[k] + b], Raise(s, BitReversed(Two[k] + b)), pr)
      BY <3>2, FusedRoots DEF s
    <3>4. w \in Int
      BY <1>2, <2>2, TwiddleIs
    <3> QED BY <1>1, <3>2, <3>3, <3>4 DEF Twiddle
  <2>7. SameRest(values[g], p1, pr) /\ SameRest(values[h], p2, pr)
    <3>1. 1 * p1 = p1 /\ 1 * p2 = p2
      OBVIOUS
    <3> QED BY <2>3, <2>4, <3>1
  <2>8. ForwardFused[i] = (IF o = 0 THEN u + v ELSE u + 2 * pr - v) % B
    <3>1. /\ First(i) = g /\ First(i) + length \div 2 = h
          /\ RingDegree \div length + i \div length = Two[k] + b
          /\ (IsFirst(i) <=> o = 0)
      BY <2>1 DEF Located
    <3>2. ForwardFused[i] =
            (IF IsFirst(i)
             THEN Below(values[First(i)], Twice)
                    + MultiplyLazy(plan.roots[RingDegree \div length + i \div length],
                                   values[First(i) + length \div 2], Prime)
             ELSE Below(values[First(i)], Twice) + Twice
                    - MultiplyLazy(plan.roots[RingDegree \div length + i \div length],
                                   values[First(i) + length \div 2], Prime)) % B
      BY DEF ForwardFused
    <3> HIDE DEF g, h, k
    <3>3. ForwardFused[i] = (IF IsFirst(i) THEN u + v ELSE u + 2 * pr - v) % B
      BY <1>1, <3>1, <3>2
    <3> HIDE DEF u, v
    <3> QED BY <3>1, <3>3
  <2> HIDE DEF g, h, k, t, w
  <2>9. /\ ForwardFused[i] \in Range4(pr)
        /\ SameRest(ForwardFused[i], p1 + Signed(o, w * p2), pr)
    BY <1>0, <2>5, <2>6, <2>7, <2>8, FusedForward
  <2>10. SameRest(p3, p1 + Signed(o, w * p2), pr)
    BY <1>0, <1>2, <2>2, <2>4, SplitFused DEF w
  <2>11. i \div Two[l - 1] = 2 * b + o /\ i % Two[l - 1] = j
    BY <2>1, <2>2, AtIs DEF Located
  <2>12. SameRest(ForwardFused[i], 1 * p3, pr)
    <3>1. 1 * p3 = p3
      OBVIOUS
    <3> QED BY <2>9, <2>10, <3>1 DEF SameRest
  <2> QED BY <2>4, <2>9, <2>11, <2>12
<1>4. ForwardFused \in [Positions -> Range4(pr)]
  <2>1. ForwardFused = [i \in Positions |-> ForwardFused[i]]
    BY DEF ForwardFused
  <2> QED BY <1>3, <2>1
<1> QED BY <1>3, <1>4 DEF Represents, s

-----------------------------------------------------------------------------

(* The forward pass of the twisted forms.                                  *)

LEMMA RootPlace ==
  ASSUME NEW l \in 1 .. LogN, NEW j \in 0 .. Two[l - 1] - 1
  PROVE  j * Two[LogN - l] \in 0 .. RingDegree \div 2 - 1
<1>1. l \in 0 .. LogN /\ l - 1 \in 0 .. 15 /\ (l - 1) + 1 = l
  BY DegreeIs
<1>2. PICK h \in Nat, c \in Nat :
        h = Two[l - 1] /\ Two[l] = 2 * h /\ c = Two[LogN - l] /\ c > 0 /\ c * (2 * h) = RingDegree
  <2>1. Two[l - 1] \in Nat \ {0} /\ Two[(l - 1) + 1] = 2 * Two[l - 1]
    BY <1>1, TwoDoubles
  <2>2. Two[LogN - l] \in Nat /\ Two[LogN - l] > 0 /\ Two[LogN - l] * Two[l] = RingDegree
    BY <1>1, LevelIs
  <2> QED BY <1>1, <2>1, <2>2
<1>3. PICK e \in Int : e = h * c
  OBVIOUS
<1>4. e * 2 + 0 = RingDegree
  <2>1. c * (2 * h) = (h * c) * 2
    OBVIOUS
  <2> QED BY <1>2, <1>3, <2>1, DegreeIs
<1>5. (e * 2 + 0) \div 2 = e
  BY DivModUnique
<1>6. j \in Int /\ 0 <= j /\ j + 1 <= h
  BY <1>2
<1>7. (j + 1) * c <= h * c /\ 0 <= j * c /\ j * c \in Int /\ (j + 1) * c = j * c + c
  <2>1. PICK z \in Int : z = j + 1 /\ z <= h
    BY <1>6
  <2>2. z * c <= h * c
    BY <1>2, <2>1, TimesMonotone
  <2>3. 0 <= j * c
    BY <1>2, <1>6, TimesSign
  <2>4. j * c \in Int /\ (j + 1) * c = j * c + c
    BY <1>6
  <2> QED BY <2>1, <2>2, <2>3, <2>4
<1> QED BY <1>2, <1>3, <1>4, <1>5, <1>7

(* The root of a butterfly of the plain and lazy forms.                    *)
Root(s, l, j) == Raise(s, 2 * (j * Two[LogN - l]))

LEMMA RootIs ==
  ASSUME NEW pr \in TransformModuli, NEW form \in Forms, form # "fused", plan = NewPlan(form, pr),
         NEW l \in 1 .. LogN, NEW j \in 0 .. Two[l - 1] - 1
  PROVE  /\ Root(Psi(pr), l, j) \in Int
         /\ Fixes(plan.roots[j * Two[LogN - l]], Root(Psi(pr), l, j), pr)
         /\ BackFactor(plan.inverses[j * Two[LogN - l]], Root(Psi(pr), l, j), pr)
<1>1. PICK n \in 0 .. RingDegree \div 2 - 1 : n = j * Two[LogN - l]
  BY RootPlace
<1>2. plan = TwistedPlan(form, pr)
  BY PlanIs
<1>3. /\ Fixes(TwistedPlan(form, pr).roots[n], Raise(Psi(pr), 2 * n), pr)
      /\ BackFactor(TwistedPlan(form, pr).inverses[n], Raise(Psi(pr), 2 * n), pr)
  BY TwistedRoots
<1>4. 2 * n \in Nat /\ Psi(pr) \in Int
  BY PsiIs
<1>5. Raise(Psi(pr), 2 * n) \in Int
  BY <1>4, RaiseIs
<1> QED BY <1>1, <1>2, <1>3, <1>5 DEF Root

(* The two halves of a block, of the plain and lazy forms.                 *)
LEMMA TwistedHalves ==
  ASSUME NEW m \in Int, m > 1, NEW s \in Int, SameRest(Raise(s, RingDegree), -1, m),
         NEW l \in 1 .. LogN, NEW b \in Nat, NEW j \in 0 .. Two[l - 1] - 1,
         NEW x, Integral(x, RingDegree), NEW form, form # "fused",
         NEW p1 \in Int, NEW p2 \in Int, p1 = Standing(form, s, x, l, b, j),
         p2 = Standing(form, s, x, l, b, j + Two[l - 1])
  PROVE  /\ SameRest(Standing(form, s, x, l - 1, 2 * b, j), p1 + p2, m)
         /\ SameRest(Standing(form, s, x, l - 1, 2 * b + 0, j), p1 + p2, m)
         /\ SameRest(Standing(form, s, x, l - 1, 2 * b + 1, j), (p1 - p2) * Root(s, l, j), m)
<1>1. PICK n \in Int : n = 2 * (j * Two[LogN - l])
  BY RootPlace
<1>2. 0 * n = 0 /\ 1 * n = n /\ 2 * b + 0 = 2 * b /\ p1 - p2 = p1 + -p2 /\ (p1 + p2) * 1 = p1 + p2
  OBVIOUS
<1>3. SameRest(Standing(form, s, x, l - 1, 2 * b + 0, j),
               (p1 + Signed(0, p2)) * Raise(s, 0 * n), m)
  BY <1>1, SplitTwisted
<1>4. SameRest(Standing(form, s, x, l - 1, 2 * b + 1, j),
               (p1 + Signed(1, p2)) * Raise(s, 1 * n), m)
  BY <1>1, SplitTwisted
<1>5. Raise(s, 0) = 1
  BY RaiseIs
<1>6. Signed(0, p2) = p2 /\ Signed(1, p2) = -p2
  BY DEF Signed
<1>7. SameRest(Standing(form, s, x, l - 1, 2 * b + 0, j), p1 + p2, m)
  BY <1>2, <1>3, <1>5, <1>6
<1>8. SameRest(Standing(form, s, x, l - 1, 2 * b + 1, j), (p1 - p2) * Root(s, l, j), m)
  BY <1>1, <1>2, <1>4, <1>6 DEF Root
<1> QED BY <1>2, <1>7, <1>8

LEMMA FusedHalves ==
  ASSUME NEW m \in Int, m > 1, NEW s \in Int, SameRest(Raise(s, RingDegree), -1, m),
         NEW l \in 1 .. LogN, NEW b \in Nat, NEW j \in 0 .. Two[l - 1] - 1,
         NEW x, Integral(x, RingDegree),
         NEW p1 \in Int, NEW p2 \in Int, NEW w \in Int, w = Twiddle(s, l, b),
         p1 = Standing("fused", s, x, l, b, j),
         p2 = Standing("fused", s, x, l, b, j + Two[l - 1])
  PROVE  /\ SameRest(Standing("fused", s, x, l - 1, 2 * b, j), p1 + w * p2, m)
         /\ SameRest(Standing("fused", s, x, l - 1, 2 * b + 1, j), p1 - w * p2, m)
<1>1. PICK z \in Int : z = w * p2
  OBVIOUS
<1>2. 2 * b + 0 = 2 * b /\ p1 - z = p1 + -z
  OBVIOUS
<1>3. SameRest(Standing("fused", s, x, l - 1, 2 * b + 0, j), p1 + Signed(0, z), m)
  BY <1>1, SplitFused
<1>4. SameRest(Standing("fused", s, x, l - 1, 2 * b + 1, j), p1 + Signed(1, z), m)
  BY <1>1, SplitFused
<1>5. Signed(0, z) = z /\ Signed(1, z) = -z
  BY DEF Signed
<1> QED BY <1>1, <1>2, <1>3, <1>4, <1>5

LEMMA ForwardPassStage ==
  ASSUME NEW pr \in TransformModuli, NEW form \in Forms, form # "fused", plan = NewPlan(form, pr),
         NEW l \in 1 .. LogN, length = Two[l], NEW x, Integral(x, RingDegree),
         NEW m \in Int, m = Late(form) * pr, values \in [Positions -> 0 .. m - 1],
         Represents(values, form, Psi(pr), x, l, 1, pr)
  PROVE  /\ ForwardPass \in [Positions -> 0 .. m - 1]
         /\ Represents(ForwardPass, form, Psi(pr), x, l - 1, 1, pr)
<1> DEFINE s == Psi(pr)
           late == Late(form)
<1>0. Fits(pr) /\ pr \in Int /\ pr > 1
  BY TransformPrime
<1>1. plan.form = form /\ Prime = pr /\ Twice = 2 * pr /\ late \in {1, 2}
  BY PlanIs
<1>2. s \in Int /\ SameRest(Raise(s, RingDegree), -1, pr)
  BY PsiIs
<1>20. (IF plan.form = "plain" THEN Prime ELSE Twice) = m
  BY <1>0, <1>1 DEF Late
<1> HIDE DEF s, late
<1>3. ASSUME NEW i \in Positions
      PROVE  /\ ForwardPass[i] \in 0 .. m - 1
             /\ SameRest(ForwardPass[i],
                         1 * Standing(form, s, x, l - 1, i \div Two[l - 1], i % Two[l - 1]), pr)
  <2>1. PICK b \in 0 .. Two[LogN - l] - 1, j \in 0 .. Two[l - 1] - 1, o \in {0, 1} :
          Located(l, i, b, j, o)
    BY Locates
  <2> DEFINE g == At(l, b, j)
             h == At(l, b, j + Two[l - 1])
             t == plan.roots[j * Two[LogN - l]]
             w == Root(s, l, j)
  <2>2. /\ l \in 0 .. LogN /\ l - 1 \in 0 .. LogN /\ b \in Nat /\ 2 * b + o \in Nat
        /\ j \in 0 .. Two[l] - 1 /\ j + Two[l - 1] \in 0 .. Two[l] - 1
        /\ 2 * b + o \in 0 .. Two[LogN - (l - 1)] - 1
    BY HalvesAt
  <2>3. /\ g \in Positions /\ h \in Positions
        /\ SameRest(values[g], 1 * Standing(form, s, x, l, b, j), pr)
        /\ SameRest(values[h], 1 * Standing(form, s, x, l, b, j + Two[l - 1]), pr)
    BY CarriesPair DEF s
  <2>4. PICK p1 \in Int, p2 \in Int, p3 \in Int :
          /\ p1 = Standing(form, s, x, l, b, j)
          /\ p2 = Standing(form, s, x, l, b, j + Two[l - 1])
          /\ p3 = Standing(form, s, x, l - 1, 2 * b + o, j)
    BY <1>2, <2>2, StandingIs
  <2>5. values[g] \in 0 .. m - 1 /\ values[h] \in 0 .. m - 1
    BY <2>3
  <2>6. Fixes(t, w, pr) /\ w \in Int
    BY RootIs DEF s
  <2>7. SameRest(values[g], p1, pr) /\ SameRest(values[h], p2, pr)
    <3>1. 1 * p1 = p1 /\ 1 * p2 = p2
      OBVIOUS
    <3> QED BY <2>3, <2>4, <3>1
  <2>8. ForwardPass[i] = IF o = 0 THEN Below(values[g] + values[h], m)
                         ELSE Times(late, t, values[g] + m - values[h], pr)
    <3>1. /\ First(i) = g /\ First(i) + length \div 2 = h
          /\ InHalf(i) * (RingDegree \div length) = j * Two[LogN - l]
          /\ (IsFirst(i) <=> o = 0)
      BY <2>1 DEF Located
    <3>2. ForwardPass[i] =
            LET bound == IF plan.form = "plain" THEN Prime ELSE Twice
            IN  IF IsFirst(i) THEN Below(values[First(i)] + values[First(i) + length \div 2], bound)
                ELSE PlanTimes(plan.roots[InHalf(i) * (RingDegree \div length)],
                               values[First(i)] + bound - values[First(i) + length \div 2])
      BY DEF ForwardPass
    <3> HIDE DEF g, h
    <3>3. ForwardPass[i] = IF IsFirst(i) THEN Below(values[g] + values[h], m)
                           ELSE PlanTimes(t, values[g] + m - values[h])
      BY <1>20, <3>1, <3>2
    <3>4. PlanTimes(t, values[g] + m - values[h]) = Times(late, t, values[g] + m - values[h], pr)
      BY PlanTimesIs DEF late
    <3> QED BY <3>1, <3>3, <3>4
  <2> HIDE DEF g, h, t, w
  <2>9. /\ Below(values[g] + values[h], m) \in 0 .. m - 1
        /\ SameRest(Below(values[g] + values[h], m), p1 + p2, pr)
        /\ Times(late, t, values[g] + m - values[h], pr) \in 0 .. m - 1
        /\ SameRest(Times(late, t, values[g] + m - values[h], pr), (p1 - p2) * w, pr)
    <3>1. m = late * pr
      BY DEF late
    <3> QED BY <1>0, <1>1, <2>5, <2>6, <2>7, <3>1, TwistedForward
  <2>10. SameRest(p3, IF o = 0 THEN p1 + p2 ELSE (p1 - p2) * w, pr)
    <3>1. /\ SameRest(Standing(form, s, x, l - 1, 2 * b + 0, j), p1 + p2, pr)
          /\ SameRest(Standing(form, s, x, l - 1, 2 * b + 1, j), (p1 - p2) * w, pr)
      BY <1>0, <1>2, <2>2, <2>4, TwistedHalves DEF w
    <3>2. CASE o = 0
      BY <2>4, <3>1, <3>2
    <3>3. CASE o = 1
      BY <2>4, <3>1, <3>3
    <3> QED BY <3>2, <3>3
  <2>11. i \div Two[l - 1] = 2 * b + o /\ i % Two[l - 1] = j
    BY <2>1, <2>2, AtIs DEF Located
  <2>12. SameRest(ForwardPass[i], 1 * p3, pr) /\ ForwardPass[i] \in 0 .. m - 1
    <3>1. 1 * p3 = p3
      OBVIOUS
    <3>2. CASE o = 0
      BY <2>8, <2>9, <2>10, <3>1, <3>2 DEF SameRest
    <3>3. CASE o # 0
      BY <2>8, <2>9, <2>10, <3>1, <3>3 DEF SameRest
    <3> QED BY <3>2, <3>3
  <2> QED BY <2>4, <2>11, <2>12
<1>4. ForwardPass \in [Positions -> 0 .. m - 1]
  <2>1. ForwardPass = [i \in Positions |-> ForwardPass[i]]
    BY DEF ForwardPass
  <2> QED BY <1>3, <2>1
<1> QED BY <1>3, <1>4 DEF Represents, s

-----------------------------------------------------------------------------

(* The inverse passes of the fused form.                                   *)

LEMMA RestScales ==
  ASSUME NEW m \in Int, m > 0, NEW a, NEW c \in Int, NEW y \in Int, NEW z \in Int,
         SameRest(a, c * y, m), SameRest(y, z, m)
  PROVE  SameRest(a, c * z, m)
<1>1. SameRest(c, c, m)
  BY DEF SameRest
<1>2. SameRest(c * y, c * z, m)
  BY <1>1, RestTimes
<1> QED BY <1>2, RestChains

LEMMA HalfIs ==
  ASSUME NEW l \in 1 .. LogN
  PROVE  /\ Two[l - 1] \in Nat /\ Two[l] = 2 * Two[l - 1]
         /\ 0 * Two[l - 1] = 0 /\ 1 * Two[l - 1] = Two[l - 1]
<1>1. l - 1 \in 0 .. 15 /\ (l - 1) + 1 = l
  BY DegreeIs
<1>2. Two[l - 1] \in Nat \ {0} /\ Two[(l - 1) + 1] = 2 * Two[l - 1]
  BY <1>1, TwoDoubles
<1> QED BY <1>1, <1>2

(* Where position i stands among blocks of either length.                  *)
LEMMA Standings ==
  ASSUME NEW l \in 1 .. LogN, NEW b \in 0 .. Two[LogN - l] - 1, NEW j \in 0 .. Two[l - 1] - 1,
         NEW o \in {0, 1}, NEW i, Located(l, i, b, j, o)
  PROVE  i \div Two[l] = b /\ i % Two[l] = j + o * Two[l - 1]
<1>1. PICK d \in 0 .. Two[l] - 1 : d = j + o * Two[l - 1]
  <2>1. /\ j \in 0 .. Two[l] - 1 /\ j + Two[l - 1] \in 0 .. Two[l] - 1
    BY HalvesAt
  <2>2. PICK h \in Nat : h = Two[l - 1]
    BY HalfIs
  <2>3. j + 0 * h = j /\ j + 1 * h = j + h
    OBVIOUS
  <2>4. CASE o = 0
    BY <2>1, <2>2, <2>3, <2>4
  <2>5. CASE o = 1
    BY <2>1, <2>2, <2>3, <2>5
  <2> QED BY <2>4, <2>5
<1>2. i = At(l, b, d) /\ l \in 0 .. LogN
  BY <1>1, HalvesAt DEF Located
<1> QED BY <1>1, <1>2, AtIs

(* One stage back carries the values to twice the length, and doubles them.*)
LEMMA InverseFusedPair ==
  ASSUME NEW pr \in TransformModuli, NEW l \in 1 .. LogN, NEW x, Integral(x, RingDegree),
         NEW c \in Int, NEW v, Represents(v, "fused", Psi(pr), x, l - 1, c, pr),
         NEW b \in 0 .. Two[LogN - l] - 1, NEW j \in 0 .. Two[l - 1] - 1
  PROVE  \E p1 \in Int, p2 \in Int, w \in Int, y1 \in Int, y2 \in Int :
           /\ p1 = Standing("fused", Psi(pr), x, l, b, j)
           /\ p2 = Standing("fused", Psi(pr), x, l, b, j + Two[l - 1])
           /\ w = Twiddle(Psi(pr), l, b)
           /\ At(l, b, j) \in Positions /\ SameRest(v[At(l, b, j)], y1, pr)
           /\ At(l, b, j + Two[l - 1]) \in Positions /\ SameRest(v[At(l, b, j + Two[l - 1])], y2, pr)
           /\ y1 + y2 = (2 * c) * p1 /\ y1 - y2 = ((2 * c) * p2) * w
<1> DEFINE s == Psi(pr)
<1>0. Fits(pr) /\ pr \in Int /\ pr > 1 /\ pr > 0
  BY TransformPrime
<1>1. s \in Int /\ SameRest(Raise(s, RingDegree), -1, pr)
  BY PsiIs
<1> HIDE DEF s
<1>2. /\ l \in 0 .. LogN /\ l - 1 \in 0 .. LogN /\ b \in Nat /\ 2 * b + 0 \in Nat /\ 2 * b + 1 \in Nat
      /\ j \in 0 .. Two[l] - 1 /\ j + Two[l - 1] \in 0 .. Two[l] - 1 /\ 2 * b + 0 = 2 * b
  BY HalvesAt
<1>3. PICK p1 \in Int, p2 \in Int, z1 \in Int, z2 \in Int :
        /\ p1 = Standing("fused", s, x, l, b, j)
        /\ p2 = Standing("fused", s, x, l, b, j + Two[l - 1])
        /\ z1 = Standing("fused", s, x, l - 1, 2 * b, j)
        /\ z2 = Standing("fused", s, x, l - 1, 2 * b + 1, j)
  BY <1>1, <1>2, StandingIs
<1>4. PICK w \in Int : w = Twiddle(s, l, b)
  BY <1>1, <1>2, TwiddleIs
<1>5. SameRest(z1, p1 + w * p2, pr) /\ SameRest(z2, p1 - w * p2, pr)
  BY <1>0, <1>1, <1>2, <1>3, <1>4, FusedHalves
<1>6. /\ At(l, b, j) \in Positions /\ At(l, b, j + Two[l - 1]) \in Positions
      /\ SameRest(v[At(l, b, j)], c * z1, pr)
      /\ SameRest(v[At(l, b, j + Two[l - 1])], c * z2, pr)
  BY <1>3, CarriesHalves DEF s
<1>7. PICK e1 \in Int, e2 \in Int, y1 \in Int, y2 \in Int :
        e1 = p1 + w * p2 /\ e2 = p1 - w * p2 /\ y1 = c * e1 /\ y2 = c * e2
  OBVIOUS
<1>8. /\ SameRest(v[At(l, b, j)], y1, pr)
      /\ SameRest(v[At(l, b, j + Two[l - 1])], y2, pr)
  BY <1>0, <1>5, <1>6, <1>7, RestScales
<1>9. y1 + y2 = (2 * c) * p1 /\ y1 - y2 = ((2 * c) * p2) * w
  <2>1. y1 + y2 = c * (e1 + e2) /\ e1 + e2 = 2 * p1
    BY <1>7
  <2>2. y1 - y2 = c * (e1 - e2)
    BY <1>7
  <2>3. e1 - e2 = 2 * (w * p2)
    BY <1>7
  <2>4. c * (2 * (w * p2)) = ((2 * c) * p2) * w /\ c * (2 * p1) = (2 * c) * p1
    OBVIOUS
  <2> QED BY <2>1, <2>2, <2>3, <2>4
<1> QED BY <1>3, <1>4, <1>6, <1>8, <1>9 DEF s

LEMMA InverseFusedStage ==
  ASSUME NEW pr \in TransformModuli, plan = NewPlan("fused", pr),
         NEW l \in 1 .. LogN, length = Two[l], NEW x, Integral(x, RingDegree), NEW c \in Int,
         values \in [Positions -> Range2(pr)],
         Represents(values, "fused", Psi(pr), x, l - 1, c, pr)
  PROVE  /\ InverseFused \in [Positions -> Range2(pr)]
         /\ Represents(InverseFused, "fused", Psi(pr), x, l, 2 * c, pr)
<1> DEFINE s == Psi(pr)
<1>0. "fused" \in Forms /\ Fits(pr) /\ pr \in Int /\ pr > 1 /\ s \in Int
  BY TransformPrime, PsiIs DEF Forms
<1>1. plan = FusedPlan(pr) /\ Prime = pr /\ Twice = 2 * pr
  BY <1>0, PlanIs
<1> HIDE DEF s
<1>3. ASSUME NEW i \in Positions
      PROVE  /\ InverseFused[i] \in Range2(pr)
             /\ SameRest(InverseFused[i],
                         (2 * c) * Standing("fused", s, x, l, i \div Two[l], i % Two[l]), pr)
  <2>1. PICK b \in 0 .. Two[LogN - l] - 1, j \in 0 .. Two[l - 1] - 1, o \in {0, 1} :
          Located(l, i, b, j, o)
    BY Locates
  <2> DEFINE g == At(l, b, j)
             h == At(l, b, j + Two[l - 1])
             k == LogN - l
             t == plan.inverses[Two[k] + b]
  <2>2. l \in 0 .. LogN /\ b \in Nat
    BY HalvesAt
  <2>3. PICK p1 \in Int, p2 \in Int, w \in Int, y1 \in Int, y2 \in Int :
          /\ p1 = Standing("fused", s, x, l, b, j)
          /\ p2 = Standing("fused", s, x, l, b, j + Two[l - 1])
          /\ w = Twiddle(s, l, b)
          /\ g \in Positions /\ SameRest(values[g], y1, pr)
          /\ h \in Positions /\ SameRest(values[h], y2, pr)
          /\ y1 + y2 = (2 * c) * p1 /\ y1 - y2 = ((2 * c) * p2) * w
    BY InverseFusedPair DEF s
  <2>5. values[g] \in Range2(pr) /\ values[h] \in Range2(pr)
    BY <2>3
  <2>6. BackFactor(t, w, pr)
    <3>1. k \in 0 .. LogN - 1 /\ LogN - k = l
      BY DegreeIs
    <3>2. /\ Two[k] + b \in Positions
          /\ BitReversed(Two[k] + b) = Two[l - 1] * Odd(l, b)
      BY <3>1, BlockPosition
    <3>3. BackFactor(FusedPlan(pr).inverses[Two[k] + b], Raise(s, BitReversed(Two[k] + b)), pr)
      BY <3>2, FusedRoots DEF s
    <3> QED BY <1>1, <2>3, <3>2, <3>3 DEF Twiddle
  <2>8. InverseFused[i] = IF o = 0 THEN Below(values[g] + values[h], 2 * pr)
                          ELSE MultiplyLazy(t, values[g] + 2 * pr - values[h], pr)
    <3>1. /\ First(i) = g /\ First(i) + length \div 2 = h
          /\ RingDegree \div length + i \div length = Two[k] + b
          /\ (IsFirst(i) <=> o = 0)
      BY <2>1 DEF Located
    <3>2. InverseFused[i] =
            IF IsFirst(i)
            THEN Below(values[First(i)] + values[First(i) + length \div 2], Twice)
            ELSE MultiplyLazy(plan.inverses[RingDegree \div length + i \div length],
                              values[First(i)] + Twice - values[First(i) + length \div 2], Prime)
      BY DEF InverseFused
    <3> HIDE DEF g, h, k
    <3> QED BY <1>1, <3>1, <3>2
  <2> HIDE DEF g, h, k, t
  <2>9. PICK d1 \in Int, d2 \in Int : d1 = (2 * c) * p1 /\ d2 = (2 * c) * p2
    OBVIOUS
  <2>10. /\ Below(values[g] + values[h], 2 * pr) \in Range2(pr)
         /\ SameRest(Below(values[g] + values[h], 2 * pr), d1, pr)
         /\ MultiplyLazy(t, values[g] + 2 * pr - values[h], pr) \in Range2(pr)
         /\ SameRest(MultiplyLazy(t, values[g] + 2 * pr - values[h], pr), d2, pr)
    <3>1. SameRest(y1 - y2, d2 * w, pr) /\ y1 + y2 = d1
      BY <2>3, <2>9 DEF SameRest
    <3> QED BY <1>0, <2>3, <2>5, <2>6, <3>1, FusedInverse
  <2>11. i \div Two[l] = b /\ i % Two[l] = j + o * Two[l - 1]
    BY <2>1, Standings
  <2>12. CASE o = 0
    <3>1. 0 * Two[l - 1] = 0 /\ j + 0 = j
      BY HalfIs
    <3> QED BY <2>3, <2>8, <2>9, <2>10, <2>11, <2>12, <3>1
  <2>13. CASE o = 1
    <3>1. 1 * Two[l - 1] = Two[l - 1]
      BY HalfIs
    <3> QED BY <2>3, <2>8, <2>9, <2>10, <2>11, <2>13, <3>1
  <2> QED BY <2>12, <2>13
<1>4. InverseFused \in [Positions -> Range2(pr)]
  <2>1. InverseFused = [i \in Positions |-> InverseFused[i]]
    BY DEF InverseFused
  <2> QED BY <1>3, <2>1
<1> QED BY <1>3, <1>4 DEF Represents, s

(* The last stage of the fused form also divides by N.                     *)
LEMMA LastFusedStage ==
  ASSUME NEW pr \in TransformModuli, plan = NewPlan("fused", pr),
         length = Two[LogN], NEW x, Integral(x, RingDegree),
         values \in [Positions -> Range2(pr)],
         Represents(values, "fused", Psi(pr), x, LogN - 1, Two[LogN - 1], pr)
  PROVE  /\ LastFused \in [Positions -> 0 .. pr - 1]
         /\ Represents(LastFused, "fused", Psi(pr), x, LogN, 1, pr)
<1> DEFINE s == Psi(pr)
<1>00. PICK l : l = LogN
  OBVIOUS
<1>0. /\ "fused" \in Forms /\ Fits(pr) /\ pr \in Int /\ pr > 1 /\ pr > 0 /\ s \in Int
      /\ l \in 1 .. LogN /\ l \in 0 .. LogN /\ LogN - l = 0
  BY <1>00, TransformPrime, PsiIs, DegreeIs DEF Forms
<1>1. plan = FusedPlan(pr) /\ Prime = pr /\ Twice = 2 * pr
  BY <1>0, PlanIs
<1>2. PICK c \in Int : c = Two[l - 1] /\ 2 * c = RingDegree
  BY <1>00, <1>0, HalfIs, DegreeIs
<1>20. Represents(values, "fused", Psi(pr), x, l - 1, c, pr)
  BY <1>00, <1>2
<1> HIDE DEF s
<1>3. ASSUME NEW i \in Positions
      PROVE  /\ LastFused[i] \in 0 .. pr - 1
             /\ SameRest(LastFused[i],
                         1 * Standing("fused", s, x, l, i \div Two[l], i % Two[l]), pr)
  <2>1. PICK b \in 0 .. Two[LogN - l] - 1, j \in 0 .. Two[l - 1] - 1, o \in {0, 1} :
          Located(l, i, b, j, o)
    BY <1>00, <1>0, Locates
  <2> DEFINE g == At(l, b, j)
             h == At(l, b, j + Two[l - 1])
  <2>2. b \in Nat /\ b = 0
    BY <1>0, TwoValues
  <2>3. PICK p1 \in Int, p2 \in Int, w \in Int, y1 \in Int, y2 \in Int :
          /\ p1 = Standing("fused", s, x, l, b, j)
          /\ p2 = Standing("fused", s, x, l, b, j + Two[l - 1])
          /\ w = Twiddle(s, l, b)
          /\ g \in Positions /\ SameRest(values[g], y1, pr)
          /\ h \in Positions /\ SameRest(values[h], y2, pr)
          /\ y1 + y2 = (2 * c) * p1 /\ y1 - y2 = ((2 * c) * p2) * w
    BY <1>0, <1>20, InverseFusedPair DEF s
  <2>5. values[g] \in Range2(pr) /\ values[h] \in Range2(pr)
    BY <2>3
  <2>6. BackFactor(plan.scale, RingDegree, pr) /\ BackFactor(plan.last, w * RingDegree, pr)
    BY <1>00, <1>1, <2>2, <2>3, FusedEnds DEF s
  <2>8. LastFused[i] = IF o = 0 THEN Multiply(plan.scale, values[g] + values[h], pr)
                       ELSE Multiply(plan.last, values[g] + 2 * pr - values[h], pr)
    <3>1. /\ First(i) = g /\ First(i) + length \div 2 = h /\ (IsFirst(i) <=> o = 0)
      BY <2>1 DEF Located
    <3>2. LastFused[i] =
            IF IsFirst(i)
            THEN Multiply(plan.scale, values[First(i)] + values[First(i) + length \div 2], Prime)
            ELSE Multiply(plan.last, values[First(i)] + Twice - values[First(i) + length \div 2], Prime)
      BY DEF LastFused
    <3> HIDE DEF g, h
    <3> QED BY <1>1, <3>1, <3>2
  <2> HIDE DEF g, h
  <2>9. PICK n \in Int, nw \in Int : n = RingDegree /\ n = 2 * c /\ nw = w * n
    BY <1>2
  <2>10. (2 * c) * p1 = p1 * n /\ ((2 * c) * p2) * w = p2 * nw
    <3>1. (n * p2) * w = p2 * (w * n)
      OBVIOUS
    <3> QED BY <2>9, <3>1
  <2>11. /\ Multiply(plan.last, values[g] + 2 * pr - values[h], pr) \in 0 .. pr - 1
         /\ SameRest(Multiply(plan.last, values[g] + 2 * pr - values[h], pr), p2, pr)
         /\ values[g] + values[h] \in 0 .. 4 * pr
         /\ SameRest(values[g] + values[h], y1 + y2, pr)
    <3>1. SameRest(y1 - y2, p2 * nw, pr) /\ BackFactor(plan.last, nw, pr)
      BY <2>3, <2>6, <2>9, <2>10 DEF SameRest
    <3> QED BY <1>0, <2>3, <2>5, <3>1, FusedInverse
  <2>12. /\ Multiply(plan.scale, values[g] + values[h], pr) \in 0 .. pr - 1
         /\ SameRest(Multiply(plan.scale, values[g] + values[h], pr), p1, pr)
    <3>1. SameRest(values[g] + values[h], p1 * n, pr) /\ BackFactor(plan.scale, n, pr)
      BY <2>3, <2>6, <2>9, <2>10, <2>11
    <3>2. values[g] + values[h] \in Words
      BY <1>0, <2>11, RangeFacts
    <3> QED BY <1>0, <3>1, <3>2, InvertsIs
  <2>13. i \div Two[l] = b /\ i % Two[l] = j + o * Two[l - 1]
    BY <1>0, <2>1, Standings
  <2>14. 1 * p1 = p1 /\ 1 * p2 = p2 /\ j + 0 * c = j /\ 1 * c = c
    BY <1>2
  <2>15. CASE o = 0
    BY <1>2, <2>3, <2>8, <2>12, <2>13, <2>14, <2>15
  <2>16. CASE o = 1
    BY <1>2, <2>3, <2>8, <2>11, <2>13, <2>14, <2>16
  <2> QED BY <2>15, <2>16
<1>4. LastFused \in [Positions -> 0 .. pr - 1]
  <2>1. LastFused = [i \in Positions |-> LastFused[i]]
    BY DEF LastFused
  <2> QED BY <1>3, <2>1
<1> QED BY <1>00, <1>3, <1>4 DEF Represents, s

-----------------------------------------------------------------------------

(* The inverse pass of the twisted forms.                                  *)

(* The values at the ends of a butterfly, of the plain and lazy forms.     *)
Paired(v, form, s, x, l, b, j, c, pr) ==
  \E p1 \in Int, p2 \in Int, w \in Int, y1 \in Int, y2 \in Int, d \in Int :
    /\ p1 = Standing(form, s, x, l, b, j)
    /\ p2 = Standing(form, s, x, l, b, j + Two[l - 1])
    /\ w = Root(s, l, j) /\ d = y2 * w
    /\ At(l, b, j) \in Positions /\ SameRest(v[At(l, b, j)], y1, pr)
    /\ At(l, b, j + Two[l - 1]) \in Positions
    /\ SameRest(v[At(l, b, j + Two[l - 1])], d, pr)
    /\ y1 + y2 = (2 * c) * p1 /\ y1 - y2 = (2 * c) * p2

LEMMA InverseTwistedPair ==
  ASSUME NEW pr \in TransformModuli, NEW form, form # "fused",
         NEW l \in 1 .. LogN, NEW x, Integral(x, RingDegree),
         NEW c \in Int, NEW v, Represents(v, form, Psi(pr), x, l - 1, c, pr),
         NEW b \in 0 .. Two[LogN - l] - 1, NEW j \in 0 .. Two[l - 1] - 1
  PROVE  Paired(v, form, Psi(pr), x, l, b, j, c, pr)
<1> DEFINE s == Psi(pr)
<1>0. Fits(pr) /\ pr \in Int /\ pr > 1 /\ pr > 0
  BY TransformPrime
<1>1. s \in Int /\ SameRest(Raise(s, RingDegree), -1, pr)
  BY PsiIs
<1> HIDE DEF s
<1>2. /\ l \in 0 .. LogN /\ l - 1 \in 0 .. LogN /\ b \in Nat /\ 2 * b + 0 \in Nat /\ 2 * b + 1 \in Nat
      /\ j \in 0 .. Two[l] - 1 /\ j + Two[l - 1] \in 0 .. Two[l] - 1 /\ 2 * b + 0 = 2 * b
  BY HalvesAt
<1>3. PICK p1 \in Int, p2 \in Int, z1 \in Int, z2 \in Int :
        /\ p1 = Standing(form, s, x, l, b, j)
        /\ p2 = Standing(form, s, x, l, b, j + Two[l - 1])
        /\ z1 = Standing(form, s, x, l - 1, 2 * b, j)
        /\ z2 = Standing(form, s, x, l - 1, 2 * b + 1, j)
  BY <1>1, <1>2, StandingIs
<1>4. PICK w \in Int : w = Root(s, l, j)
  <2>1. j * Two[LogN - l] \in 0 .. RingDegree \div 2 - 1
    BY RootPlace
  <2>2. PICK n \in Nat : n = 2 * (j * Two[LogN - l])
    BY <2>1
  <2>3. Raise(s, n) \in Int
    BY <1>1, RaiseIs
  <2> QED BY <2>2, <2>3 DEF Root
<1>5. SameRest(z1, p1 + p2, pr) /\ SameRest(z2, (p1 - p2) * w, pr)
  BY <1>0, <1>1, <1>2, <1>3, <1>4, TwistedHalves
<1>6. /\ At(l, b, j) \in Positions /\ At(l, b, j + Two[l - 1]) \in Positions
      /\ SameRest(v[At(l, b, j)], c * z1, pr)
      /\ SameRest(v[At(l, b, j + Two[l - 1])], c * z2, pr)
  BY <1>3, CarriesHalves DEF s
<1>7. PICK e1 \in Int, e2 \in Int, y1 \in Int, y2 \in Int :
        e1 = p1 + p2 /\ e2 = p1 - p2 /\ y1 = c * e1 /\ y2 = c * e2
  OBVIOUS
<1>8. PICK ew \in Int : ew = e2 * w /\ c * ew = y2 * w
  <2>1. c * (e2 * w) = (c * e2) * w
    OBVIOUS
  <2> QED BY <1>7, <2>1
<1>9. /\ SameRest(v[At(l, b, j)], y1, pr)
      /\ SameRest(v[At(l, b, j + Two[l - 1])], y2 * w, pr)
  <2>1. SameRest(z1, e1, pr) /\ SameRest(z2, ew, pr)
    BY <1>5, <1>7, <1>8
  <2>2. SameRest(v[At(l, b, j)], c * e1, pr)
    BY <1>0, <1>6, <2>1, RestScales
  <2>3. SameRest(v[At(l, b, j + Two[l - 1])], c * ew, pr)
    BY <1>0, <1>6, <2>1, RestScales
  <2> QED BY <1>7, <1>8, <2>2, <2>3
<1>10. y1 + y2 = (2 * c) * p1 /\ y1 - y2 = (2 * c) * p2
  <2>1. y1 + y2 = c * (e1 + e2) /\ e1 + e2 = 2 * p1
    BY <1>7
  <2>2. y1 - y2 = c * (e1 - e2) /\ e1 - e2 = 2 * p2
    BY <1>7
  <2>3. c * (2 * p2) = (2 * c) * p2 /\ c * (2 * p1) = (2 * c) * p1
    OBVIOUS
  <2> QED BY <2>1, <2>2, <2>3
<1>11. PICK d \in Int : d = y2 * w
  OBVIOUS
<1> QED BY <1>3, <1>4, <1>6, <1>9, <1>10, <1>11 DEF s, Paired

LEMMA InversePassStage ==
  ASSUME NEW pr \in TransformModuli, NEW form \in Forms, form # "fused", plan = NewPlan(form, pr),
         NEW l \in 1 .. LogN, length = Two[l], NEW x, Integral(x, RingDegree), NEW c \in Int,
         NEW n \in Int, n = (IF form = "plain" THEN pr ELSE 4 * pr),
         values \in [Positions -> 0 .. n - 1],
         Represents(values, form, Psi(pr), x, l - 1, c, pr)
  PROVE  /\ InversePass \in [Positions -> 0 .. n - 1]
         /\ Represents(InversePass, form, Psi(pr), x, l, 2 * c, pr)
<1> DEFINE s == Psi(pr)
           late == Late(form)
           SettledValue(z, m) == IF form = "plain" THEN Below(z, m) ELSE z
<1>0. Fits(pr) /\ pr \in Int /\ pr > 1
  BY TransformPrime
<1>1. plan.form = form /\ Prime = pr /\ Twice = 2 * pr /\ late \in {1, 2}
  BY PlanIs
<1>20. PICK m \in Int : /\ m = late * pr /\ (IF plan.form = "plain" THEN Prime ELSE Twice) = m
                        /\ form = "plain" => m = pr /\ n = pr
                        /\ form # "plain" => n = 2 * m
                        /\ 0 .. n - 1 \subseteq 0 .. 2 * m - 1
  <2>1. CASE form = "plain"
    BY <1>0, <1>1, <2>1 DEF Late
  <2>2. CASE form # "plain"
    BY <1>0, <1>1, <2>2 DEF Late
  <2> QED BY <2>1, <2>2
<1> HIDE DEF s, late
<1>3. ASSUME NEW i \in Positions
      PROVE  /\ InversePass[i] \in 0 .. n - 1
             /\ SameRest(InversePass[i],
                         (2 * c) * Standing(form, s, x, l, i \div Two[l], i % Two[l]), pr)
  <2>1. PICK b \in 0 .. Two[LogN - l] - 1, j \in 0 .. Two[l - 1] - 1, o \in {0, 1} :
          Located(l, i, b, j, o)
    BY Locates
  <2> DEFINE g == At(l, b, j)
             h == At(l, b, j + Two[l - 1])
             t == plan.inverses[j * Two[LogN - l]]
  <2>2. Paired(values, form, s, x, l, b, j, c, pr)
    BY InverseTwistedPair DEF s
  <2>3. PICK p1 \in Int, p2 \in Int, w \in Int, y1 \in Int, y2 \in Int, d \in Int :
          /\ p1 = Standing(form, s, x, l, b, j)
          /\ p2 = Standing(form, s, x, l, b, j + Two[l - 1])
          /\ w = Root(s, l, j) /\ d = y2 * w
          /\ g \in Positions /\ SameRest(values[g], y1, pr)
          /\ h \in Positions /\ SameRest(values[h], d, pr)
          /\ y1 + y2 = (2 * c) * p1 /\ y1 - y2 = (2 * c) * p2
    BY <2>2 DEF Paired
  <2>5. values[g] \in 0 .. 2 * m - 1 /\ values[h] \in 0 .. 2 * m - 1
    BY <1>20, <2>3
  <2>6. BackFactor(t, w, pr)
    BY <2>3, RootIs DEF s
  <2>7. PICK u, v, r : /\ u = Below(values[g], m) /\ v = Times(late, t, values[h], pr)
                       /\ r = (IF o = 0 THEN u + v ELSE u + m - v) % B
    OBVIOUS
  <2>8. InversePass[i] = SettledValue(r, m)
    <3>1. /\ First(i) = g /\ First(i) + length \div 2 = h
          /\ InHalf(i) * (RingDegree \div length) = j * Two[LogN - l]
          /\ (IsFirst(i) <=> o = 0)
      BY <2>1 DEF Located
    <3>2. InversePass[i] =
            LET bound == IF plan.form = "plain" THEN Prime ELSE Twice
                Settle(z) == IF plan.form = "plain" THEN Below(z, Prime) ELSE z
                a == Below(values[First(i)], bound)
                e == PlanTimes(plan.inverses[InHalf(i) * (RingDegree \div length)],
                               values[First(i) + length \div 2])
            IN  Settle((IF IsFirst(i) THEN a + e ELSE a + bound - e) % B)
      BY DEF InversePass
    <3> HIDE DEF g, h
    <3>3. PlanTimes(t, values[h]) = v
      BY <2>7, PlanTimesIs DEF late
    <3>4. InversePass[i] =
            LET Settle(z) == IF plan.form = "plain" THEN Below(z, Prime) ELSE z
            IN  Settle((IF IsFirst(i) THEN u + v ELSE u + m - v) % B)
      BY <1>20, <2>7, <3>1, <3>2, <3>3
    <3>5. r = (IF IsFirst(i) THEN u + v ELSE u + m - v) % B
      BY <2>7, <3>1
    <3>6. InversePass[i] = IF plan.form = "plain" THEN Below(r, Prime) ELSE r
      BY <3>4, <3>5
    <3>7. CASE form = "plain"
      BY <1>1, <1>20, <3>6, <3>7
    <3>8. CASE form # "plain"
      BY <1>1, <3>6, <3>8
    <3> QED BY <3>7, <3>8
  <2> HIDE DEF g, h, t
  <2>9. /\ r \in 0 .. 2 * m - 1 /\ SameRest(r, y1 + Signed(o, y2), pr)
        /\ Below(r, m) \in 0 .. m - 1 /\ SameRest(Below(r, m), y1 + Signed(o, y2), pr)
    <3>1. PICK a \in 0 .. 2 * m - 1, e \in 0 .. 2 * m - 1 : a = values[g] /\ e = values[h]
      BY <2>5
    <3>2. /\ SameRest(a, y1, pr) /\ SameRest(e, d, pr) /\ d = y2 * w
          /\ u = Below(a, m) /\ v = Times(late, t, e, pr)
          /\ r = (IF o = 0 THEN u + v ELSE u + m - v) % B
      BY <2>3, <2>7, <3>1
    <3>3. Fits(pr) /\ late \in {1, 2} /\ m = late * pr
      BY <1>0, <1>1, <1>20
    <3>4. u \in 0 .. m - 1 /\ SameRest(u, y1, pr)
      <4>1. u \in 0 .. m - 1 /\ SameRest(u, a, pr)
        BY <3>2, <3>3, ReducesOnce
      <4> QED BY <3>2, <4>1, RestChains
    <3>5. v \in 0 .. m - 1 /\ SameRest(v, y2, pr)
      <4>1. e \in 0 .. 4 * pr /\ SameRest(e, y2 * w, pr)
        BY <1>0, <3>2, <3>3
      <4> QED BY <2>6, <3>2, <3>3, <4>1, TimesInverts
    <3>6. y1 \in Int /\ y2 \in Int /\ o \in {0, 1} /\ m \in Int
      OBVIOUS
    <3>7. r \in 0 .. 2 * m - 1
      BY <3>2, <3>3, <3>4, <3>5, <3>6, InverseSum
    <3>8. SameRest(r, y1 + Signed(o, y2), pr)
      BY <3>2, <3>3, <3>4, <3>5, <3>6, InverseSum
    <3>9. Below(r, m) \in 0 .. m - 1
      BY <3>2, <3>3, <3>4, <3>5, <3>6, InverseSum
    <3>10. SameRest(Below(r, m), y1 + Signed(o, y2), pr)
      BY <3>2, <3>3, <3>4, <3>5, <3>6, InverseSum, Zenon
    <3> QED BY <3>7, <3>8, <3>9, <3>10
  <2>10. /\ InversePass[i] \in 0 .. n - 1
         /\ SameRest(InversePass[i], y1 + Signed(o, y2), pr)
    <3>1. CASE form = "plain"
      BY <1>20, <2>8, <2>9, <3>1
    <3>2. CASE form # "plain"
      BY <1>20, <2>8, <2>9, <3>2
    <3> QED BY <3>1, <3>2
  <2>11. i \div Two[l] = b /\ i % Two[l] = j + o * Two[l - 1]
    BY <2>1, Standings
  <2>12. 0 * Two[l - 1] = 0 /\ 1 * Two[l - 1] = Two[l - 1] /\ j + 0 = j
    BY HalfIs
  <2>13. CASE o = 0
    <3>1. y1 + Signed(o, y2) = (2 * c) * p1
      BY <2>3, <2>13 DEF Signed
    <3> QED BY <2>3, <2>10, <2>11, <2>12, <2>13, <3>1
  <2>14. CASE o = 1
    <3>1. y1 + Signed(o, y2) = (2 * c) * p2
      <4>1. y1 + -y2 = y1 - y2
        OBVIOUS
      <4> QED BY <2>3, <2>14, <4>1 DEF Signed
    <3> QED BY <2>3, <2>10, <2>11, <2>12, <2>14, <3>1
  <2> QED BY <2>13, <2>14
<1>4. InversePass \in [Positions -> 0 .. n - 1]
  <2>1. InversePass = [i \in Positions |-> InversePass[i]]
    BY DEF InversePass
  <2> QED BY <1>3, <2>1
<1> QED BY <1>3, <1>4 DEF Represents, s

-----------------------------------------------------------------------------

(* Where the forward transform starts.                                     *)

(* The one block of the whole ring carries the coefficients.               *)
LEMMA PolyOne ==
  ASSUME NEW f, f[0] \in Int, NEW s \in Int
  PROVE  Poly(f, s, 1) = f[0]
<1>1. Integral(f, 1)
  BY DEF Integral
<1>2. Integral(Monomials(f, s, 1), 1)
  BY <1>1, PolyIs
<1>3. 1 \in Nat /\ 0 \in 0 .. 1 - 1 /\ 0 + 1 = 1
  OBVIOUS
<1>4. /\ SumTo(Monomials(f, s, 1), 0) = 0
      /\ SumTo(Monomials(f, s, 1), 0 + 1) = SumTo(Monomials(f, s, 1), 0) + Monomials(f, s, 1)[0]
  BY <1>2, <1>3, SumIs
<1>5. Monomials(f, s, 1)[0] = f[0] * 1
  BY <1>3, RaiseIs DEF Monomials
<1> QED BY <1>3, <1>4, <1>5 DEF Poly

LEMMA WholeIs ==
  ASSUME NEW form, NEW s \in Int, NEW x, Integral(x, RingDegree), NEW i \in Positions
  PROVE  /\ i \div Two[LogN] = 0 /\ i % Two[LogN] = i /\ x[i] \in Int /\ Raise(s, i) \in Int
         /\ Standing(form, s, x, LogN, 0, i) = x[i] * (IF form = "fused" THEN 1 ELSE Raise(s, i))
<1>1. /\ LogN \in 0 .. LogN /\ LogN - LogN = 0 /\ Two[LogN] = RingDegree /\ RingDegree \in Nat
      /\ i \in 0 .. RingDegree - 1 /\ i \in Nat
  BY DegreeIs DEF Positions
<1>2. i \div RingDegree = 0 /\ i % RingDegree = i
  <2>1. 0 * RingDegree + i = i
    BY <1>1
  <2>2. 0 <= i /\ i < RingDegree /\ RingDegree > 0 /\ 0 \in Int /\ i \in Int /\ RingDegree \in Int
    BY <1>1
  <2>3. (0 * RingDegree + i) \div RingDegree = 0 /\ (0 * RingDegree + i) % RingDegree = i
    BY <2>2, DivModUnique
  <2> QED BY <2>1, <2>3
<1>3. x[i] \in Int
  BY <1>1 DEF Integral
<1>4. Two[0] = 1
  BY TwoValues
<1>5. Odd(LogN, 0) = 1
  <2>1. Rev(0, 0) = 0
    <3>1. Integral(BitTerms(0, 0), 0)
      BY DEF Integral
    <3> QED BY <3>1, SumIs DEF Rev
  <2> QED BY <1>1, <2>1 DEF Odd
<1>6. Block(x, s, LogN, 0, i) = x[i]
  <2>1. Spread(x, LogN, i)[0] = x[i]
    <3>1. i + 0 * Two[LogN] = i /\ 0 \in 0 .. 1 - 1
      BY <1>1
    <3> QED BY <1>1, <1>4, <3>1 DEF Spread
  <2>2. Turn(s, LogN, 0) \in Int
    BY <1>1, TurnIs
  <2>3. Poly(Spread(x, LogN, i), Turn(s, LogN, 0), 1) = x[i]
    BY <1>3, <2>1, <2>2, PolyOne
  <2> QED BY <1>1, <1>4, <2>3 DEF Block
<1>7. Raise(s, i) \in Int
  BY <1>1, RaiseIs
<1>8. i * Odd(LogN, 0) = i
  BY <1>1, <1>5
<1> QED BY <1>1, <1>2, <1>3, <1>6, <1>7, <1>8 DEF Standing

LEMMA ResiduesAre ==
  ASSUME NEW pr \in TransformModuli, NEW x \in [Positions -> 0 .. pr - 1]
  PROVE  Integral(x, RingDegree) /\ \A i \in Positions : x[i] \in 0 .. pr - 1 /\ x[i] \in Int
<1>1. pr \in Int
  BY TransformPrime
<1> QED BY <1>1 DEF Integral, Positions

(* The start: the twist, or nothing where the roots of the stages hold it. *)
LEMMA FusedStarts ==
  ASSUME NEW pr \in TransformModuli, NEW x \in [Positions -> 0 .. pr - 1]
  PROVE  Represents(x, "fused", Psi(pr), x, LogN, 1, pr)
<1>1. Integral(x, RingDegree)
  BY ResiduesAre
<1>2. Psi(pr) \in Int
  BY PsiIs
<1>3. ASSUME NEW i \in Positions
      PROVE  SameRest(x[i], 1 * Standing("fused", Psi(pr), x, LogN, i \div Two[LogN], i % Two[LogN]), pr)
  <2>1. /\ i \div Two[LogN] = 0 /\ i % Two[LogN] = i /\ x[i] \in Int
        /\ Standing("fused", Psi(pr), x, LogN, 0, i) = x[i] * 1
    BY <1>1, <1>2, WholeIs
  <2>2. 1 * (x[i] * 1) = x[i]
    BY <2>1
  <2> QED BY <2>1, <2>2 DEF SameRest
<1> QED BY <1>3 DEF Represents

LEMMA TwistStarts ==
  ASSUME NEW pr \in TransformModuli, NEW form \in Forms, form # "fused", plan = NewPlan(form, pr),
         NEW x \in [Positions -> 0 .. pr - 1], NEW m \in Int, m = Late(form) * pr,
         NEW v, v = [i \in Positions |-> PlanTimes(plan.twists[i], x[i])]
  PROVE  v \in [Positions -> 0 .. m - 1] /\ Represents(v, form, Psi(pr), x, LogN, 1, pr)
<1> DEFINE s == Psi(pr)
<1>0. Fits(pr) /\ pr \in Int /\ pr > 1 /\ s \in Int
  BY TransformPrime, PsiIs
<1>1. Integral(x, RingDegree)
  BY ResiduesAre
<1>2. plan = TwistedPlan(form, pr) /\ Late(form) \in {1, 2}
  BY PlanIs
<1> HIDE DEF s
<1>3. ASSUME NEW i \in Positions
      PROVE  /\ v[i] \in 0 .. m - 1
             /\ SameRest(v[i], 1 * Standing(form, s, x, LogN, i \div Two[LogN], i % Two[LogN]), pr)
  <2>1. PICK w \in Int, y \in Int : w = Raise(s, i) /\ y = x[i]
    BY <1>0, <1>1, WholeIs
  <2>2. /\ i \div Two[LogN] = 0 /\ i % Two[LogN] = i
        /\ Standing(form, s, x, LogN, 0, i) = y * w
    BY <1>0, <1>1, <2>1, WholeIs
  <2>3. Fixes(plan.twists[i], w, pr)
    BY <1>2, <2>1, TwistedTwists DEF s
  <2>4. v[i] = Times(Late(form), plan.twists[i], y, pr)
    <3>1. v[i] = PlanTimes(plan.twists[i], x[i])
      OBVIOUS
    <3> QED BY <2>1, <3>1, PlanTimesIs
  <2>5. y \in 0 .. 4 * pr
    <3>1. y \in 0 .. pr - 1
      BY <2>1
    <3> QED BY <1>0, <3>1
  <2>6. v[i] \in 0 .. m - 1 /\ SameRest(v[i], y * w, pr)
    BY <1>0, <1>2, <2>3, <2>4, <2>5, TimesFixes
  <2>7. 1 * (y * w) = y * w
    <3>1. y * w \in Int
      OBVIOUS
    <3> QED BY <3>1
  <2> QED BY <2>2, <2>6, <2>7
<1>4. v \in [Positions -> 0 .. m - 1]
  BY <1>3
<1> QED BY <1>3, <1>4 DEF Represents, s

-----------------------------------------------------------------------------

(* Where the inverse transform ends.                                       *)

(* The end of the inverse transform: the twist and the degree undone.      *)
LEMMA ResiduesEqual ==
  ASSUME NEW pr \in TransformModuli, NEW x \in [Positions -> 0 .. pr - 1],
         NEW v \in [Positions -> 0 .. pr - 1],
         \A i \in Positions : SameRest(v[i], x[i], pr)
  PROVE  v = x
<1>1. pr \in Int /\ pr > 0
  BY TransformPrime
<1>2. ASSUME NEW i \in Positions PROVE v[i] = x[i]
  <2>1. v[i] \in 0 .. pr - 1 /\ x[i] \in 0 .. pr - 1 /\ v[i] % pr = x[i] % pr
    BY DEF SameRest
  <2>2. v[i] % pr = v[i] /\ x[i] % pr = x[i]
    BY <1>1, <2>1, ModSmall
  <2> QED BY <2>1, <2>2
<1> QED BY <1>2

LEMMA FusedEnd ==
  ASSUME NEW pr \in TransformModuli, NEW x \in [Positions -> 0 .. pr - 1],
         NEW v \in [Positions -> 0 .. pr - 1], Represents(v, "fused", Psi(pr), x, LogN, 1, pr)
  PROVE  v = x
<1>1. Integral(x, RingDegree) /\ Psi(pr) \in Int
  BY ResiduesAre, PsiIs
<1>2. ASSUME NEW i \in Positions PROVE SameRest(v[i], x[i], pr)
  <2>1. /\ i \div Two[LogN] = 0 /\ i % Two[LogN] = i /\ x[i] \in Int
        /\ Standing("fused", Psi(pr), x, LogN, 0, i) = x[i] * 1
    BY <1>1, WholeIs
  <2>2. 1 * (x[i] * 1) = x[i]
    BY <2>1
  <2>3. SameRest(v[i], 1 * Standing("fused", Psi(pr), x, LogN, i \div Two[LogN], i % Two[LogN]), pr)
    BY DEF Represents
  <2> QED BY <2>1, <2>2, <2>3
<1> QED BY <1>2, ResiduesEqual

LEMMA TwistedEnd ==
  ASSUME NEW pr \in TransformModuli, NEW form \in Forms, form # "fused", plan = NewPlan(form, pr),
         NEW x \in [Positions -> 0 .. pr - 1], NEW u \in [Positions -> 0 .. 4 * pr],
         Represents(u, form, Psi(pr), x, LogN, Two[LogN], pr),
         NEW v, v = [i \in Positions |-> Multiply(plan.scales[i], u[i], pr)]
  PROVE  v = x
<1> DEFINE s == Psi(pr)
<1>0. Fits(pr) /\ pr \in Int /\ pr > 1 /\ s \in Int /\ Integral(x, RingDegree)
  BY TransformPrime, PsiIs, ResiduesAre
<1>1. plan = TwistedPlan(form, pr)
  BY PlanIs
<1>2. PICK n \in Int : n = Two[LogN] /\ n = RingDegree
  BY DegreeIs
<1> HIDE DEF s
<1>3. ASSUME NEW i \in Positions
      PROVE  v[i] \in 0 .. pr - 1 /\ SameRest(v[i], x[i], pr)
  <2>1. PICK w \in Int, y \in Int : w = Raise(s, i) /\ y = x[i]
    BY <1>0, WholeIs
  <2>2. SameRest(u[i], n * (y * w), pr)
    <3>1. /\ i \div Two[LogN] = 0 /\ i % Two[LogN] = i
          /\ Standing(form, s, x, LogN, 0, i) = y * w
      BY <1>0, <2>1, WholeIs
    <3>2. SameRest(u[i], Two[LogN] * Standing(form, s, x, LogN, i \div Two[LogN], i % Two[LogN]), pr)
      BY DEF Represents, s
    <3> QED BY <1>2, <3>1, <3>2
  <2>3. PICK d \in Int : d = n * w /\ BackFactor(plan.scales[i], d, pr)
    <3>1. BackFactor(plan.scales[i], RingDegree * Raise(s, i), pr)
      BY <1>1, TwistedTwists DEF s
    <3>2. n * w \in Int
      OBVIOUS
    <3> QED BY <1>2, <2>1, <3>1, <3>2
  <2>4. n * (y * w) = y * (n * w)
    OBVIOUS
  <2>5. SameRest(u[i], y * d, pr)
    BY <2>2, <2>3, <2>4
  <2>6. u[i] \in Words
    <3>1. u[i] \in 0 .. 4 * pr
      OBVIOUS
    <3> QED BY <1>0, <3>1, RangeFacts
  <2>7. /\ Multiply(plan.scales[i], u[i], pr) \in 0 .. pr - 1
        /\ SameRest(Multiply(plan.scales[i], u[i], pr), y, pr)
    BY <1>0, <2>3, <2>5, <2>6, InvertsIs
  <2>8. v[i] = Multiply(plan.scales[i], u[i], pr)
    OBVIOUS
  <2> QED BY <2>1, <2>7, <2>8
<1>4. v \in [Positions -> 0 .. pr - 1]
  BY <1>3
<1> QED BY <1>3, <1>4, ResiduesEqual

(* What a polynomial is at the odd powers of psi.                          *)
LEMMA PowerWraps ==
  ASSUME NEW pr \in TransformModuli, NEW e \in Nat, NEW d \in Int, d = 2 * RingDegree
  PROVE  /\ e % d \in Nat /\ SameRest(PowerMod(Psi(pr), e % d, pr), Raise(Psi(pr), e), pr)
         /\ PowerMod(Psi(pr), e % d, pr) \in Int /\ Raise(Psi(pr), e) \in Int
<1> DEFINE s == Psi(pr)
<1>1. pr \in Int /\ pr > 1 /\ pr > 0 /\ d > 0 /\ s \in Int /\ d \in Nat
  BY TransformPrime, PsiIs, DegreeIs
<1>2. SameRest(Raise(s, d), 1, pr)
  BY PsiIs
<1> HIDE DEF s
<1>3. PICK k \in Nat, r \in Nat : k = e \div d /\ r = e % d /\ e = d * k + r
  <2>0. e \in Int /\ d \in Int /\ d > 0
    BY <1>1
  <2>1. /\ e \div d \in Int /\ e % d \in Int /\ e = (e \div d) * d + (e % d) /\ 0 <= e % d
    BY <2>0, DivMod, Zenon
  <2>2. e \div d >= 0
    BY <1>1
  <2>3. PICK k \in Int, r \in Int : k = e \div d /\ r = e % d
    BY <2>1
  <2>4. k * d = d * k
    OBVIOUS
  <2> QED BY <2>1, <2>2, <2>3, <2>4
<1>4. PICK z \in Nat : z = d * k
  <2>1. d * k \in Int /\ 0 <= d * k
    BY <1>1, TimesSign
  <2> QED BY <2>1
<1>5. /\ Raise(s, d) \in Int /\ Raise(s, r) \in Int /\ Raise(s, e) = Raise(s, z) * Raise(s, r)
      /\ Raise(s, e) \in Int
  <2>1. z + r = e
    BY <1>3, <1>4
  <2>2. Raise(s, z + r) = Raise(s, z) * Raise(s, r)
    BY <1>1, RaiseAdds
  <2>3. Raise(s, d) \in Int /\ Raise(s, r) \in Int /\ Raise(s, e) \in Int
    BY <1>1, RaiseIs
  <2> QED BY <2>1, <2>2, <2>3
<1>6. Raise(s, z) = Raise(Raise(s, d), k)
  BY <1>1, <1>4, RaiseTimes
<1>7. SameRest(Raise(s, z), 1, pr) /\ Raise(s, z) \in Int
  <2>1. SameRest(Raise(Raise(s, d), k), Raise(1, k), pr)
    <3>1. PICK x \in Int : x = Raise(s, d)
      BY <1>5
    <3>2. SameRest(x, 1, pr)
      BY <1>2, <3>1
    <3>3. SameRest(Raise(x, k), Raise(1, k), pr)
      BY ONLY <1>1, <3>2, x \in Int, k \in Nat, RaiseRest
    <3> QED BY <3>1, <3>3
  <2> QED BY <1>1, <1>6, <2>1, RaiseUnit, RaiseIs
<1>8. SameRest(Raise(s, e), Raise(s, r), pr)
  <2>1. PICK x \in Int, y \in Int : x = Raise(s, z) /\ y = Raise(s, r)
    BY <1>5, <1>7
  <2>2. SameRest(y, y, pr)
    BY DEF SameRest
  <2>3. SameRest(x * y, 1 * y, pr)
    BY <1>1, <1>7, <2>1, <2>2, RestTimes
  <2>4. 1 * y = y
    OBVIOUS
  <2> QED BY <1>5, <2>1, <2>3, <2>4
<1>9. SameRest(PowerMod(s, r, pr), Raise(s, r), pr) /\ PowerMod(s, r, pr) \in Int
  BY <1>1, PowerModIs
<1>10. SameRest(PowerMod(s, r, pr), Raise(s, e), pr)
  BY <1>8, <1>9 DEF SameRest
<1> QED BY <1>3, <1>5, <1>9, <1>10 DEF s

-----------------------------------------------------------------------------

(* The values at the odd powers of psi.                                    *)

(* Where a transform evaluates: at the blocks of one value.                *)
Point(pr, i) == Turn(Psi(pr), 0, i)

LEMMA PointIs ==
  ASSUME NEW pr \in TransformModuli, NEW i \in Positions
  PROVE  /\ Point(pr, i) \in Int /\ SameRest(Raise(Point(pr, i), RingDegree), -1, pr)
         /\ Odd(0, i) \in Nat /\ Odd(0, i) = 2 * BitReversed(i) + 1
         /\ Point(pr, i) = Raise(Psi(pr), Odd(0, i))
<1> DEFINE s == Psi(pr)
<1>1. pr \in Int /\ pr > 1 /\ pr > 0 /\ s \in Int /\ SameRest(Raise(s, RingDegree), -1, pr)
  BY TransformPrime, PsiIs
<1>2. /\ i \in Nat /\ 0 \in 0 .. LogN /\ LogN - 0 = LogN /\ Two[0] = 1 /\ RingDegree \in Nat
      /\ BitReversed(i) \in Nat
  <2>1. i \in Nat /\ BitReversed(i) \in Nat
    BY ReversalIs
  <2>2. 0 \in 0 .. LogN /\ LogN - 0 = LogN /\ RingDegree \in Nat
    BY DegreeIs
  <2>3. Two[0] = 1
    BY TwoValues
  <2> QED BY <2>1, <2>2, <2>3
<1> HIDE DEF s
<1>3. Odd(0, i) \in Nat /\ Odd(0, i) = 2 * BitReversed(i) + 1
  <2>1. BitReversed(i) = Rev(i, LogN)
    BY <1>2, ReversedIs
  <2> QED BY <1>2, <2>1 DEF Odd
<1>4. PICK e \in Nat, h \in Nat : e = Odd(0, i) /\ h = BitReversed(i) /\ e = 2 * h + 1
  BY <1>2, <1>3
<1>5. Turn(s, 0, i) = Raise(s, e) /\ Raise(s, e) \in Int
  <2>1. 1 * e = e
    OBVIOUS
  <2> QED BY <1>1, <1>2, <1>4, <2>1, RaiseIs DEF Turn
<1>6. SameRest(Raise(Raise(s, e), RingDegree), -1, pr)
  <2>1. PICK z \in Int : z = Raise(s, RingDegree)
    BY <1>1, <1>2, RaiseIs
  <2>2. Raise(Raise(s, e), RingDegree) = Raise(z, e)
    <3>1. Raise(Raise(s, e), RingDegree) = Raise(s, e * RingDegree)
      BY <1>1, <1>2, RaiseTimes
    <3>2. Raise(Raise(s, RingDegree), e) = Raise(s, RingDegree * e)
      BY <1>1, <1>2, RaiseTimes
    <3>3. e * RingDegree = RingDegree * e
      BY <1>2
    <3> QED BY <2>1, <3>1, <3>2, <3>3
  <2>3. SameRest(Raise(z, e), Raise(-1, e), pr)
    <3>1. -1 \in Int
      OBVIOUS
    <3> QED BY <1>1, <2>1, <3>1, RaiseRest
  <2>4. Raise(-1, e) = -1
    <3>1. PICK d \in Nat : d = 2 * h
      OBVIOUS
    <3>2. Raise(-1, d + 1) = Raise(-1, d) * (-1) /\ Raise(-1, d) \in Int
      BY RaiseIs
    <3>3. Raise(-1, d) = Raise(Raise(-1, 2), h)
      BY <3>1, RaiseTimes
    <3>4. Raise(-1, 2) = 1
      <4>1. Raise(-1, 1) = -1
        BY RaiseOne
      <4>2. Raise(-1, 1 + 1) = Raise(-1, 1) * (-1)
        BY RaiseIs
      <4>3. 1 + 1 = 2 /\ (-1) * (-1) = 1
        OBVIOUS
      <4> QED BY <4>1, <4>2, <4>3
    <3>5. Raise(1, h) = 1
      BY RaiseUnit
    <3>6. d + 1 = e /\ 1 * (-1) = -1
      BY <1>4, <3>1
    <3> QED BY <3>2, <3>3, <3>4, <3>5, <3>6
  <2> QED BY <2>2, <2>3, <2>4
<1> QED BY <1>3, <1>4, <1>5, <1>6 DEF s, Point

LEMMA EvaluationIs ==
  ASSUME NEW pr \in TransformModuli, NEW f, Integral(f, RingDegree), NEW i \in Positions
  PROVE  /\ Poly(f, Point(pr, i), RingDegree) \in Int
         /\ Evaluations(f, pr)[i] \in 0 .. pr - 1
         /\ Evaluations(f, pr)[i] \in Int
         /\ SameRest(Evaluations(f, pr)[i], Poly(f, Point(pr, i), RingDegree), pr)
<1> DEFINE s == Psi(pr)
<1>1. /\ pr \in Int /\ pr > 1 /\ pr > 0 /\ s \in Int
      /\ RingDegree \in Nat /\ Positions = 0 .. RingDegree - 1
  BY TransformPrime, PsiIs, DegreeIs, ReversalIs
<1>2. PICK e \in Nat, r \in Int, d \in Int :
        e = Odd(0, i) /\ e = 2 * BitReversed(i) + 1 /\ r = Point(pr, i) /\ r = Raise(s, e)
        /\ d = 2 * RingDegree
  <2>1. 2 * RingDegree \in Int
    BY <1>1
  <2> QED BY <2>1, PointIs
<1> HIDE DEF s
<1> DEFINE g == [k \in Positions |-> f[k] * PowerMod(s, (k * e) % d, pr)]
           h == Monomials(f, r, RingDegree)
<1>3. Evaluations(f, pr)[i] = SumTo(g, RingDegree) % pr
  <2>1. Evaluations(f, pr)[i]
          = SumBelow([k \in Positions |->
              f[k] * PowerMod(s, (k * (2 * BitReversed(i) + 1)) % (2 * RingDegree), pr)],
              RingDegree) % pr
    BY DEF Evaluations, s
  <2>2. Evaluations(f, pr)[i] = SumBelow(g, RingDegree) % pr
    BY <1>2, <2>1
  <2> HIDE DEF g
  <2>3. SumBelow(g, RingDegree) = SumTo(g, RingDegree)
    BY DEF SumBelow, SumTo
  <2> QED BY <2>2, <2>3
<1>4. ASSUME NEW k \in 0 .. RingDegree - 1 PROVE g[k] \in Int /\ h[k] \in Int /\ SameRest(g[k], h[k], pr)
  <2>1. PICK n \in Nat : n = k * e
    <3>1. k \in Int /\ 0 <= k
      BY <1>1
    <3>2. k * e \in Int /\ 0 <= k * e
      BY <3>1, TimesSign
    <3> QED BY <3>2
  <2>2. PICK x \in Int, y \in Int, z \in Int :
          /\ x = f[k] /\ y = PowerMod(s, n % d, pr) /\ z = Raise(s, n) /\ SameRest(y, z, pr)
    <3>1. f[k] \in Int
      BY DEF Integral
    <3>2. /\ SameRest(PowerMod(s, n % d, pr), Raise(s, n), pr)
          /\ PowerMod(s, n % d, pr) \in Int /\ Raise(s, n) \in Int
      BY <1>2, PowerWraps DEF s
    <3> QED BY <3>1, <3>2
  <2>3. g[k] = x * y
    BY <1>1, <2>1, <2>2
  <2>4. h[k] = x * z
    <3>1. Raise(r, k) = Raise(s, e * k)
      BY <1>1, <1>2, RaiseTimes
    <3>2. e * k = n
      <4>1. k \in Int
        BY <1>1
      <4> QED BY <2>1, <4>1
    <3>3. h[k] = f[k] * Raise(r, k)
      BY DEF Monomials
    <3> QED BY <2>2, <3>1, <3>2, <3>3
  <2>5. SameRest(x * y, x * z, pr) /\ x * y \in Int /\ x * z \in Int
    <3>1. SameRest(x, x, pr)
      BY DEF SameRest
    <3>2. SameRest(x * y, x * z, pr)
      BY <1>1, <2>2, <3>1, RestTimes
    <3> QED BY <3>2
  <2> QED BY <2>3, <2>4, <2>5
<1> HIDE DEF g, h
<1>5. Integral(g, RingDegree) /\ Integral(h, RingDegree)
  BY <1>4 DEF Integral
<1>6. SameRest(SumTo(g, RingDegree), SumTo(h, RingDegree), pr)
  BY <1>1, <1>4, <1>5, SumRests
<1>7. PICK a \in Int : a = SumTo(g, RingDegree)
  <2>1. RingDegree \in 0 .. RingDegree
    BY <1>1
  <2> QED BY <1>1, <1>5, <2>1, SumIs
<1>8. Poly(f, r, RingDegree) = SumTo(h, RingDegree) /\ Poly(f, r, RingDegree) \in Int
  BY <1>1, PolyIs DEF Poly, h
<1>9. a % pr \in 0 .. pr - 1 /\ a % pr \in Int /\ SameRest(a % pr, a, pr)
  <2>1. a % pr \in 0 .. pr - 1
    BY <1>1
  <2>2. SameRest(a % pr, a, pr)
    BY <1>1, RestIsSame
  <2> QED BY <1>1, <2>1, <2>2
<1>10. SameRest(a % pr, Poly(f, r, RingDegree), pr)
  BY <1>6, <1>7, <1>8, <1>9, RestChains
<1> QED BY <1>2, <1>3, <1>7, <1>8, <1>9, <1>10

LEMMA SinglesAre ==
  ASSUME NEW pr \in TransformModuli, NEW form, NEW f, Integral(f, RingDegree), NEW i \in Positions
  PROVE  /\ i \div Two[0] = i /\ i % Two[0] = 0
         /\ Standing(form, Psi(pr), f, 0, i, 0) = Poly(f, Point(pr, i), RingDegree)
<1> DEFINE s == Psi(pr)
<1>1. /\ i \in Nat /\ 0 \in 0 .. LogN /\ LogN - 0 = LogN /\ Two[0] = 1 /\ Two[LogN] = RingDegree
      /\ RingDegree \in Nat /\ s \in Int
  BY ReversalIs, DegreeIs, TwoValues, PsiIs
<1> HIDE DEF s
<1>2. i \div 1 = i /\ i % 1 = 0
  BY <1>1
<1>3. Block(f, s, 0, i, 0) = Poly(Spread(f, 0, 0), Turn(s, 0, i), RingDegree)
  BY <1>1 DEF Block
<1>4. Poly(Spread(f, 0, 0), Turn(s, 0, i), RingDegree) = Poly(f, Turn(s, 0, i), RingDegree)
  <2>1. ASSUME NEW k \in 0 .. RingDegree - 1 PROVE Spread(f, 0, 0)[k] = f[k]
    <3>1. 0 + k * 1 = k
      BY <1>1
    <3> QED BY <1>1, <3>1 DEF Spread
  <2>2. Monomials(Spread(f, 0, 0), Turn(s, 0, i), RingDegree) = Monomials(f, Turn(s, 0, i), RingDegree)
    BY <2>1 DEF Monomials
  <2> QED BY <2>2 DEF Poly
<1>5. Poly(f, Turn(s, 0, i), RingDegree) \in Int
  BY EvaluationIs DEF s, Point
<1>6. Standing(form, s, f, 0, i, 0) = Block(f, s, 0, i, 0)
  <2>1. PICK z \in Int : z = Block(f, s, 0, i, 0)
    BY <1>3, <1>4, <1>5
  <2>2. Raise(s, 0 * Odd(0, i)) = 1
    <3>1. Odd(0, i) \in Nat
      BY PointIs
    <3>2. 0 * Odd(0, i) = 0
      BY <3>1
    <3> QED BY <1>1, <3>2, RaiseIs
  <2>3. z * 1 = z
    OBVIOUS
  <2> QED BY <2>1, <2>2, <2>3 DEF Standing
<1> QED BY <1>1, <1>2, <1>3, <1>4, <1>6 DEF s, Point

-----------------------------------------------------------------------------

(* Canonical values, and remainders.                                       *)

(* The end of the forward transform: late values are reduced.              *)
LEMMA CanonicalIs ==
  ASSUME NEW pr \in TransformModuli, NEW form \in Forms, plan = NewPlan(form, pr),
         NEW n \in Int, n = (IF form = "fused" THEN 4 * pr ELSE Late(form) * pr), NEW z \in 0 .. n - 1
  PROVE  Canonical(z) \in 0 .. pr - 1 /\ SameRest(Canonical(z), z, pr)
<1>1. Fits(pr) /\ pr \in Int /\ pr > 1 /\ z \in Int
  BY TransformPrime
<1>2. plan.form = form /\ Prime = pr /\ Twice = 2 * pr
  BY PlanIs
<1>3. CASE form = "plain"
  <2>1. Canonical(z) = z /\ n = pr
    BY <1>1, <1>2, <1>3 DEF Canonical, Late
  <2> QED BY <1>1, <2>1 DEF SameRest
<1>4. ASSUME NEW y \in 0 .. 2 * pr - 1 PROVE Below(y, pr) \in 0 .. pr - 1 /\ SameRest(Below(y, pr), y, pr)
  <2>1. 1 \in {1, 2} /\ pr = 1 * pr /\ pr \in Int
    BY <1>1
  <2> QED BY <1>1, <2>1, ReducesOnce
<1>5. CASE form = "lazy"
  <2>1. Canonical(z) = Below(z, pr) /\ n = 2 * pr
    BY <1>1, <1>2, <1>5 DEF Canonical, Late
  <2> QED BY <1>4, <2>1
<1>6. CASE form = "fused"
  <2>1. PICK m \in Int : m = 2 * pr
    BY <1>1
  <2>2. PICK y : y = Below(z, m)
    OBVIOUS
  <2>3. Canonical(z) = Below(y, pr) /\ z \in 0 .. 2 * m - 1
    BY <1>1, <1>2, <1>6, <2>1, <2>2 DEF Canonical
  <2>4. y \in 0 .. m - 1 /\ SameRest(y, z, pr)
    <3>1. 2 \in {1, 2}
      OBVIOUS
    <3> QED BY <1>1, <2>1, <2>2, <2>3, <3>1, ReducesOnce
  <2>5. Below(y, pr) \in 0 .. pr - 1 /\ SameRest(Below(y, pr), y, pr)
    BY <1>4, <2>1, <2>4
  <2> QED BY <2>3, <2>4, <2>5, RestChains
<1> QED BY <1>3, <1>5, <1>6 DEF Forms

LEMMA EvaluationsType ==
  ASSUME NEW pr \in TransformModuli, NEW f, Integral(f, RingDegree)
  PROVE  Evaluations(f, pr) \in [Positions -> 0 .. pr - 1]
<1>1. \A i \in Positions : Evaluations(f, pr)[i] \in 0 .. pr - 1
  BY EvaluationIs
<1>2. Evaluations(f, pr) = [i \in Positions |-> Evaluations(f, pr)[i]]
  BY DEF Evaluations
<1> QED BY <1>1, <1>2

LEMMA CanonicalEnds ==
  ASSUME NEW pr \in TransformModuli, NEW form \in Forms, plan = NewPlan(form, pr),
         NEW f \in [Positions -> 0 .. pr - 1],
         NEW n \in Int, n = (IF form = "fused" THEN 4 * pr ELSE Late(form) * pr),
         NEW u \in [Positions -> 0 .. n - 1], Represents(u, form, Psi(pr), f, 0, 1, pr),
         NEW v, v = [i \in Positions |-> Canonical(u[i])]
  PROVE  v = Evaluations(f, pr)
<1>1. Integral(f, RingDegree)
  BY ResiduesAre
<1>2. Evaluations(f, pr) \in [Positions -> 0 .. pr - 1]
  BY <1>1, EvaluationsType
<1>3. ASSUME NEW i \in Positions
      PROVE  v[i] \in 0 .. pr - 1 /\ SameRest(v[i], Evaluations(f, pr)[i], pr)
  <2>1. v[i] \in 0 .. pr - 1 /\ SameRest(v[i], u[i], pr)
    <3>1. u[i] \in 0 .. n - 1 /\ v[i] = Canonical(u[i])
      OBVIOUS
    <3> QED BY <3>1, CanonicalIs
  <2>2. PICK y \in Int : /\ y = Poly(f, Point(pr, i), RingDegree)
                         /\ SameRest(Evaluations(f, pr)[i], y, pr)
    BY <1>1, EvaluationIs
  <2>3. SameRest(u[i], 1 * y, pr)
    <3>1. /\ i \div Two[0] = i /\ i % Two[0] = 0
          /\ Standing(form, Psi(pr), f, 0, i, 0) = y
      BY <1>1, <2>2, SinglesAre
    <3>2. SameRest(u[i], 1 * Standing(form, Psi(pr), f, 0, i \div Two[0], i % Two[0]), pr)
      BY DEF Represents
    <3> QED BY <3>1, <3>2
  <2>4. 1 * y = y
    OBVIOUS
  <2>5. SameRest(v[i], y, pr)
    BY <2>1, <2>3, <2>4, RestChains
  <2>6. SameRest(v[i], Evaluations(f, pr)[i], pr)
    BY <2>2, <2>5 DEF SameRest
  <2> QED BY <2>1, <2>6
<1>4. v \in [Positions -> 0 .. pr - 1]
  BY <1>3
<1> QED BY <1>2, <1>3, <1>4, ResiduesEqual

(* The product at every point is that of the ring.                         *)
LEMMA RemainderFits ==
  ASSUME NEW pr \in TransformModuli, NEW form \in Forms, plan = NewPlan(form, pr),
         NEW x \in 0 .. pr - 1, NEW y \in 0 .. pr - 1
  PROVE  PlanRemainder(x * y) \in 0 .. pr - 1 /\ SameRest(PlanRemainder(x * y), x * y, pr)
<1>1. Fits(pr) /\ pr \in Int /\ pr > 1 /\ pr > 0 /\ x \in Int /\ y \in Int
  BY TransformPrime
<1>2. PICK z \in Int : z = x * y
  BY <1>1
<1>3. z \in Wide
  <2>1. pr < B /\ B \in Int /\ B > 0 /\ B * B \in Int
    BY <1>1, FitsFacts, BaseFacts
  <2>2. x * y <= pr * y /\ pr * y <= pr * B /\ pr * B < B * B /\ 0 <= x * y
    <3>1. 0 <= x * y
      BY <1>1, TimesSign
    <3>2. x * y <= B * y
      BY <1>1, <2>1, TimesMonotone
    <3>3. y * B < B * B
      <4>1. y < B /\ 0 < B
        BY <1>1, <2>1
      <4> QED BY <1>1, <2>1, <4>1, TimesStrict
    <3>4. x * y <= pr * y
      BY <1>1, <2>1, TimesMonotone
    <3>5. y * pr <= B * pr /\ B * pr = pr * B /\ y * pr = pr * y
      BY <1>1, <2>1, TimesMonotone
    <3>6. pr * B < B * B
      BY <1>1, <2>1, TimesStrict
    <3> QED BY <3>1, <3>4, <3>5, <3>6
  <2>3. pr * y \in Int /\ pr * B \in Int
    BY <1>1, <2>1
  <2> QED BY <1>2, <2>1, <2>2, <2>3 DEF Wide
<1>4. PlanRemainder(z) = z % pr
  <2>1. Reduce(z, pr) = z % pr
    BY <1>1, <1>3, ReduceIsRemainder
  <2> QED BY <2>1, PlanIs DEF PlanRemainder
<1>5. z % pr \in 0 .. pr - 1 /\ SameRest(z % pr, z, pr)
  <2>1. z % pr \in 0 .. pr - 1
    BY <1>1
  <2> QED BY <1>1, <2>1, RestIsSame
<1> QED BY <1>2, <1>4, <1>5

LEMMA RingProductIs ==
  ASSUME NEW pr \in TransformModuli, NEW form \in Forms, plan = NewPlan(form, pr),
         NEW f, NEW g, Integral(f, RingDegree), Integral(g, RingDegree)
  PROVE  /\ RingProductModP(f, g) \in [Positions -> 0 .. pr - 1]
         /\ \A k \in Positions : SameRest(RingProductModP(f, g)[k], RingProduct(f, g, RingDegree)[k], pr)
<1>1. /\ pr \in Int /\ pr > 0 /\ Prime = pr
      /\ RingDegree \in Nat /\ Positions = 0 .. RingDegree - 1
  BY TransformPrime, PlanIs, DegreeIs, ReversalIs
<1>2. Integral(RingProduct(f, g, RingDegree), RingDegree)
  BY <1>1, WrappedIs
<1>3. ASSUME NEW k \in Positions
      PROVE  /\ RingProductModP(f, g)[k] \in 0 .. pr - 1
             /\ SameRest(RingProductModP(f, g)[k], RingProduct(f, g, RingDegree)[k], pr)
  <2>1. PICK z \in Int : z = RingProduct(f, g, RingDegree)[k]
    BY <1>1, <1>2 DEF Integral
  <2>2. z = SumTo(Wrapped(f, g, RingDegree, k), RingDegree)
    BY <1>1, <2>1 DEF RingProduct
  <2>3. RingProductModP(f, g)[k] = SumBelow(Wrapped(f, g, RingDegree, k), RingDegree) % pr
    BY <1>1 DEF RingProductModP, Wrapped
  <2>4. SumBelow(Wrapped(f, g, RingDegree, k), RingDegree) = SumTo(Wrapped(f, g, RingDegree, k), RingDegree)
    BY DEF SumBelow, SumTo
  <2>5. RingProductModP(f, g)[k] = z % pr
    BY <2>2, <2>3, <2>4
  <2>6. z % pr \in 0 .. pr - 1
    BY <1>1
  <2>7. SameRest(z % pr, z, pr)
    BY <1>1, RestIsSame
  <2> QED BY <2>1, <2>5, <2>6, <2>7
<1>4. RingProductModP(f, g) = [k \in Positions |-> RingProductModP(f, g)[k]]
  BY DEF RingProductModP
<1> QED BY <1>3, <1>4

-----------------------------------------------------------------------------

(* The products of the values.                                             *)

LEMMA ProductStarts ==
  ASSUME NEW pr \in TransformModuli, NEW form \in Forms, plan = NewPlan(form, pr),
         NEW f \in [Positions -> 0 .. pr - 1], NEW g \in [Positions -> 0 .. pr - 1],
         NEW v, v = [i \in Positions |-> PlanRemainder(Evaluations(f, pr)[i] * Evaluations(g, pr)[i])]
  PROVE  v \in [Positions -> 0 .. pr - 1] /\ Represents(v, form, Psi(pr), RingProductModP(f, g), 0, 1, pr)
<1>1. /\ pr \in Int /\ pr > 0 /\ RingDegree \in Nat /\ Positions = 0 .. RingDegree - 1
      /\ Integral(f, RingDegree) /\ Integral(g, RingDegree)
  <2>1. Integral(f, RingDegree) /\ Integral(g, RingDegree)
    BY ResiduesAre
  <2> QED BY <2>1, TransformPrime, DegreeIs, ReversalIs
<1> DEFINE h == RingProductModP(f, g)
           e == RingProduct(f, g, RingDegree)
<1>2. h \in [Positions -> 0 .. pr - 1] /\ \A k \in Positions : SameRest(h[k], e[k], pr)
  BY <1>1, RingProductIs
<1>3. Integral(h, RingDegree)
  BY <1>2, ResiduesAre
<1>4. Integral(e, RingDegree)
  BY <1>1, WrappedIs
<1> HIDE DEF h, e
<1>5. ASSUME NEW i \in Positions
      PROVE  /\ v[i] \in 0 .. pr - 1
             /\ SameRest(v[i], 1 * Standing(form, Psi(pr), h, 0, i \div Two[0], i % Two[0]), pr)
  <2>1. PICK r \in Int : r = Point(pr, i) /\ SameRest(Raise(r, RingDegree), -1, pr)
    BY PointIs
  <2>2. PICK a \in 0 .. pr - 1, x \in Int :
          a = Evaluations(f, pr)[i] /\ x = Poly(f, r, RingDegree) /\ SameRest(a, x, pr)
    BY <1>1, <2>1, EvaluationIs
  <2>3. PICK b \in 0 .. pr - 1, y \in Int :
          b = Evaluations(g, pr)[i] /\ y = Poly(g, r, RingDegree) /\ SameRest(b, y, pr)
    BY <1>1, <2>1, EvaluationIs
  <2>4. v[i] = PlanRemainder(a * b)
    BY <2>2, <2>3
  <2>5. v[i] \in 0 .. pr - 1 /\ SameRest(v[i], a * b, pr)
    BY <2>4, RemainderFits
  <2>6. SameRest(a * b, x * y, pr)
    <3>1. a \in Int /\ b \in Int
      BY <1>1
    <3> QED BY <1>1, <2>2, <2>3, <3>1, RestTimes
  <2>7. SameRest(x * y, Poly(e, r, RingDegree), pr)
    BY <1>1, <2>1, <2>2, <2>3, PolyProducts DEF e
  <2>8. SameRest(Poly(h, r, RingDegree), Poly(e, r, RingDegree), pr)
    <3>1. SameRest(r, r, pr)
      BY DEF SameRest
    <3>2. \A k \in 0 .. RingDegree - 1 : SameRest(h[k], e[k], pr)
      BY <1>1, <1>2
    <3> QED BY <1>1, <1>3, <1>4, <3>1, <3>2, PolyRests
  <2>9. SameRest(v[i], Poly(h, r, RingDegree), pr)
    BY <2>5, <2>6, <2>7, <2>8 DEF SameRest
  <2>10. PICK z \in Int : /\ z = Poly(h, r, RingDegree) /\ i \div Two[0] = i /\ i % Two[0] = 0
                          /\ Standing(form, Psi(pr), h, 0, i, 0) = z
    <3>1. Poly(h, r, RingDegree) \in Int
      BY <1>3, <2>1, EvaluationIs
    <3> QED BY <1>3, <2>1, <3>1, SinglesAre
  <2>11. 1 * z = z
    OBVIOUS
  <2> QED BY <2>5, <2>9, <2>10, <2>11
<1>6. v \in [Positions -> 0 .. pr - 1]
  BY <1>5
<1> QED BY <1>5, <1>6 DEF Represents, h

(* The bounds do not depend on what is transformed.                        *)
LEMMA FactorTimes ==
  ASSUME NEW pr, Fits(pr), NEW k \in {1, 2}, NEW m \in Int, m = k * pr,
         NEW t, IsFactor(t, pr), NEW z \in 0 .. 4 * pr
  PROVE  Times(k, t, z, pr) \in 0 .. m - 1
<1>1. PICK w \in 0 .. pr - 1 : t = Multiplier(w, pr)
  BY DEF IsFactor
<1>2. w \in Int /\ SameRest(w, w, pr)
  BY FitsFacts DEF SameRest
<1>3. Fixes(t, w, pr)
  BY <1>1, <1>2 DEF Fixes
<1> QED BY <1>2, <1>3, TimesFixes

LEMMA TwistedFactors ==
  ASSUME NEW pr \in TransformModuli, NEW form
  PROVE  /\ \A i \in 0 .. RingDegree \div 2 - 1 :
              /\ IsFactor(TwistedPlan(form, pr).roots[i], pr)
              /\ IsFactor(TwistedPlan(form, pr).inverses[i], pr)
         /\ \A i \in Positions :
              /\ IsFactor(TwistedPlan(form, pr).twists[i], pr)
              /\ IsFactor(TwistedPlan(form, pr).scales[i], pr)
  BY TwistedTwists, TwistedRoots DEF IsFactor, Fixes, BackFactor

LEMMA FusedFactors ==
  ASSUME NEW pr \in TransformModuli
  PROVE  /\ \A i \in Positions : /\ IsFactor(FusedPlan(pr).roots[i], pr)
                                 /\ IsFactor(FusedPlan(pr).inverses[i], pr)
         /\ IsFactor(FusedPlan(pr).scale, pr) /\ IsFactor(FusedPlan(pr).last, pr)
  BY FusedRoots, FusedEnds DEF IsFactor, Fixes, BackFactor

LEMMA InversePassRange ==
  ASSUME NEW pr \in TransformModuli, NEW form \in Forms, form # "fused", plan = NewPlan(form, pr),
         NEW l \in 1 .. LogN, length = Two[l],
         NEW n \in Int, n = (IF form = "plain" THEN pr ELSE 4 * pr),
         values \in [Positions -> 0 .. n - 1]
  PROVE  InversePass \in [Positions -> 0 .. n - 1]
<1> DEFINE late == Late(form)
<1>0. Fits(pr) /\ pr \in Int /\ pr > 1
  BY TransformPrime
<1>1. /\ plan.form = form /\ Prime = pr /\ Twice = 2 * pr /\ late \in {1, 2}
      /\ plan = TwistedPlan(form, pr)
  BY PlanIs
<1>2. PICK m \in Int : /\ m = late * pr /\ (IF plan.form = "plain" THEN Prime ELSE Twice) = m
                       /\ form = "plain" => m = pr /\ n = pr
                       /\ form # "plain" => n = 2 * m
                       /\ 0 .. n - 1 \subseteq 0 .. 2 * m - 1 /\ 0 .. n - 1 \subseteq 0 .. 4 * pr
  <2>1. CASE form = "plain"
    BY <1>0, <1>1, <2>1 DEF Late
  <2>2. CASE form # "plain"
    BY <1>0, <1>1, <2>2 DEF Late
  <2> QED BY <2>1, <2>2
<1> HIDE DEF late
<1>3. ASSUME NEW i \in Positions PROVE InversePass[i] \in 0 .. n - 1
  <2>1. PICK b \in 0 .. Two[LogN - l] - 1, j \in 0 .. Two[l - 1] - 1, o \in {0, 1} :
          Located(l, i, b, j, o)
    BY Locates
  <2>2. PICK g, h, t : g = At(l, b, j) /\ h = At(l, b, j + Two[l - 1]) /\ t = plan.inverses[j * Two[LogN - l]]
    OBVIOUS
  <2>3. g \in Positions /\ h \in Positions
    <3>1. l \in 0 .. LogN /\ j \in 0 .. Two[l] - 1 /\ j + Two[l - 1] \in 0 .. Two[l] - 1
      BY HalvesAt
    <3> QED BY <2>2, <3>1, AtIs
  <2>4. PICK a \in 0 .. 2 * m - 1, e \in 0 .. 4 * pr : a = values[g] /\ e = values[h]
    <3>1. values[g] \in 0 .. n - 1 /\ values[h] \in 0 .. n - 1
      BY <2>3
    <3> QED BY <1>2, <3>1
  <2>5. IsFactor(t, pr)
    <3>1. j * Two[LogN - l] \in 0 .. RingDegree \div 2 - 1
      BY RootPlace
    <3> QED BY <1>1, <2>2, <3>1, TwistedFactors
  <2>6. PICK u, v, r :
          /\ u \in 0 .. m - 1 /\ v \in 0 .. m - 1
          /\ u = Below(a, m) /\ v = Times(late, t, e, pr)
          /\ r = (IF o = 0 THEN u + v ELSE u + m - v) % B
    <3>1. Below(a, m) \in 0 .. m - 1
      BY <1>0, <1>1, <1>2, ReducesOnce
    <3>2. Times(late, t, e, pr) \in 0 .. m - 1
      BY <1>0, <1>1, <1>2, <2>5, FactorTimes
    <3> QED BY <3>1, <3>2
  <2>7. InversePass[i] = IF form = "plain" THEN Below(r, m) ELSE r
    <3>1. /\ First(i) = g /\ First(i) + length \div 2 = h
          /\ InHalf(i) * (RingDegree \div length) = j * Two[LogN - l]
          /\ (IsFirst(i) <=> o = 0)
      BY <2>1, <2>2 DEF Located
    <3>2. InversePass[i] =
            LET bound == IF plan.form = "plain" THEN Prime ELSE Twice
                Settle(z) == IF plan.form = "plain" THEN Below(z, Prime) ELSE z
                x == Below(values[First(i)], bound)
                y == PlanTimes(plan.inverses[InHalf(i) * (RingDegree \div length)],
                               values[First(i) + length \div 2])
            IN  Settle((IF IsFirst(i) THEN x + y ELSE x + bound - y) % B)
      BY DEF InversePass
    <3>3. PlanTimes(t, e) = v
      BY <2>6, PlanTimesIs DEF late
    <3>4. InversePass[i] =
            LET Settle(z) == IF plan.form = "plain" THEN Below(z, Prime) ELSE z
            IN  Settle((IF IsFirst(i) THEN u + v ELSE u + m - v) % B)
      BY <1>2, <2>2, <2>4, <2>6, <3>1, <3>2, <3>3
    <3>5. r = (IF IsFirst(i) THEN u + v ELSE u + m - v) % B
      BY <2>6, <3>1
    <3>6. InversePass[i] = IF plan.form = "plain" THEN Below(r, Prime) ELSE r
      BY <3>4, <3>5
    <3>7. CASE form = "plain"
      BY <1>1, <1>2, <3>6, <3>7
    <3>8. CASE form # "plain"
      BY <1>1, <3>6, <3>8
    <3> QED BY <3>7, <3>8
  <2>8. r \in 0 .. 2 * m - 1 /\ Below(r, m) \in 0 .. m - 1
    <3>1. SameRest(u, u, pr) /\ SameRest(v, v, pr) /\ u \in Int /\ v \in Int
      BY <2>6 DEF SameRest
    <3>2. Fits(pr) /\ late \in {1, 2} /\ m = late * pr
      BY <1>0, <1>1, <1>2
    <3>3. r = (IF o = 0 THEN u + v ELSE u + m - v) % B
      BY <2>6
    <3>4. r \in 0 .. 2 * m - 1
      BY <2>6, <3>1, <3>2, <3>3, InverseSum
    <3>5. Below(r, m) \in 0 .. m - 1
      BY <2>6, <3>1, <3>2, <3>3, InverseSum
    <3> QED BY <3>4, <3>5
  <2>9. CASE form = "plain"
    BY <1>2, <2>7, <2>8, <2>9
  <2>10. CASE form # "plain"
    BY <1>2, <2>7, <2>8, <2>10
  <2> QED BY <2>9, <2>10
<1>4. InversePass = [i \in Positions |-> InversePass[i]]
  BY DEF InversePass
<1> QED BY <1>3, <1>4

-----------------------------------------------------------------------------

(* The inductive invariant.                                                *)

(* What holds before every pass.                                           *)
BelowPrime(pr) == [Positions -> 0 .. pr - 1]
Ahead(form, pr) == IF form = "fused" THEN 4 * pr ELSE Late(form) * pr
Behind(form, pr) == IF form = "plain" THEN pr ELSE IF form = "fused" THEN 2 * pr ELSE 4 * pr

Goal == RingProductModP(subject, factor)

Twisting(form, pr) ==
  /\ pass = "twist" /\ form # "fused" /\ length = RingDegree
  /\ values \in BelowPrime(pr) /\ values = subject

Evaluating(form, pr) ==
  /\ pass = "forward"
  /\ \E l \in 1 .. LogN :
       /\ length = Two[l] /\ values \in [Positions -> 0 .. Ahead(form, pr) - 1]
       /\ Represents(values, form, Psi(pr), subject, l, 1, pr)

Reducing(form, pr) ==
  /\ pass = "reduce" /\ values \in [Positions -> 0 .. Ahead(form, pr) - 1]
  /\ Represents(values, form, Psi(pr), subject, 0, 1, pr)

Evaluated(form, pr) == pass = "product" /\ values \in BelowPrime(pr) /\ values = Evaluations(subject, pr)

Interpolating(form, pr) ==
  /\ pass = "inverse"
  /\ \E l \in 1 .. LogN :
       /\ length = Two[l] /\ (form = "fused" => l < LogN)
       /\ values \in [Positions -> 0 .. Behind(form, pr) - 1]
       /\ Represents(values, form, Psi(pr), Goal, l - 1, Two[l - 1], pr)

Finishing(form, pr) ==
  /\ pass = "finish" /\ values \in [Positions -> 0 .. Behind(form, pr) - 1]
  /\ IF form = "fused"
     THEN length = Two[LogN] /\ Represents(values, form, Psi(pr), Goal, LogN - 1, Two[LogN - 1], pr)
     ELSE Represents(values, form, Psi(pr), Goal, LogN, Two[LogN], pr)

Finished(form, pr) == pass = "done" /\ values \in BelowPrime(pr) /\ values = Goal

ProductInv(form, pr) ==
  /\ subject \in BelowPrime(pr) /\ factor \in BelowPrime(pr)
  /\ \/ Twisting(form, pr) \/ Evaluating(form, pr) \/ Reducing(form, pr) \/ Evaluated(form, pr)
     \/ Interpolating(form, pr) \/ Finishing(form, pr) \/ Finished(form, pr)

MaskInv(form, pr) ==
  /\ factor = <<>> /\ form # "fused"
  /\ \/ /\ pass = "inverse" /\ values \in [Positions -> 0 .. Behind(form, pr) - 1]
        /\ \E l \in 1 .. LogN : length = Two[l]
     \/ pass = "finish" /\ values \in [Positions -> 0 .. Behind(form, pr) - 1]
     \/ pass = "done" /\ values \in BelowPrime(pr)

TransformAt(form, pr) == plan = NewPlan(form, pr) /\ (ProductInv(form, pr) \/ MaskInv(form, pr))

TransformInv == \E form \in Forms, pr \in TransformModuli : TransformAt(form, pr)

LEMMA BoundsAre ==
  ASSUME NEW pr \in TransformModuli, NEW form \in Forms
  PROVE  /\ Late(form) * pr \in Int /\ Ahead(form, pr) \in Int /\ Behind(form, pr) \in Int
         /\ Ahead(form, pr) >= pr /\ Behind(form, pr) >= pr /\ pr > 8
         /\ Ahead(form, pr) <= 4 * pr /\ Behind(form, pr) <= 4 * pr
<1>1. pr \in Int /\ pr > 8
  BY TransformPrime
<1>2. CASE form = "plain"
  <2>1. Late(form) = 1
    BY <1>2 DEF Late
  <2>2. Late(form) * pr = pr
    BY <1>1, <2>1
  <2>3. Ahead(form, pr) = pr /\ Behind(form, pr) = pr
    BY <1>2, <2>2 DEF Ahead, Behind
  <2> QED BY <1>1, <2>2, <2>3
<1>3. CASE form = "lazy"
  <2>1. Late(form) = 2
    BY <1>3 DEF Late
  <2>2. Late(form) * pr = 2 * pr
    BY <1>1, <2>1
  <2>3. Ahead(form, pr) = 2 * pr /\ Behind(form, pr) = 4 * pr
    BY <1>3, <2>2 DEF Ahead, Behind
  <2> QED BY <1>1, <2>2, <2>3
<1>4. CASE form = "fused"
  <2>1. Late(form) = 2
    BY <1>4 DEF Late
  <2>2. Late(form) * pr = 2 * pr
    BY <1>1, <2>1
  <2>3. Ahead(form, pr) = 4 * pr /\ Behind(form, pr) = 2 * pr
    BY <1>4 DEF Ahead, Behind
  <2> QED BY <1>1, <2>2, <2>3
<1> QED BY <1>2, <1>3, <1>4 DEF Forms

(* The bound that is checked is that of the pass.                          *)
LEMMA BoundIs ==
  ASSUME NEW pr \in TransformModuli, NEW form \in Forms, plan = NewPlan(form, pr)
  PROVE  /\ pass = "twist" /\ form # "fused" => Bound >= pr /\ Bound \in Int
         /\ pass \in {"forward", "reduce"} => Bound = Ahead(form, pr)
         /\ pass \in {"inverse", "finish"} => Bound = Behind(form, pr)
         /\ pass \in {"product", "done"} => Bound = pr
<1>1. pr \in Int /\ pr > 8 /\ plan.form = form /\ Prime = pr /\ Twice = 2 * pr
  BY TransformPrime, PlanIs
<1>2. CASE form = "plain"
  <2>1. Bound = pr
    BY <1>1, <1>2 DEF Bound
  <2>2. 1 * pr = pr
    BY <1>1
  <2> QED BY <1>1, <1>2, <2>1, <2>2 DEF Ahead, Behind, Late
<1>3. CASE form = "lazy"
  <2>1. pass \in {"product", "done"} => Bound = pr
    BY <1>1 DEF Bound
  <2>2. pass \in {"forward", "reduce"} => Bound = 2 * pr
    BY <1>1, <1>3 DEF Bound
  <2>3. pass \in {"twist", "inverse", "finish"} => Bound = 4 * pr
    BY <1>1, <1>3 DEF Bound
  <2> QED BY <1>1, <1>3, <2>1, <2>2, <2>3 DEF Ahead, Behind, Late
<1>4. CASE form = "fused"
  <2>1. pass \in {"product", "done"} => Bound = pr
    BY <1>1 DEF Bound
  <2>2. pass \in {"forward", "reduce"} => Bound = 4 * pr
    BY <1>1, <1>4 DEF Bound
  <2>3. pass \in {"inverse", "finish"} => Bound = 2 * pr
    BY <1>1, <1>4 DEF Bound
  <2> QED BY <1>1, <1>4, <2>1, <2>2, <2>3 DEF Ahead, Behind, Late
<1> QED BY <1>2, <1>3, <1>4 DEF Forms

LEMMA PlanTyped ==
  ASSUME NEW pr \in TransformModuli, NEW form \in Forms, plan = NewPlan(form, pr)
  PROVE  PlanTypeOK
<1>1. Fits(pr) /\ plan.form = form /\ Prime = pr
  BY TransformPrime, PlanIs
<1>2. SUFFICES ASSUME NEW t \in Factors PROVE IsFactor(t, pr)
  BY <1>1, FactorIs DEF PlanTypeOK
<1>3. CASE form = "fused"
  <2>1. plan = FusedPlan(pr)
    BY <1>3, PlanIs
  <2>2. /\ DOMAIN plan.roots = Positions /\ DOMAIN plan.inverses = Positions
    BY <2>1 DEF FusedPlan
  <2>3. \/ \E i \in Positions : t = plan.roots[i]
        \/ \E i \in Positions : t = plan.inverses[i]
        \/ t = plan.scale \/ t = plan.last
    BY <1>1, <1>3, <2>2 DEF Factors, Range
  <2> QED BY <2>1, <2>3, FusedFactors
<1>4. CASE form # "fused"
  <2>1. plan = TwistedPlan(form, pr)
    BY <1>4, PlanIs
  <2>2. /\ DOMAIN plan.roots = 0 .. RingDegree \div 2 - 1
        /\ DOMAIN plan.inverses = 0 .. RingDegree \div 2 - 1
        /\ DOMAIN plan.twists = Positions /\ DOMAIN plan.scales = Positions
    BY <2>1 DEF TwistedPlan
  <2>3. \/ \E i \in 0 .. RingDegree \div 2 - 1 : t = plan.roots[i]
        \/ \E i \in 0 .. RingDegree \div 2 - 1 : t = plan.inverses[i]
        \/ \E i \in Positions : t = plan.twists[i]
        \/ \E i \in Positions : t = plan.scales[i]
    BY <1>1, <1>4, <2>2 DEF Factors, Range
  <2> QED BY <2>1, <2>3, TwistedFactors
<1> QED BY <1>3, <1>4

(* The passes are exact as long as the invariant holds.                    *)
LEMMA TransformExact == TransformInv => TransformsAreExact
<1> SUFFICES ASSUME TransformInv PROVE TransformsAreExact
  OBVIOUS
<1>1. PICK form \in Forms, pr \in TransformModuli : TransformAt(form, pr)
  BY DEF TransformInv
<1>2. plan = NewPlan(form, pr) /\ (ProductInv(form, pr) \/ MaskInv(form, pr))
  BY <1>1 DEF TransformAt
<1>3. PlanTypeOK /\ Prime = pr
  BY <1>2, PlanTyped, PlanIs
<1>4. \A i \in Positions : values[i] \in 0 .. Bound - 1
  <2>1. CASE pass = "twist"
    <3>1. values \in BelowPrime(pr) /\ form # "fused"
      BY <1>2, <2>1 DEF ProductInv, MaskInv, Twisting, Evaluating, Reducing, Evaluated,
                        Interpolating, Finishing, Finished
    <3>2. Bound >= pr /\ Bound \in Int /\ pr \in Int
      BY <1>2, <2>1, <3>1, BoundIs, TransformPrime
    <3> QED BY <3>1, <3>2 DEF BelowPrime
  <2>2. CASE pass \in {"forward", "reduce"}
    <3>1. values \in [Positions -> 0 .. Ahead(form, pr) - 1]
      BY <1>2, <2>2 DEF ProductInv, MaskInv, Twisting, Evaluating, Reducing, Evaluated,
                        Interpolating, Finishing, Finished
    <3>2. Bound = Ahead(form, pr)
      BY <1>2, <2>2, BoundIs
    <3> QED BY <3>1, <3>2
  <2>3. CASE pass \in {"inverse", "finish"}
    <3>1. values \in [Positions -> 0 .. Behind(form, pr) - 1]
      BY <1>2, <2>3 DEF ProductInv, MaskInv, Twisting, Evaluating, Reducing, Evaluated,
                        Interpolating, Finishing, Finished
    <3>2. Bound = Behind(form, pr)
      BY <1>2, <2>3, BoundIs
    <3> QED BY <3>1, <3>2
  <2>4. CASE pass \in {"product", "done"}
    <3>1. values \in BelowPrime(pr)
      BY <1>2, <2>4 DEF ProductInv, MaskInv, Twisting, Evaluating, Reducing, Evaluated,
                        Interpolating, Finishing, Finished
    <3>2. Bound = pr
      BY <1>2, <2>4, BoundIs
    <3> QED BY <3>1, <3>2 DEF BelowPrime
  <2>5. pass \in {"twist", "forward", "reduce", "product", "inverse", "finish", "done"}
    BY <1>2 DEF ProductInv, MaskInv, Twisting, Evaluating, Reducing, Evaluated,
                Interpolating, Finishing, Finished
  <2> QED BY <2>1, <2>2, <2>3, <2>4, <2>5
<1>5. pass = "product" => values = Evaluations(subject, Prime)
  BY <1>2, <1>3 DEF ProductInv, MaskInv, Twisting, Evaluating, Reducing, Evaluated,
                    Interpolating, Finishing, Finished
<1>6. pass = "done" /\ ~ IsMask => values = RingProductModP(subject, factor)
  BY <1>2 DEF ProductInv, MaskInv, Twisting, Evaluating, Reducing, Evaluated,
              Interpolating, Finishing, Finished, Goal, IsMask
<1> QED BY <1>3, <1>4, <1>5, <1>6 DEF TransformsAreExact

-----------------------------------------------------------------------------

(* Its start, and the twist.                                               *)

LEMMA MaskValues ==
  ASSUME NEW count, NEW lanes
  PROVE  MaskEvaluations(count, lanes) \in [Positions -> {0, 1}]
  BY DEF MaskEvaluations

LEMMA ProductNotMask ==
  ASSUME NEW pr, NEW f \in BelowPrime(pr)
  PROVE  f # <<>>
<1>1. DOMAIN f = Positions /\ 0 \in Positions
  BY DegreeIs DEF BelowPrime, Positions
<1> QED BY <1>1, EmptySequence

LEMMA TransformStart == TransformInit => TransformInv
<1> SUFFICES ASSUME TransformInit PROVE TransformInv
  OBVIOUS
<1>1. CASE InitProduct
  <2>1. PICK form \in Forms, pr \in NttPrimes, f \in Polynomials, g \in Polynomials :
          /\ plan = NewPlan(form, pr)
          /\ subject = [i \in Positions |-> f[i] % pr]
          /\ factor = [i \in Positions |-> g[i] % pr]
          /\ pass = FirstPass(form)
          /\ length = RingDegree
          /\ values = subject
    BY <1>1 DEF InitProduct, Forms
  <2>2. pr \in TransformModuli
    BY DEF TransformModuli
  <2>3. pr \in Int /\ pr > 8
    BY <2>2, TransformPrime
  <2>4. subject \in BelowPrime(pr) /\ factor \in BelowPrime(pr)
    <3>1. ASSUME NEW h \in Polynomials PROVE [i \in Positions |-> h[i] % pr] \in BelowPrime(pr)
      <4>1. ASSUME NEW i \in Positions PROVE h[i] % pr \in 0 .. pr - 1
        <5>1. h[i] \in Int
          BY TransformAssumption DEF Positions
        <5> QED BY <2>3, <5>1
      <4> QED BY <4>1 DEF BelowPrime
    <3> QED BY <2>1, <3>1
  <2>5. CASE form = "fused"
    <3>1. pass = "forward" /\ length = Two[LogN] /\ LogN \in 1 .. LogN
      BY <2>1, <2>5, DegreeIs DEF FirstPass
    <3>2. values \in [Positions -> 0 .. Ahead(form, pr) - 1]
      <4>1. Ahead(form, pr) \in Int /\ Ahead(form, pr) >= pr
        BY <2>2, BoundsAre
      <4> QED BY <2>1, <2>3, <2>4, <4>1 DEF BelowPrime
    <3>3. Represents(subject, "fused", Psi(pr), subject, LogN, 1, pr)
      BY <2>2, <2>4, FusedStarts DEF BelowPrime
    <3>4. Evaluating(form, pr)
      BY <2>1, <2>5, <3>1, <3>2, <3>3 DEF Evaluating
    <3> QED BY <2>1, <2>2, <2>4, <3>4 DEF ProductInv, TransformAt, TransformInv
  <2>6. CASE form # "fused"
    <3>1. Twisting(form, pr)
      BY <2>1, <2>4, <2>6 DEF FirstPass, Twisting
    <3> QED BY <2>1, <2>2, <2>4, <3>1 DEF ProductInv, TransformAt, TransformInv
  <2> QED BY <2>5, <2>6
<1>2. CASE InitMask
  <2>1. PICK form, count, lanes :
          /\ form \in Forms /\ form # "fused" /\ plan = NewPlan(form, PlainModulus)
          /\ factor = <<>> /\ pass = "inverse" /\ length = 2
          /\ values = MaskEvaluations(count, lanes)
    BY <1>2 DEF InitMask, Forms
  <2>2. PICK pr \in TransformModuli : pr = PlainModulus
    BY DEF TransformModuli
  <2>3. values \in [Positions -> 0 .. Behind(form, pr) - 1]
    <3>1. values \in [Positions -> {0, 1}]
      BY <2>1, MaskValues
    <3>2. Behind(form, pr) \in Int /\ Behind(form, pr) >= pr /\ pr > 8 /\ pr \in Int
      BY <2>1, BoundsAre, TransformPrime
    <3> QED BY <3>1, <3>2
  <2>4. \E l \in 1 .. LogN : length = Two[l]
    <3>1. 1 \in 1 .. LogN /\ Two[1] = 2
      BY DegreeIs, TwoValues
    <3> QED BY <2>1, <3>1
  <2>5. MaskInv(form, pr)
    BY <2>1, <2>3, <2>4 DEF MaskInv
  <2> QED BY <2>1, <2>2, <2>5 DEF TransformAt, TransformInv
<1> QED BY <1>1, <1>2 DEF TransformInit

(* A pass leaves alone what is transformed.                                *)
LEMMA ProductKept ==
  ASSUME NEW pr \in TransformModuli, NEW form \in Forms, TransformAt(form, pr),
         subject \in BelowPrime(pr), factor \in BelowPrime(pr),
         UNCHANGED <<plan, subject, factor>>,
         \/ Twisting(form, pr)' \/ Evaluating(form, pr)' \/ Reducing(form, pr)'
         \/ Evaluated(form, pr)' \/ Interpolating(form, pr)' \/ Finishing(form, pr)'
         \/ Finished(form, pr)'
  PROVE  TransformInv'
<1>1. plan' = NewPlan(form, pr) /\ subject' \in BelowPrime(pr) /\ factor' \in BelowPrime(pr)
  BY DEF TransformAt
<1>2. ProductInv(form, pr)'
  BY <1>1 DEF ProductInv
<1> QED BY <1>1, <1>2 DEF TransformAt, TransformInv

LEMMA GoalKept == ASSUME UNCHANGED <<plan, subject, factor>> PROVE Goal' = Goal
  BY DEF Goal, RingProductModP, Prime

LEMMA GoalIs ==
  ASSUME NEW pr \in TransformModuli, NEW form \in Forms, plan = NewPlan(form, pr),
         subject \in BelowPrime(pr), factor \in BelowPrime(pr)
  PROVE  Goal \in BelowPrime(pr) /\ Integral(Goal, RingDegree) /\ Integral(subject, RingDegree)
<1>1. Integral(subject, RingDegree) /\ Integral(factor, RingDegree)
  BY ResiduesAre DEF BelowPrime
<1>2. Goal \in [Positions -> 0 .. pr - 1]
  BY <1>1, RingProductIs DEF Goal
<1>3. Integral(Goal, RingDegree)
  BY <1>2, ResiduesAre
<1> QED BY <1>1, <1>2, <1>3 DEF BelowPrime

LEMMA TwistStep ==
  ASSUME NEW pr \in TransformModuli, NEW form \in Forms, TransformAt(form, pr), Twist
  PROVE  TransformInv'
<1>1. plan = NewPlan(form, pr) /\ pass = "twist" /\ UNCHANGED <<plan, subject, factor>>
  BY DEF TransformAt, Twist
<1>2. Twisting(form, pr) /\ subject \in BelowPrime(pr) /\ factor \in BelowPrime(pr)
  BY <1>1 DEF TransformAt, ProductInv, MaskInv, Evaluating, Reducing, Evaluated,
              Interpolating, Finishing, Finished
<1>3. PICK m, v : /\ m \in Int /\ m = Late(form) * pr /\ m = Ahead(form, pr)
                 /\ v = [i \in Positions |-> PlanTimes(plan.twists[i], subject[i])]
  BY <1>2, BoundsAre DEF Ahead, Twisting
<1>4. v \in [Positions -> 0 .. m - 1] /\ Represents(v, form, Psi(pr), subject, LogN, 1, pr)
  <2>1. form # "fused" /\ subject \in [Positions -> 0 .. pr - 1]
    BY <1>2 DEF Twisting, BelowPrime
  <2> QED BY <1>1, <1>3, <2>1, TwistStarts
<1>5. values' = v /\ pass' = "forward" /\ length' = Two[LogN] /\ LogN \in 1 .. LogN
  BY <1>2, <1>3, DegreeIs DEF Twist, Twisting
<1>6. Evaluating(form, pr)'
  <2>1. Represents(values', form, Psi(pr), subject', LogN, 1, pr)
    BY <1>1, <1>4, <1>5
  <2> QED BY <1>3, <1>4, <1>5, <2>1 DEF Evaluating
<1> QED BY <1>1, <1>2, <1>6, ProductKept

-----------------------------------------------------------------------------

(* The steps up to the product.                                            *)

LEMMA TwoLess == \A i, j \in 0 .. 16 : i < j => Two[i] < Two[j]
  BY TwoValues

LEMMA ShorterBlocks ==
  ASSUME NEW l \in 1 .. LogN, NEW n, n = Two[l]
  PROVE  /\ n \div 2 = Two[l - 1]
         /\ n > 2 => l - 1 \in 1 .. LogN
         /\ ~ (n > 2) => l - 1 = 0
<1>1. l \in 0 .. 16 /\ l - 1 \in 0 .. 15 /\ (l - 1) + 1 = l /\ 1 \in 0 .. 16 /\ l \in Int
  BY DegreeIs
<1>2. PICK h \in Nat : h = Two[l - 1] /\ Two[l] = 2 * h
  <2>1. Two[l - 1] \in Nat \ {0} /\ Two[(l - 1) + 1] = 2 * Two[l - 1]
    BY <1>1, TwoDoubles
  <2> QED BY <1>1, <2>1
<1>3. n \div 2 = h
  BY <1>2
<1>4. CASE l = 1
  <2>1. n = 2
    BY <1>4, TwoValues
  <2> QED BY <1>2, <1>3, <1>4, <2>1
<1>5. CASE l # 1
  <2>1. 1 < l /\ Two[1] = 2
    BY <1>1, <1>5, TwoValues
  <2>2. Two[1] < Two[l]
    BY <1>1, <2>1, TwoLess
  <2>3. l - 1 \in 1 .. LogN
    BY <1>5, DegreeIs
  <2> QED BY <1>2, <1>3, <2>1, <2>2, <2>3
<1> QED BY <1>4, <1>5

LEMMA LongerBlocks ==
  ASSUME NEW l \in 1 .. LogN, NEW n, n = Two[l]
  PROVE  /\ 2 * n = Two[l + 1]
         /\ l < LogN => (2 * n < RingDegree <=> l + 1 < LogN) /\ 2 * n < 2 * RingDegree
         /\ l = LogN => ~ (2 * n < 2 * RingDegree)
<1>1. /\ l \in 0 .. 15 /\ l + 1 \in 0 .. 16 /\ LogN \in 0 .. 16 /\ l \in 0 .. 16 /\ l \in Int
      /\ Two[LogN] = RingDegree /\ RingDegree \in Int
  BY DegreeIs
<1>2. PICK h \in Nat : h = Two[l] /\ Two[l + 1] = 2 * h
  BY <1>1, TwoDoubles
<1>3. CASE l = LogN
  BY <1>1, <1>2, <1>3
<1>4. CASE l < LogN
  <2>1. h < RingDegree
    BY <1>1, <1>2, <1>4, TwoLess
  <2>2. l + 1 < LogN => Two[l + 1] < RingDegree
    BY <1>1, TwoLess
  <2>3. Two[l + 1] < RingDegree => l + 1 < LogN
    BY <1>1, TwoOrder
  <2> QED BY <1>1, <1>2, <1>4, <2>1, <2>2, <2>3
<1> QED BY <1>1, <1>3, <1>4, DegreeIs

LEMMA ForwardStep ==
  ASSUME NEW pr \in TransformModuli, NEW form \in Forms, TransformAt(form, pr), ForwardStage
  PROVE  TransformInv'
<1>1. plan = NewPlan(form, pr) /\ pass = "forward" /\ UNCHANGED <<plan, subject, factor>>
  BY DEF TransformAt, ForwardStage
<1>2. Evaluating(form, pr) /\ subject \in BelowPrime(pr) /\ factor \in BelowPrime(pr)
  BY <1>1 DEF TransformAt, ProductInv, MaskInv, Twisting, Reducing, Evaluated,
              Interpolating, Finishing, Finished
<1>3. PICK l \in 1 .. LogN :
        /\ length = Two[l] /\ values \in [Positions -> 0 .. Ahead(form, pr) - 1]
        /\ Represents(values, form, Psi(pr), subject, l, 1, pr)
  BY <1>2 DEF Evaluating
<1>4. /\ length' = Two[l - 1]
      /\ length > 2 => pass' = "forward" /\ l - 1 \in 1 .. LogN
      /\ ~ (length > 2) => pass' = "reduce" /\ l - 1 = 0
  BY <1>3, ShorterBlocks DEF ForwardStage
<1>5. Integral(subject, RingDegree) /\ plan.form = form
  BY <1>1, <1>2, ResiduesAre, PlanIs DEF BelowPrime
<1>6. /\ values' \in [Positions -> 0 .. Ahead(form, pr) - 1]
      /\ Represents(values', form, Psi(pr), subject, l - 1, 1, pr)
  <2>1. CASE form = "fused"
    <3>1. values' = ForwardFused
      BY <1>5, <2>1 DEF ForwardStage
    <3>2. values \in [Positions -> Range4(pr)] /\ Range4(pr) = 0 .. Ahead(form, pr) - 1
      BY <1>3, <2>1 DEF Ahead, Range4
    <3>3. plan = NewPlan("fused", pr) /\ Represents(values, "fused", Psi(pr), subject, l, 1, pr)
      BY <1>1, <1>3, <2>1
    <3>4. /\ ForwardFused \in [Positions -> Range4(pr)]
          /\ Represents(ForwardFused, "fused", Psi(pr), subject, l - 1, 1, pr)
      BY <1>3, <1>5, <3>2, <3>3, ForwardFusedStage
    <3> QED BY <2>1, <3>1, <3>2, <3>4
  <2>2. CASE form # "fused"
    <3>1. values' = ForwardPass
      BY <1>5, <2>2 DEF ForwardStage
    <3>2. PICK m \in Int : m = Late(form) * pr /\ m = Ahead(form, pr)
      BY <2>2, BoundsAre DEF Ahead
    <3>3. values \in [Positions -> 0 .. m - 1]
      BY <1>3, <3>2
    <3>4. /\ ForwardPass \in [Positions -> 0 .. m - 1]
          /\ Represents(ForwardPass, form, Psi(pr), subject, l - 1, 1, pr)
      BY <1>1, <1>3, <1>5, <2>2, <3>2, <3>3, ForwardPassStage
    <3> QED BY <3>1, <3>2, <3>4
  <2> QED BY <2>1, <2>2
<1>7. subject' = subject
  BY <1>1
<1>8. CASE length > 2
  <2>1. Evaluating(form, pr)'
    BY <1>4, <1>6, <1>7, <1>8 DEF Evaluating
  <2> QED BY <1>1, <1>2, <2>1, ProductKept
<1>9. CASE ~ (length > 2)
  <2>1. Reducing(form, pr)'
    BY <1>4, <1>6, <1>7, <1>9 DEF Reducing
  <2> QED BY <1>1, <1>2, <2>1, ProductKept
<1> QED BY <1>8, <1>9

LEMMA ReduceStep ==
  ASSUME NEW pr \in TransformModuli, NEW form \in Forms, TransformAt(form, pr), Canonicalize
  PROVE  TransformInv'
<1>1. plan = NewPlan(form, pr) /\ pass = "reduce" /\ UNCHANGED <<plan, subject, factor>>
  BY DEF TransformAt, Canonicalize
<1>2. Reducing(form, pr) /\ subject \in BelowPrime(pr) /\ factor \in BelowPrime(pr)
  BY <1>1 DEF TransformAt, ProductInv, MaskInv, Twisting, Evaluating, Evaluated,
              Interpolating, Finishing, Finished
<1>3. PICK n \in Int : n = Ahead(form, pr)
  BY BoundsAre
<1>4. n = IF form = "fused" THEN 4 * pr ELSE Late(form) * pr
  BY <1>3 DEF Ahead
<1>5. values' = Evaluations(subject, pr)
  <2>1. values' = [i \in Positions |-> Canonical(values[i])]
    BY DEF Canonicalize
  <2>2. values \in [Positions -> 0 .. n - 1] /\ Represents(values, form, Psi(pr), subject, 0, 1, pr)
    BY <1>2, <1>3 DEF Reducing
  <2>3. subject \in [Positions -> 0 .. pr - 1]
    BY <1>2 DEF BelowPrime
  <2> QED BY <1>1, <1>4, <2>1, <2>2, <2>3, CanonicalEnds
<1>6. Evaluations(subject, pr) \in BelowPrime(pr)
  <2>1. Integral(subject, RingDegree)
    BY <1>2, ResiduesAre DEF BelowPrime
  <2> QED BY <2>1, EvaluationsType DEF BelowPrime
<1>7. Evaluated(form, pr)'
  <2>1. pass' = "product" /\ subject' = subject
    BY <1>1 DEF Canonicalize
  <2> QED BY <1>5, <1>6, <2>1 DEF Evaluated
<1> QED BY <1>1, <1>2, <1>7, ProductKept

LEMMA ProductStep ==
  ASSUME NEW pr \in TransformModuli, NEW form \in Forms, TransformAt(form, pr), PointwiseProduct
  PROVE  TransformInv'
<1>1. plan = NewPlan(form, pr) /\ pass = "product" /\ UNCHANGED <<plan, subject, factor>>
  BY DEF TransformAt, PointwiseProduct
<1>2. Evaluated(form, pr) /\ subject \in BelowPrime(pr) /\ factor \in BelowPrime(pr)
  BY <1>1 DEF TransformAt, ProductInv, MaskInv, Twisting, Evaluating, Reducing,
              Interpolating, Finishing, Finished
<1>3. values' = [i \in Positions |-> PlanRemainder(Evaluations(subject, pr)[i] * Evaluations(factor, pr)[i])]
  BY <1>1, <1>2, PlanIs DEF PointwiseProduct, Evaluated
<1>4. values' \in [Positions -> 0 .. pr - 1] /\ Represents(values', form, Psi(pr), Goal, 0, 1, pr)
  <2>1. subject \in [Positions -> 0 .. pr - 1] /\ factor \in [Positions -> 0 .. pr - 1]
    BY <1>2 DEF BelowPrime
  <2> QED BY <1>1, <1>3, <2>1, ProductStarts DEF Goal
<1>5. /\ 1 \in 1 .. LogN /\ 1 < LogN /\ Two[1] = 2 /\ Two[0] = 1 /\ 1 - 1 = 0
  BY DegreeIs, TwoValues
<1>6. values' \in [Positions -> 0 .. Behind(form, pr) - 1]
  <2>1. Behind(form, pr) \in Int /\ Behind(form, pr) >= pr /\ pr \in Int
    BY BoundsAre, TransformPrime
  <2> QED BY <1>4, <2>1
<1>7. Interpolating(form, pr)'
  <2>1. pass' = "inverse" /\ length' = Two[1] /\ Goal' = Goal
    BY <1>1, <1>5, GoalKept DEF PointwiseProduct
  <2>2. Represents(values', form, Psi(pr), Goal', 1 - 1, Two[1 - 1], pr)
    BY <1>4, <1>5, <2>1
  <2> QED BY <1>5, <1>6, <2>1, <2>2 DEF Interpolating
<1> QED BY <1>1, <1>2, <1>7, ProductKept

-----------------------------------------------------------------------------

(* The steps of the inverse.                                               *)

(* Where an inverse pass leads.                                            *)
LEMMA InverseLeads ==
  ASSUME NEW pr \in TransformModuli, NEW form \in Forms, plan = NewPlan(form, pr), InverseStage,
         NEW l \in 1 .. LogN, length = Two[l], form = "fused" => l < LogN
  PROVE  /\ length' = Two[l + 1] /\ (l + 1) - 1 = l
         /\ \/ pass' = "inverse" /\ l + 1 \in 1 .. LogN /\ (form = "fused" => l + 1 < LogN)
            \/ /\ pass' = "finish"
               /\ form = "fused" => l + 1 = LogN /\ l = LogN - 1
               /\ form # "fused" => l = LogN
<1>1. /\ 2 * length = Two[l + 1]
      /\ l < LogN => (2 * length < RingDegree <=> l + 1 < LogN) /\ 2 * length < 2 * RingDegree
      /\ l = LogN => ~ (2 * length < 2 * RingDegree)
  BY LongerBlocks
<1>2. LogN \in Int /\ l \in Int /\ l <= LogN /\ (l + 1) - 1 = l
  BY DegreeIs
<1>3. plan.form = form
  BY PlanIs
<1>4. CASE form = "fused"
  <2>1. pass' = IF 2 * length < RingDegree THEN "inverse" ELSE "finish"
    BY <1>3, <1>4 DEF InverseStage
  <2>2. length' = 2 * length
    BY DEF InverseStage
  <2> QED BY <1>1, <1>2, <1>4, <2>1, <2>2
<1>5. CASE form # "fused"
  <2>1. pass' = IF 2 * length < 2 * RingDegree THEN "inverse" ELSE "finish"
    BY <1>3, <1>5 DEF InverseStage
  <2>2. length' = 2 * length
    BY DEF InverseStage
  <2> QED BY <1>1, <1>2, <1>5, <2>1, <2>2
<1> QED BY <1>4, <1>5

LEMMA InverseCarries ==
  ASSUME NEW pr \in TransformModuli, NEW form \in Forms, plan = NewPlan(form, pr), InverseStage,
         NEW x, Integral(x, RingDegree), NEW l \in 1 .. LogN, length = Two[l],
         values \in [Positions -> 0 .. Behind(form, pr) - 1],
         Represents(values, form, Psi(pr), x, l - 1, Two[l - 1], pr)
  PROVE  /\ values' \in [Positions -> 0 .. Behind(form, pr) - 1]
         /\ Represents(values', form, Psi(pr), x, l, Two[l], pr)
<1>1. PICK c \in Int : c = Two[l - 1] /\ Two[l] = 2 * c
  BY HalfIs
<1>2. plan.form = form
  BY PlanIs
<1>3. CASE form = "fused"
  <2>1. values' = InverseFused
    BY <1>2, <1>3 DEF InverseStage
  <2>2. values \in [Positions -> Range2(pr)] /\ Range2(pr) = 0 .. Behind(form, pr) - 1
    BY <1>3 DEF Behind, Range2
  <2>3. plan = NewPlan("fused", pr) /\ Represents(values, "fused", Psi(pr), x, l - 1, c, pr)
    BY <1>1, <1>3
  <2>4. /\ InverseFused \in [Positions -> Range2(pr)]
        /\ Represents(InverseFused, "fused", Psi(pr), x, l, 2 * c, pr)
    BY <2>2, <2>3, InverseFusedStage
  <2> QED BY <1>1, <1>3, <2>1, <2>2, <2>4
<1>4. CASE form # "fused"
  <2>1. values' = InversePass
    BY <1>2, <1>4 DEF InverseStage
  <2>2. PICK n \in Int : n = Behind(form, pr) /\ n = (IF form = "plain" THEN pr ELSE 4 * pr)
    BY <1>4, BoundsAre DEF Behind
  <2>3. values \in [Positions -> 0 .. n - 1] /\ Represents(values, form, Psi(pr), x, l - 1, c, pr)
    BY <1>1, <2>2
  <2>4. /\ InversePass \in [Positions -> 0 .. n - 1]
        /\ Represents(InversePass, form, Psi(pr), x, l, 2 * c, pr)
    BY <1>4, <2>2, <2>3, InversePassStage
  <2> QED BY <1>1, <2>1, <2>2, <2>4
<1> QED BY <1>3, <1>4

LEMMA InverseStep ==
  ASSUME NEW pr \in TransformModuli, NEW form \in Forms, TransformAt(form, pr), InverseStage
  PROVE  TransformInv'
<1>1. plan = NewPlan(form, pr) /\ pass = "inverse" /\ UNCHANGED <<plan, subject, factor>>
  BY DEF TransformAt, InverseStage
<1>2. CASE ProductInv(form, pr)
  <2>1. Interpolating(form, pr) /\ subject \in BelowPrime(pr) /\ factor \in BelowPrime(pr)
    BY <1>1, <1>2 DEF ProductInv, Twisting, Evaluating, Reducing, Evaluated, Finishing, Finished
  <2>2. PICK l \in 1 .. LogN :
          /\ length = Two[l] /\ (form = "fused" => l < LogN)
          /\ values \in [Positions -> 0 .. Behind(form, pr) - 1]
          /\ Represents(values, form, Psi(pr), Goal, l - 1, Two[l - 1], pr)
    BY <2>1 DEF Interpolating
  <2>3. Integral(Goal, RingDegree) /\ Goal' = Goal
    BY <1>1, <2>1, GoalIs, GoalKept
  <2>4. /\ values' \in [Positions -> 0 .. Behind(form, pr) - 1]
        /\ Represents(values', form, Psi(pr), Goal', l, Two[l], pr)
    BY <1>1, <2>2, <2>3, InverseCarries
  <2>5. /\ length' = Two[l + 1] /\ (l + 1) - 1 = l
        /\ \/ pass' = "inverse" /\ l + 1 \in 1 .. LogN /\ (form = "fused" => l + 1 < LogN)
           \/ /\ pass' = "finish"
              /\ form = "fused" => l + 1 = LogN /\ l = LogN - 1
              /\ form # "fused" => l = LogN
    BY <1>1, <2>2, InverseLeads
  <2>6. CASE pass' = "inverse" /\ l + 1 \in 1 .. LogN /\ (form = "fused" => l + 1 < LogN)
    <3>1. PICK k \in 1 .. LogN : k = l + 1 /\ k - 1 = l
      BY <2>5, <2>6
    <3>2. Interpolating(form, pr)'
      BY <2>4, <2>5, <2>6, <3>1 DEF Interpolating
    <3> QED BY <1>1, <2>1, <3>2, ProductKept
  <2>7. CASE /\ pass' = "finish"
             /\ form = "fused" => l + 1 = LogN /\ l = LogN - 1
             /\ form # "fused" => l = LogN
    <3>1. Finishing(form, pr)'
      <4>1. CASE form = "fused"
        <5>1. l + 1 = LogN /\ l = LogN - 1
          BY <2>7, <4>1
        <5>2. length' = Two[LogN] /\ Represents(values', form, Psi(pr), Goal', LogN - 1, Two[LogN - 1], pr)
          BY <2>4, <2>5, <5>1
        <5> QED BY <2>4, <2>7, <4>1, <5>2 DEF Finishing
      <4>2. CASE form # "fused"
        <5>1. Represents(values', form, Psi(pr), Goal', LogN, Two[LogN], pr)
          BY <2>4, <2>7, <4>2
        <5> QED BY <2>4, <2>7, <4>2, <5>1 DEF Finishing
      <4> QED BY <4>1, <4>2
    <3> QED BY <1>1, <2>1, <3>1, ProductKept
  <2> QED BY <2>5, <2>6, <2>7
<1>3. CASE MaskInv(form, pr)
  <2>1. PICK l \in 1 .. LogN : length = Two[l]
    BY <1>1, <1>3 DEF MaskInv
  <2>2. /\ factor = <<>> /\ form # "fused"
        /\ values \in [Positions -> 0 .. Behind(form, pr) - 1]
    BY <1>1, <1>3 DEF MaskInv
  <2>3. values' \in [Positions -> 0 .. Behind(form, pr) - 1]
    <3>1. values' = InversePass
      BY <1>1, <2>2, PlanIs DEF InverseStage
    <3>2. PICK n \in Int : n = Behind(form, pr) /\ n = (IF form = "plain" THEN pr ELSE 4 * pr)
      BY <2>2, BoundsAre DEF Behind
    <3> QED BY <1>1, <2>1, <2>2, <3>1, <3>2, InversePassRange
  <2>4. /\ length' = Two[l + 1]
        /\ \/ pass' = "inverse" /\ l + 1 \in 1 .. LogN
           \/ pass' = "finish"
    BY <1>1, <2>1, <2>2, InverseLeads
  <2>5. MaskInv(form, pr)'
    BY <1>1, <2>2, <2>3, <2>4 DEF MaskInv
  <2>6. plan' = NewPlan(form, pr)
    BY <1>1
  <2> QED BY <2>5, <2>6 DEF TransformAt, TransformInv
<1> QED BY <1>2, <1>3 DEF TransformAt

LEMMA ScaledRange ==
  ASSUME NEW pr \in TransformModuli, NEW form \in Forms, form # "fused", plan = NewPlan(form, pr),
         NEW u \in [Positions -> 0 .. 4 * pr]
  PROVE  [i \in Positions |-> Multiply(plan.scales[i], u[i], pr)] \in BelowPrime(pr)
<1>1. Fits(pr) /\ plan = TwistedPlan(form, pr) /\ pr \in Int
  BY TransformPrime, PlanIs
<1>2. ASSUME NEW i \in Positions PROVE Multiply(plan.scales[i], u[i], pr) \in 0 .. pr - 1
  <2>1. IsFactor(plan.scales[i], pr)
    BY <1>1, TwistedFactors
  <2>2. PICK z \in 0 .. 4 * pr : z = u[i]
    OBVIOUS
  <2>3. Times(1, plan.scales[i], z, pr) \in 0 .. pr - 1
    <3>1. 1 \in {1, 2} /\ pr = 1 * pr
      BY <1>1
    <3> QED BY <1>1, <2>1, <3>1, FactorTimes
  <2> QED BY <2>2, <2>3 DEF Times
<1> QED BY <1>2 DEF BelowPrime

LEMMA FinishStep ==
  ASSUME NEW pr \in TransformModuli, NEW form \in Forms, TransformAt(form, pr), FinishInverse
  PROVE  TransformInv'
<1>1. plan = NewPlan(form, pr) /\ pass = "finish" /\ UNCHANGED <<plan, subject, factor>> /\ pass' = "done"
  BY DEF TransformAt, FinishInverse
<1>2. plan.form = form /\ Prime = pr /\ plan' = NewPlan(form, pr)
  BY <1>1, PlanIs
<1>3. values \in [Positions -> 0 .. Behind(form, pr) - 1]
  BY <1>1 DEF TransformAt, ProductInv, MaskInv, Twisting, Evaluating, Reducing, Evaluated,
              Interpolating, Finishing, Finished
<1>4. ASSUME form # "fused"
      PROVE  /\ values \in [Positions -> 0 .. 4 * pr]
             /\ values' = [i \in Positions |-> Multiply(plan.scales[i], values[i], pr)]
             /\ values' \in BelowPrime(pr)
  <2>1. values \in [Positions -> 0 .. 4 * pr]
    <3>1. Behind(form, pr) \in Int /\ Behind(form, pr) <= 4 * pr /\ pr \in Int
      BY BoundsAre, TransformPrime
    <3> QED BY <1>3, <3>1
  <2>2. values' = [i \in Positions |-> Multiply(plan.scales[i], values[i], pr)]
    BY <1>2, <1>4 DEF FinishInverse
  <2> QED BY <1>1, <1>4, <2>1, <2>2, ScaledRange
<1>5. CASE ProductInv(form, pr)
  <2>1. Finishing(form, pr) /\ subject \in BelowPrime(pr) /\ factor \in BelowPrime(pr)
    BY <1>1, <1>5 DEF ProductInv, Twisting, Evaluating, Reducing, Evaluated, Interpolating, Finished
  <2>2. Goal \in BelowPrime(pr) /\ Integral(Goal, RingDegree) /\ Goal' = Goal
    BY <1>1, <2>1, GoalIs, GoalKept
  <2>3. Goal \in [Positions -> 0 .. pr - 1]
    BY <2>2 DEF BelowPrime
  <2>4. CASE form = "fused"
    <3>1. /\ plan = NewPlan("fused", pr) /\ length = Two[LogN]
          /\ values \in [Positions -> Range2(pr)]
          /\ Represents(values, "fused", Psi(pr), Goal, LogN - 1, Two[LogN - 1], pr)
      BY <1>1, <1>3, <2>1, <2>4 DEF Finishing, Behind, Range2
    <3>2. /\ LastFused \in [Positions -> 0 .. pr - 1]
          /\ Represents(LastFused, "fused", Psi(pr), Goal, LogN, 1, pr)
      BY <2>2, <3>1, LastFusedStage
    <3>3. LastFused = Goal
      BY <2>3, <3>2, FusedEnd
    <3>4. values' = Goal
      BY <1>2, <2>4, <3>3 DEF FinishInverse
    <3>5. Finished(form, pr)'
      BY <1>1, <2>2, <3>4 DEF Finished
    <3> QED BY <1>1, <2>1, <3>5, ProductKept
  <2>5. CASE form # "fused"
    <3>1. Represents(values, form, Psi(pr), Goal, LogN, Two[LogN], pr)
      BY <2>1, <2>5 DEF Finishing
    <3>2. values' = Goal
      BY <1>1, <1>4, <2>3, <2>5, <3>1, TwistedEnd
    <3>3. Finished(form, pr)'
      BY <1>1, <2>2, <3>2 DEF Finished
    <3> QED BY <1>1, <2>1, <3>3, ProductKept
  <2> QED BY <2>4, <2>5
<1>6. CASE MaskInv(form, pr)
  <2>1. factor = <<>> /\ form # "fused"
    BY <1>6 DEF MaskInv
  <2>2. MaskInv(form, pr)'
    BY <1>1, <1>4, <2>1 DEF MaskInv
  <2> QED BY <1>2, <2>2 DEF TransformAt, TransformInv
<1> QED BY <1>5, <1>6 DEF TransformAt

LEMMA TransformStep == TransformInv /\ [TransformNext]_transformVars => TransformInv'
<1> SUFFICES ASSUME TransformInv, [TransformNext]_transformVars PROVE TransformInv'
  OBVIOUS
<1>1. PICK form \in Forms, pr \in TransformModuli : TransformAt(form, pr)
  BY DEF TransformInv
<1>2. CASE Twist
  BY <1>1, <1>2, TwistStep
<1>3. CASE ForwardStage
  BY <1>1, <1>3, ForwardStep
<1>4. CASE Canonicalize
  BY <1>1, <1>4, ReduceStep
<1>5. CASE PointwiseProduct
  BY <1>1, <1>5, ProductStep
<1>6. CASE InverseStage
  BY <1>1, <1>6, InverseStep
<1>7. CASE FinishInverse
  BY <1>1, <1>7, FinishStep
<1>8. CASE UNCHANGED transformVars
  <2>1. /\ plan' = plan /\ subject' = subject /\ factor' = factor
        /\ pass' = pass /\ length' = length /\ values' = values
    BY <1>8 DEF transformVars
  <2>2. Goal' = Goal
    BY <2>1, GoalKept
  <2>3. TransformAt(form, pr)'
    BY <1>1, <2>1, <2>2 DEF TransformAt, ProductInv, MaskInv, Twisting, Evaluating, Reducing,
                            Evaluated, Interpolating, Finishing, Finished
  <2> QED BY <2>3 DEF TransformInv
<1> QED BY <1>2, <1>3, <1>4, <1>5, <1>6, <1>7, <1>8 DEF TransformNext

(* For every degree, word and prime that splits the ring: in all three     *)
(* forms words do not wrap and values stay below the bound of the pass,    *)
(* the transform evaluates at the odd powers of psi, and back it gives the *)
(* product modulo X^N + 1 and p.                                           *)
THEOREM Transforms == TransformSpec => []TransformsAreExact
<1>1. TransformSpec => []TransformInv
  BY TransformStart, TransformStep, PTL DEF TransformSpec
<1> QED BY <1>1, TransformExact, PTL
=============================================================================
