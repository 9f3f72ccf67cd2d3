------------------------------ MODULE Numbers -------------------------------
(***************************************************************************)
(* Facts about numbers the proofs need: least elements, which stand in for *)
(* induction, quotients and remainders, and the sums of lists.             *)
(***************************************************************************)
EXTENDS Sums, TLAPS, WellFoundedInduction

LEMMA NoneLess ==
  ASSUME NEW S \in SUBSET Nat, \E n \in S : \A m \in S : ~(m < n)
  PROVE  \E n \in S : \A m \in S : n <= m
OBVIOUS

(* A set of numbers has a least one.                                       *)
LEMMA Least ==
  ASSUME NEW S \in SUBSET Nat, S # {}
  PROVE  \E n \in S : \A m \in S : n <= m
<1>1. \E n \in S : \A m \in S : ~ (<<m, n>> \in OpToRel(<, Nat))
  BY WFMin, NatLessThanWellFounded
<1>2. \A m, n \in Nat : <<m, n>> \in OpToRel(<, Nat) <=> m < n
  BY DEF OpToRel
<1>3. \E n \in S : \A m \in S : ~(m < n)
  BY <1>1, <1>2, Zenon
<1> QED
  BY <1>3, NoneLess, Zenon

(* Quotient and remainder are unique.                                      *)
LEMMA DivUnique ==
  ASSUME NEW n \in Nat, n > 0, NEW p \in Int, NEW q \in Int,
         NEW r \in 0..(n - 1), NEW s \in 0..(n - 1), n * p + r = n * q + s
  PROVE  p = q /\ r = s
<1>1. ASSUME NEW a \in Int, NEW b \in Int, a < b  PROVE n * b >= n * a + n
  <2>1. b - a - 1 \in Nat
    BY <1>1
  <2>2. n * (b - a - 1) >= 0
    BY <2>1
  <2> QED
    BY <2>2
<1>2. ~(p < q) /\ ~(q < p)
  BY <1>1
<1> QED
  BY <1>2

LEMMA ModFacts ==
  ASSUME NEW n \in Nat, n > 0, NEW a \in Nat
  PROVE  /\ a % n \in 0..(n - 1)
         /\ a \div n \in Nat
         /\ a = n * (a \div n) + (a % n)
OBVIOUS

(* Going d buckets on from the one a number hashes to.                     *)
LEMMA ModAdd ==
  ASSUME NEW n \in Nat, n > 0, NEW a \in Nat, NEW d \in 0..(n - 1)
  PROVE  (a + d) % n = IF (a % n) + d < n THEN (a % n) + d ELSE (a % n) + d - n
<1> DEFINE q == a \div n
           r == a % n
           p == (a + d) \div n
           s == (a + d) % n
<1>1. q \in Int /\ r \in 0..(n - 1) /\ a = n * q + r
  BY ModFacts
<1>2. p \in Int /\ s \in 0..(n - 1) /\ a + d = n * p + s
  BY ModFacts
<1> HIDE DEF q, r, p, s
<1>3. \A k \in Int, l \in 0..(n - 1) : n * p + s = n * k + l => s = l
  <2>1. p \in Int /\ s \in 0..(n - 1)
    BY <1>2
  <2>2. \A k \in Int, l \in 0..(n - 1) : n * p + s = n * k + l => p = k /\ s = l
    BY <2>1, DivUnique
  <2> QED
    BY <2>2
<1>4. CASE r + d < n
  <2>1. n * p + s = n * q + (r + d) /\ r + d \in 0..(n - 1)
    BY <1>1, <1>2, <1>4
  <2>2. s = r + d
    BY <1>1, <1>3, <2>1
  <2> QED
    BY <1>4, <2>2 DEF r, s
<1>5. CASE ~(r + d < n)
  <2>1. n * (q + 1) = n * q + n
    BY <1>1
  <2>2. n * p + s = n * (q + 1) + (r + d - n)
    BY <1>1, <1>2, <2>1
  <2>3. q + 1 \in Int /\ r + d - n \in 0..(n - 1)
    BY <1>1, <1>5
  <2>4. s = r + d - n
    BY <1>3, <2>2, <2>3
  <2> QED
    BY <1>5, <2>4 DEF r, s
<1> QED
  BY <1>4, <1>5

LEMMA DivMono ==
  ASSUME NEW n \in Nat \ {0}, NEW a \in Nat, NEW b \in Nat, a <= b
  PROVE  a \div n <= b \div n
<1> DEFINE p == a \div n
           q == b \div n
<1>1. p \in Nat /\ q \in Nat /\ n * p <= a /\ b < n * q + n
  <2>1. /\ a % n \in 0..(n - 1) /\ p \in Nat /\ a = n * p + (a % n)
        /\ b % n \in 0..(n - 1) /\ q \in Nat /\ b = n * q + (b % n)
    BY ModFacts
  <2>2. n * p \in Nat /\ n * q \in Nat
    BY <2>1
  <2> QED
    BY <2>1, <2>2
<1> HIDE DEF p, q
<1>2. ASSUME q < p  PROVE FALSE
  <2>1. p - q - 1 \in Nat
    BY <1>1, <1>2
  <2>2. n * (p - q - 1) >= 0 /\ n * (p - q - 1) = n * p - n * q - n
    BY <1>1, <2>1
  <2>3. n * p \in Nat /\ n * q \in Nat
    BY <1>1
  <2> QED
    BY <1>1, <2>2, <2>3
<1>3. p <= q
  BY <1>1, <1>2
<1> QED
  BY <1>3 DEF p, q

LEMMA ProductMono ==
  ASSUME NEW m \in Nat, NEW a \in Nat, NEW b \in Nat, a <= b
  PROVE  a * m <= b * m /\ a * m \in Nat /\ b * m \in Nat
<1>1. (b - a) * m >= 0
  OBVIOUS
<1>2. (b - a) * m = b * m - a * m
  OBVIOUS
<1> QED
  BY <1>1, <1>2

(* Between which numbers a quotient lies.                                  *)
LEMMA DivBounds ==
  ASSUME NEW n \in Nat, NEW d \in Nat, d > 0, NEW a \in Nat, NEW b \in Nat,
         a * d <= n, n < b * d
  PROVE  a <= n \div d /\ n \div d < b
<1> DEFINE q == n \div d
           r == n % d
<1>1. q \in Nat /\ r \in Nat /\ r < d /\ n = d * q + r
  BY ModFacts
<1> HIDE DEF q, r
<1>2. ASSUME q + 1 <= a  PROVE FALSE
  <2>1. (q + 1) * d <= a * d /\ (q + 1) * d = d * q + d
    BY <1>1, <1>2, ProductMono
  <2>2. d * q \in Nat /\ a * d \in Nat
    BY <1>1
  <2> HIDE DEF q
  <2> QED
    BY <1>1, <2>1, <2>2
<1>3. ASSUME b <= q  PROVE FALSE
  <2>1. b * d <= q * d /\ q * d = d * q
    BY <1>1, <1>3, ProductMono
  <2>2. d * q \in Nat /\ b * d \in Nat
    BY <1>1
  <2> QED
    BY <1>1, <2>1, <2>2
<1>4. a <= q /\ q < b
  BY <1>1, <1>2, <1>3
<1> QED
  BY <1>4 DEF q

-----------------------------------------------------------------------------
(* Sums.                                                                   *)

(* The recursive definition defines a function.                            *)
LEMMA PartialSumsExist ==
  ASSUME NEW s \in Seq(Int)
  PROVE  \A k \in 0..Len(s) : \E f :
           f = [n \in 0..k |-> IF n = 0 THEN 0 ELSE f[n - 1] + s[n]]
<1> DEFINE Sums(k, f) == f = [n \in 0..k |-> IF n = 0 THEN 0 ELSE f[n - 1] + s[n]]
           Without == {k \in 0..Len(s) : ~\E f : Sums(k, f)}
<1> SUFFICES ASSUME Without # {}  PROVE FALSE
  OBVIOUS
<1>1. PICK k \in Without : \A m \in Without : k <= m
  <2>1. Without \in SUBSET Nat
    OBVIOUS
  <2> HIDE DEF Without
  <2> QED
    BY <2>1, Least
<1>2. k \in 0..Len(s) /\ Len(s) \in Nat /\ ~\E f : Sums(k, f)
  OBVIOUS
<1>3. CASE k = 0
  <2> DEFINE f == [n \in 0..0 |-> 0]
  <2>1. f = [n \in 0..0 |-> IF n = 0 THEN 0 ELSE f[n - 1] + s[n]]
    OBVIOUS
  <2> QED
    BY <1>2, <1>3, <2>1
<1>4. CASE k # 0
  <2>1. k - 1 \in 0..Len(s) /\ ~(k <= k - 1)
    BY <1>2, <1>4
  <2>2. k - 1 \notin Without
    <3> HIDE DEF Without
    <3> QED
      BY <1>1, <2>1
  <2>3. \E f : Sums(k - 1, f)
    <3> HIDE DEF Sums
    <3> QED
      BY <2>1, <2>2
  <2>4. PICK f : Sums(k - 1, f)
    BY <2>3
  <2> DEFINE g == [n \in 0..k |-> IF n = k THEN f[k - 1] + s[k] ELSE f[n]]
  <2>5. \A n \in 0..(k - 1) : f[n] = IF n = 0 THEN 0 ELSE f[n - 1] + s[n]
    BY <1>2, <1>4, <2>4
  <2>6. ASSUME NEW n \in 0..k
        PROVE  g[n] = IF n = 0 THEN 0 ELSE g[n - 1] + s[n]
    BY <1>2, <1>4, <2>5
  <2>7. g = [n \in 0..k |-> IF n = 0 THEN 0 ELSE g[n - 1] + s[n]]
    <3>1. g = [n \in 0..k |-> g[n]]
      OBVIOUS
    <3> HIDE DEF g
    <3> QED
      BY <2>6, <3>1, Zenon
  <2> QED
    BY <1>2, <2>7
<1> QED
  BY <1>3, <1>4

LEMMA PartialSumsDef ==
  ASSUME NEW s \in Seq(Int)
  PROVE  /\ PartialSums(s)[0] = 0
         /\ \A n \in 1..Len(s) : PartialSums(s)[n] = PartialSums(s)[n - 1] + s[n]
<1> DEFINE P(f) == f = [n \in 0..Len(s) |-> IF n = 0 THEN 0 ELSE f[n - 1] + s[n]]
<1>1. Len(s) \in Nat
  OBVIOUS
<1>2. \E f : P(f)
  BY <1>1, PartialSumsExist
<1>3. PartialSums(s) = CHOOSE f : P(f)
  BY DEF PartialSums
<1> HIDE DEF P
<1>4. P(PartialSums(s))
  BY <1>2, <1>3
<1>5. \A n \in 0..Len(s) :
        PartialSums(s)[n] = IF n = 0 THEN 0 ELSE PartialSums(s)[n - 1] + s[n]
  <2> DEFINE f == PartialSums(s)
  <2>1. f = [n \in 0..Len(s) |-> IF n = 0 THEN 0 ELSE f[n - 1] + s[n]]
    BY <1>4 DEF P
  <2> HIDE DEF f
  <2>2. \A n \in 0..Len(s) : f[n] = IF n = 0 THEN 0 ELSE f[n - 1] + s[n]
    BY <2>1
  <2> QED
    BY <2>2 DEF f
<1> QED
  BY <1>1, <1>5

(* Facts shown for no amounts and for one more hold for all.               *)
LEMMA PartialSumsType ==
  ASSUME NEW s \in Seq(Int)
  PROVE  /\ \A n \in 0..Len(s) : PartialSums(s)[n] \in Int
         /\ s \in Seq(Nat) => \A n \in 0..Len(s) : PartialSums(s)[n] \in Nat
<1> DEFINE f == PartialSums(s)
<1>1. /\ f[0] = 0
      /\ \A n \in 1..Len(s) : f[n] = f[n - 1] + s[n]
  BY PartialSumsDef
<1> HIDE DEF f
<1>2. ASSUME NEW S, S = Int \/ (S = Nat /\ s \in Seq(Nat))
      PROVE  \A n \in 0..Len(s) : f[n] \in S
  <2> DEFINE Bad == {n \in 0..Len(s) : f[n] \notin S}
  <2> SUFFICES ASSUME Bad # {}  PROVE FALSE
    OBVIOUS
  <2>1. PICK n \in Bad : \A m \in Bad : n <= m
    <3>1. Bad \in SUBSET Nat
      OBVIOUS
    <3> HIDE DEF Bad
    <3> QED
      BY <3>1, Least
  <2>2. n \in 1..Len(s) /\ f[n] \notin S
    BY <1>1, <1>2, <2>1
  <2>3. f[n - 1] \in S
    BY <2>1, <2>2
  <2>4. f[n] = f[n - 1] + s[n] /\ s[n] \in S
    BY <1>1, <1>2, <2>2
  <2>5. CASE S = Int
    BY <2>2, <2>3, <2>4, <2>5
  <2>6. CASE S = Nat
    BY <2>2, <2>3, <2>4, <2>6
  <2> QED
    BY <1>2, <2>5, <2>6
<1> QED
  BY <1>2 DEF f

(* Sums of two lists that begin alike.                                     *)
LEMMA PartialSumsAgree ==
  ASSUME NEW s \in Seq(Int), NEW t \in Seq(Int), NEW k \in 0..Len(s), k <= Len(t),
         \A n \in 1..k : s[n] = t[n]
  PROVE  \A n \in 0..k : PartialSums(s)[n] = PartialSums(t)[n]
<1> DEFINE f == PartialSums(s)
           g == PartialSums(t)
<1>1. /\ f[0] = 0 /\ g[0] = 0
      /\ \A n \in 1..k : f[n] = f[n - 1] + s[n]
      /\ \A n \in 1..k : g[n] = g[n - 1] + t[n]
  BY PartialSumsDef
<1> HIDE DEF f, g
<1>2. \A n \in 0..k : f[n] = g[n]
  <2> DEFINE Bad == {n \in 0..k : f[n] # g[n]}
  <2> SUFFICES ASSUME Bad # {}  PROVE FALSE
    OBVIOUS
  <2>1. PICK n \in Bad : \A m \in Bad : n <= m
    <3>1. Bad \in SUBSET Nat
      OBVIOUS
    <3> HIDE DEF Bad
    <3> QED
      BY <3>1, Least
  <2>2. n \in 1..k /\ f[n] # g[n]
    BY <1>1, <2>1
  <2>3. f[n - 1] = g[n - 1]
    BY <2>1, <2>2
  <2> QED
    BY <1>1, <2>2, <2>3
<1> QED
  BY <1>2 DEF f, g

LEMMA TotalType ==
  ASSUME NEW s \in Seq(Int)
  PROVE  /\ Total(s) \in Int
         /\ s \in Seq(Nat) => Total(s) \in Nat
         /\ s = <<>> => Total(s) = 0
BY PartialSumsType, PartialSumsDef DEF Total

LEMMA TotalAppend ==
  ASSUME NEW s \in Seq(Int), NEW n \in Int
  PROVE  Total(Append(s, n)) = Total(s) + n
<1> DEFINE r == Append(s, n)
<1>1. r \in Seq(Int) /\ Len(r) = Len(s) + 1 /\ r[Len(s) + 1] = n
      /\ Len(s) \in Nat /\ \A i \in 1..Len(s) : r[i] = s[i]
  OBVIOUS
<1> HIDE DEF r
<1>2. PartialSums(r)[Len(s)] = PartialSums(s)[Len(s)]
  <2>1. Len(s) \in 0..Len(s) /\ Len(s) <= Len(r)
    BY <1>1
  <2>2. \A k \in 0..Len(s) : PartialSums(s)[k] = PartialSums(r)[k]
    BY <1>1, <2>1, PartialSumsAgree
  <2> QED
    BY <2>1, <2>2
<1>3. PartialSums(r)[Len(s) + 1] = PartialSums(r)[Len(s)] + n
  BY <1>1, PartialSumsDef
<1> QED
  BY <1>1, <1>2, <1>3 DEF Total, r

-----------------------------------------------------------------------------
(* Induction, on the members of a set, and functions that are defined by   *)
(* recursion: from an element base of X[0], with a step from each X[i - 1] *)
(* to X[i].                                                                *)
LEMMA AllUpTo ==
  ASSUME NEW n \in Nat, NEW S, 0 \in S, \A i \in 1..n : i - 1 \in S => i \in S
  PROVE  \A i \in 0..n : i \in S
<1> DEFINE Without == {i \in 0..n : i \notin S}
<1> SUFFICES ASSUME Without # {}  PROVE FALSE
  OBVIOUS
<1>1. PICK k \in Without : \A m \in Without : k <= m
  <2>1. Without \in SUBSET Nat
    OBVIOUS
  <2> HIDE DEF Without
  <2> QED
    BY <2>1, Least
<1>2. k \in 1..n /\ k - 1 \in 0..n /\ ~(k <= k - 1)
  OBVIOUS
<1>3. k - 1 \in S
  BY <1>1, <1>2
<1> QED
  BY <1>2, <1>3

Goes(n, X, step) == \A i \in 1..n : \A g \in X[i - 1] : step[i][g] \in X[i]
Recursive(f, n, U, X, base, step) ==
  /\ f \in [0..n -> U]
  /\ f[0] = base /\ \A i \in 1..n : f[i] = step[i][f[i - 1]]
  /\ \A i \in 0..n : f[i] \in X[i]

LEMMA RecursionTo ==
  ASSUME NEW n \in Nat, NEW U, NEW X \in [0..n -> SUBSET U], NEW base \in X[0], NEW step,
         Goes(n, X, step)
  PROVE  \E f : Recursive(f, n, U, X, base, step)
<1> DEFINE S == {k \in 0..n : \E f : Recursive(f, k, U, X, base, step)}
<1>1. 0 \in S
  <2> DEFINE f == [i \in 0..0 |-> base]
  <2>1. f \in [0..0 -> U] /\ f[0] = base /\ \A i \in 1..0 : f[i] = step[i][f[i - 1]]
    OBVIOUS
  <2>2. \A i \in 0..0 : f[i] \in X[i]
    OBVIOUS
  <2> HIDE DEF f
  <2>3. Recursive(f, 0, U, X, base, step)
    BY <2>1, <2>2 DEF Recursive
  <2> QED
    BY <2>3
<1>2. ASSUME NEW k \in 1..n, k - 1 \in S  PROVE k \in S
  <2>1. PICK f : Recursive(f, k - 1, U, X, base, step)
    BY <1>2
  <2> DEFINE g == [i \in 0..k |-> IF i = k THEN step[k][f[k - 1]] ELSE f[i]]
  <2>2. \A i \in 0..(k - 1) : f[i] = (IF i = 0 THEN base ELSE step[i][f[i - 1]]) /\ f[i] \in X[i]
    <3> TAKE i \in 0..(k - 1)
    <3>1. i = 0 \/ i \in 1..(k - 1)
      OBVIOUS
    <3> QED
      BY <2>1, <3>1 DEF Recursive
  <2>3. k - 1 \in 0..(k - 1)
    OBVIOUS
  <2>4. f[k - 1] \in X[k - 1] /\ step[k][f[k - 1]] \in X[k]
    BY <2>2, <2>3 DEF Goes
  <2>5. ASSUME NEW i \in 0..k
        PROVE  g[i] = (IF i = 0 THEN base ELSE step[i][g[i - 1]]) /\ g[i] \in X[i] /\ g[i] \in U
    <3>1. CASE i = k
      <4>1. g[i] = step[k][f[k - 1]] /\ g[i - 1] = f[k - 1] /\ i # 0
        BY <3>1
      <4> QED
        BY <2>4, <3>1, <4>1
    <3>2. CASE i # k
      <4>1. i \in 0..(k - 1) /\ g[i] = f[i] /\ (i # 0 => g[i - 1] = f[i - 1])
        BY <3>2
      <4> QED
        BY <2>2, <4>1
    <3> QED
      BY <3>1, <3>2
  <2>6. g \in [0..k -> U]
    <3>1. \A i \in 0..k : g[i] \in U
      BY <2>5
    <3>2. g = [i \in 0..k |-> g[i]]
      OBVIOUS
    <3> HIDE DEF g
    <3> QED
      BY <3>1, <3>2
  <2> HIDE DEF g
  <2>7. Recursive(g, k, U, X, base, step)
    <3>1. g[0] = base /\ \A i \in 1..k : g[i] = step[i][g[i - 1]]
      BY <2>5
    <3> QED
      BY <2>5, <2>6, <3>1 DEF Recursive
  <2> QED
    BY <2>7
<1>3. n \in S
  <2> HIDE DEF S
  <2>1. \A i \in 0..n : i \in S
    BY <1>1, <1>2, AllUpTo
  <2> QED
    BY <2>1
<1> QED
  BY <1>3

(* The case in which every value is in one set.                            *)
Iterated(f, n, T, base, step) ==
  /\ f \in [0..n -> T]
  /\ f[0] = base /\ \A i \in 1..n : f[i] = step[i][f[i - 1]]

LEMMA Iterates ==
  ASSUME NEW n \in Nat, NEW T, NEW base \in T, NEW F \in [1..n -> [T -> T]]
  PROVE  \E f : Iterated(f, n, T, base, F)
<1> DEFINE X == [k \in 0..n |-> T]
<1>1. X \in [0..n -> SUBSET T] /\ base \in X[0]
  OBVIOUS
<1>2. Goes(n, X, F)
  <2> SUFFICES ASSUME NEW i \in 1..n, NEW g \in X[i - 1]  PROVE F[i][g] \in X[i]
    BY DEF Goes
  <2>1. i - 1 \in 0..n /\ i \in 0..n
    OBVIOUS
  <2> QED
    BY <2>1
<1> HIDE DEF X
<1>3. PICK h : Recursive(h, n, T, X, base, F)
  BY <1>1, <1>2, RecursionTo
<1> QED
  BY <1>3 DEF Recursive, Iterated

(* The same from n down to 0.                                              *)
GoesDown(n, X, step) == \A i \in 0..(n - 1) : \A g \in X[i + 1] : step[i][g] \in X[i]
RecursiveDown(f, n, U, X, base, step) ==
  /\ f \in [0..n -> U]
  /\ f[n] = base /\ \A i \in 0..(n - 1) : f[i] = step[i][f[i + 1]]
  /\ \A i \in 0..n : f[i] \in X[i]

LEMMA RecursionDown ==
  ASSUME NEW n \in Nat, NEW U, NEW X \in [0..n -> SUBSET U], NEW base \in X[n], NEW step,
         GoesDown(n, X, step)
  PROVE  \E f : RecursiveDown(f, n, U, X, base, step)
<1> DEFINE Y == [i \in 0..n |-> X[n - i]]
           down == [i \in 0..n |-> step[n - i]]
<1>1. base \in Y[0]
  BY n - 0 = n
<1>2. Goes(n, Y, down)
  <2> SUFFICES ASSUME NEW i \in 1..n, NEW g \in Y[i - 1]  PROVE down[i][g] \in Y[i]
    BY DEF Goes
  <2>1. n - i \in 0..(n - 1) /\ Y[i - 1] = X[(n - i) + 1] /\ Y[i] = X[n - i] /\ down[i] = step[n - i]
    <3>1. n - (i - 1) = (n - i) + 1
      OBVIOUS
    <3> QED
      BY <3>1
  <2> HIDE DEF Y, down
  <2> QED
    BY <2>1 DEF GoesDown
<1>3. PICK f : Recursive(f, n, U, Y, base, down)
  <2>1. Y \in [0..n -> SUBSET U]
    OBVIOUS
  <2> HIDE DEF Y, down
  <2> QED
    BY <1>1, <1>2, <2>1, RecursionTo
<1> DEFINE h == [i \in 0..n |-> f[n - i]]
<1>4. ASSUME NEW i \in 0..n
      PROVE  h[i] = (IF i = n THEN base ELSE step[i][h[i + 1]]) /\ h[i] \in X[i]
  <2>1. n - i \in 0..n /\ n - (n - i) = i /\ (n - i = 0 <=> i = n)
    OBVIOUS
  <2>2. f[n - i] = (IF n - i = 0 THEN base ELSE down[n - i][f[(n - i) - 1]]) /\ f[n - i] \in Y[n - i]
    <3> HIDE DEF Y, down
    <3>1. \A j \in 0..n : f[j] = (IF j = 0 THEN base ELSE down[j][f[j - 1]]) /\ f[j] \in Y[j]
      <4> TAKE j \in 0..n
      <4>1. j = 0 \/ j \in 1..n
        OBVIOUS
      <4> QED
        BY <1>3, <4>1 DEF Recursive
    <3> QED
      BY <2>1, <3>1
  <2>3. down[n - i] = step[i] /\ Y[n - i] = X[i]
    BY <2>1
  <2>4. i # n => i + 1 \in 0..n /\ (n - i) - 1 = n - (i + 1)
    OBVIOUS
  <2>5. i # n => f[(n - i) - 1] = h[i + 1]
    BY <2>4
  <2>6. h[i] = f[n - i]
    OBVIOUS
  <2> HIDE DEF h, Y, down
  <2> QED
    BY <2>1, <2>2, <2>3, <2>5, <2>6
<1>5. h \in [0..n -> U]
  <2>1. \A i \in 0..n : h[i] \in U
    BY <1>4
  <2>2. h = [i \in 0..n |-> h[i]]
    OBVIOUS
  <2> HIDE DEF h
  <2> QED
    BY <2>1, <2>2
<1> HIDE DEF h
<1>6. h[n] = base /\ \A i \in 0..(n - 1) : h[i] = step[i][h[i + 1]]
  BY <1>4
<1>7. RecursiveDown(h, n, U, X, base, step)
  BY <1>4, <1>5, <1>6 DEF RecursiveDown
<1> QED
  BY <1>7
=============================================================================
