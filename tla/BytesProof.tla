----------------------------- MODULE BytesProof -----------------------------
(***************************************************************************)
(* What the integers and lengths of the formats are good for: reading them *)
(* gives what was written, wherever they stand in a buffer.                *)
(***************************************************************************)
EXTENDS Bytes, Numbers, FiniteSetTheorems

-----------------------------------------------------------------------------
(* Powers of two.  The library knows them as the numbers of subsets.       *)

LEMMA PowerOfCardinality ==
  ASSUME NEW n \in Nat
  PROVE  /\ IsFiniteSet(SUBSET (1..n))
         /\ Cardinality(SUBSET (1..n)) = 2^n
         /\ 2^n \in Nat
<1>1. IsFiniteSet(1..n) /\ Cardinality(1..n) = n
  BY FS_Interval
<1>2. IsFiniteSet(SUBSET (1..n)) /\ Cardinality(SUBSET (1..n)) = 2^Cardinality(1..n)
  BY <1>1, FS_SUBSET
<1>3. Cardinality(SUBSET (1..n)) \in Nat
  BY <1>2, FS_CardinalityType
<1> QED
  BY <1>1, <1>2, <1>3

LEMMA PowerZero == 2^0 = 1
<1>1. SUBSET (1..0) = {{}}
  OBVIOUS
<1>2. Cardinality({{}}) = 1
  BY FS_Singleton
<1> QED
  BY <1>1, <1>2, PowerOfCardinality

(* The subsets of 1..(n + 1) are those of 1..n, without and with n + 1.    *)
LEMMA PowerNext ==
  ASSUME NEW n \in Nat
  PROVE  2^(n + 1) = 2 * 2^n
<1> DEFINE A == SUBSET (1..n)
           B == {S \cup {n + 1} : S \in A}
           f == [S \in A |-> S \cup {n + 1}]
<1>1. /\ IsFiniteSet(A) /\ Cardinality(A) = 2^n /\ 2^n \in Nat
      /\ Cardinality(SUBSET (1..(n + 1))) = 2^(n + 1)
  BY PowerOfCardinality
<1>2. SUBSET (1..(n + 1)) = A \cup B
  <2>1. ASSUME NEW S \in SUBSET (1..(n + 1)), n + 1 \notin S  PROVE S \in A
    BY <2>1
  <2>2. ASSUME NEW S \in SUBSET (1..(n + 1)), n + 1 \in S  PROVE S \in B
    <3>1. S \ {n + 1} \in A
      BY <2>2
    <3>2. S = (S \ {n + 1}) \cup {n + 1}
      BY <2>2
    <3> QED
      BY <3>1, <3>2
  <2>3. A \cup B \subseteq SUBSET (1..(n + 1))
    <3>1. 1..n \subseteq 1..(n + 1) /\ n + 1 \in 1..(n + 1)
      OBVIOUS
    <3> QED
      BY <3>1
  <2> QED
    BY <2>1, <2>2, <2>3
<1>3. A \cap B = {}
  OBVIOUS
<1>4. IsFiniteSet(B) /\ Cardinality(B) = Cardinality(A)
  <2>1. f \in [A -> B]
    OBVIOUS
  <2>2. \A S, T \in A : f[S] = f[T] => S = T
    <3> SUFFICES ASSUME NEW S \in A, NEW T \in A, S \cup {n + 1} = T \cup {n + 1}
                 PROVE  S = T
      OBVIOUS
    <3>1. n + 1 \notin S /\ n + 1 \notin T
      OBVIOUS
    <3> QED
      BY <3>1
  <2>3. \A U \in B : \E S \in A : f[S] = U
    OBVIOUS
  <2>4. f \in Bijection(A, B)
    <3> HIDE DEF f, A, B
    <3> QED
      BY <2>1, <2>2, <2>3 DEF Bijection, Injection, Surjection, IsInjective
  <2> QED
    BY <1>1, <2>4, FS_Bijection DEF ExistsBijection
<1> HIDE DEF A, B
<1>5. Cardinality(A \cup B) = Cardinality(A) + Cardinality(B) - Cardinality(A \cap B)
  BY <1>1, <1>4, FS_Union
<1>6. Cardinality(A \cap B) = 0
  BY <1>3, FS_EmptySet
<1> DEFINE p == 2^n
           q == 2^(n + 1)
<1>7. p \in Nat /\ q = p + p - 0
  BY <1>1, <1>2, <1>4, <1>5, <1>6
<1> HIDE DEF p, q
<1>8. q = 2 * p
  BY <1>7
<1> QED
  BY <1>8 DEF p, q

(* The provers know nothing of powers: what follows is said of an operator *)
(* they need not look into.                                                *)
Power(n) == 2^n

LEMMA PowerStep ==
  /\ Power(0) = 1
  /\ \A n \in Nat : Power(n) \in Nat /\ Power(n + 1) = 2 * Power(n)
BY PowerZero, PowerNext, PowerOfCardinality DEF Power

LEMMA PowerLarge ==
  ASSUME NEW n \in Nat
  PROVE  Power(n) \in Nat /\ Power(n) > n
<1> DEFINE Bad == {m \in Nat : ~(Power(m) > m)}
<1> SUFFICES ASSUME Bad # {}  PROVE FALSE
  BY PowerStep
<1>1. PICK m \in Bad : \A k \in Bad : m <= k
  <2>1. Bad \in SUBSET Nat
    OBVIOUS
  <2> HIDE DEF Bad
  <2> QED
    BY <2>1, Least
<1>2. m \in Nat /\ m # 0
  BY PowerStep
<1>3. m - 1 \in Nat /\ m - 1 \notin Bad
  BY <1>1, <1>2
<1>4. Power(m - 1) \in Nat /\ Power(m - 1) > m - 1
  BY <1>3, PowerStep
<1>5. Power((m - 1) + 1) = 2 * Power(m - 1)
  BY <1>3, PowerStep
<1>6. (m - 1) + 1 = m
  BY <1>2
<1>7. Power(m) = 2 * Power(m - 1)
  BY <1>5, <1>6
<1> QED
  BY <1>2, <1>4, <1>7

LEMMA PowerAdd ==
  ASSUME NEW m \in Nat, NEW n \in Nat
  PROVE  Power(m + n) = Power(m) * Power(n)
<1> DEFINE Bad == {k \in Nat : Power(m + k) # Power(m) * Power(k)}
<1> SUFFICES ASSUME Bad # {}  PROVE FALSE
  OBVIOUS
<1>1. PICK k \in Bad : \A j \in Bad : k <= j
  <2>1. Bad \in SUBSET Nat
    OBVIOUS
  <2> HIDE DEF Bad
  <2> QED
    BY <2>1, Least
<1>2. k \in Nat /\ k # 0
  BY PowerStep
<1>3. k - 1 \in Nat /\ Power(m + (k - 1)) = Power(m) * Power(k - 1)
  BY <1>1, <1>2
<1>4. Power((k - 1) + 1) = 2 * Power(k - 1)
  BY <1>3, PowerStep
<1>5. Power((m + (k - 1)) + 1) = 2 * Power(m + (k - 1))
  <2>1. m + (k - 1) \in Nat
    BY <1>3
  <2> QED
    BY <2>1, PowerStep
<1>6. (k - 1) + 1 = k /\ (m + (k - 1)) + 1 = m + k
  BY <1>2
<1>7. Power(k) = 2 * Power(k - 1) /\ Power(m + k) = 2 * (Power(m) * Power(k - 1))
  BY <1>3, <1>4, <1>5, <1>6
<1>8. Power(m) \in Nat /\ Power(k - 1) \in Nat
  BY <1>3, PowerStep
<1>9. Power(m + k) = Power(m) * Power(k)
  BY <1>7, <1>8
<1> QED
  BY <1>1, <1>9

LEMMA PowerMonotone ==
  ASSUME NEW m \in Nat, NEW n \in Nat, m < n
  PROVE  2 * Power(m) <= Power(n)
<1>1. n - m - 1 \in Nat /\ (m + 1) + (n - m - 1) = n
  OBVIOUS
<1>2. Power((m + 1) + (n - m - 1)) = Power(m + 1) * Power(n - m - 1)
  BY <1>1, PowerAdd
<1>3. Power(m + 1) = 2 * Power(m) /\ Power(m) \in Nat
  BY PowerStep
<1>4. Power(n - m - 1) \in Nat /\ Power(n - m - 1) >= 1
  BY <1>1, PowerLarge
<1> DEFINE p == Power(m)
           q == Power(n - m - 1)
<1>5. Power(n) = (2 * p) * q
  BY <1>1, <1>2, <1>3
<1> HIDE DEF p, q
<1>6. p \in Nat /\ q \in Nat /\ q >= 1
  BY <1>3, <1>4 DEF p, q
<1>7. (2 * p) * q >= 2 * p
  BY <1>6
<1> QED
  BY <1>5, <1>7 DEF p

-----------------------------------------------------------------------------
(* Bytes.                                                                  *)

LEMMA BitsFacts ==
  /\ BITS \in Nat /\ BITS >= 2 /\ Power(BITS) = BYTE
  /\ BYTE \in Nat /\ BYTE > 3
<1>1. \E n \in 1..BYTE : 2^n = BYTE
  BY WidthAssumption
<1>2. BITS \in 1..BYTE /\ 2^BITS = BYTE
  BY <1>1 DEF BITS
<1>3. BYTE \in Nat /\ BYTE > 3
  BY WidthAssumption
<1>4. BITS \in Nat /\ BITS >= 1 /\ Power(BITS) = BYTE
  BY <1>2, <1>3 DEF Power
<1>5. BITS # 1
  <2>1. Power(0 + 1) = 2 * Power(0)
    BY PowerStep
  <2>2. Power(1) = 2
    BY <2>1, PowerStep
  <2> QED
    BY <1>3, <1>4, <2>2
<1> QED
  BY <1>3, <1>4, <1>5

LEMMA SpanStep ==
  /\ Span(0) = 1
  /\ Span(1) = BYTE
  /\ \A k \in Nat : /\ Span(k) \in Nat /\ Span(k) > 0
                    /\ Span(k + 1) = BYTE * Span(k)
<1>1. \A k \in Nat : BITS * k \in Nat /\ Span(k) = Power(BITS * k)
  BY BitsFacts DEF Span, Power
<1>2. BITS * 0 = 0 /\ BITS * 1 = BITS
  BY BitsFacts
<1>3. ASSUME NEW k \in Nat
      PROVE  /\ Span(k) \in Nat /\ Span(k) > 0
             /\ Span(k + 1) = BYTE * Span(k)
  <2>1. BITS * k \in Nat /\ BITS * (k + 1) = BITS * k + BITS
    BY BitsFacts
  <2>2. Power(BITS * k + BITS) = Power(BITS * k) * Power(BITS)
    BY <2>1, BitsFacts, PowerAdd
  <2>3. Power(BITS * k) \in Nat /\ Power(BITS * k) > 0
    BY <2>1, PowerLarge
  <2> QED
    BY <1>1, <2>1, <2>2, <2>3, BitsFacts
<1> QED
  BY <1>1, <1>2, <1>3, BitsFacts, PowerStep

LEMMA SpanMonotone ==
  ASSUME NEW j \in Nat, NEW k \in Nat, j < k
  PROVE  2 * Span(j) <= Span(k)
<1>1. BITS * j \in Nat /\ BITS * k \in Nat /\ Span(j) = Power(BITS * j) /\ Span(k) = Power(BITS * k)
  BY BitsFacts DEF Span, Power
<1>2. BITS * j < BITS * k
  BY BitsFacts
<1> QED
  BY <1>1, <1>2, PowerMonotone

(* Dividing twice, and remainders by products.                             *)
LEMMA DivDiv ==
  ASSUME NEW u \in Nat, NEW n \in Nat, n > 0, NEW m \in Nat, m > 0
  PROVE  /\ u \div (n * m) = (u \div n) \div m
         /\ u % (n * m) = (u % n) + n * ((u \div n) % m)
<1> DEFINE q == u \div n
           r == u % n
           a == q \div m
           b == q % m
           nm == n * m
<1>1. r \in 0..(n - 1) /\ q \in Nat /\ u = n * q + r
  BY ModFacts
<1>2. b \in 0..(m - 1) /\ a \in Nat /\ q = m * a + b
  <2> HIDE DEF q
  <2> QED
    BY <1>1, ModFacts
<1>3. nm \in Nat /\ nm > 0
  OBVIOUS
<1>4. u % nm \in 0..(nm - 1) /\ u \div nm \in Nat /\ u = nm * (u \div nm) + (u % nm)
  <2> HIDE DEF nm
  <2> QED
    BY <1>3, ModFacts
<1> HIDE DEF q, r, a, b
<1>5. u = nm * a + (n * b + r)
  <2>1. n * q = n * (m * a) + n * b
    BY <1>1, <1>2
  <2>2. n * (m * a) = nm * a
    BY <1>2
  <2> QED
    BY <1>1, <1>2, <2>1, <2>2
<1>6. n * b + r \in 0..(nm - 1)
  <2>1. n * b <= n * (m - 1)
    BY <1>2
  <2>2. n * (m - 1) = nm - n
    OBVIOUS
  <2>3. n * b \in Nat
    BY <1>2
  <2> HIDE DEF nm
  <2> QED
    BY <1>1, <1>3, <2>1, <2>2, <2>3
<1>7. u \div nm = a /\ u % nm = n * b + r
  <2> DEFINE d == u \div nm
             e == u % nm
             f == n * b + r
  <2>1. d \in Int /\ a \in Int /\ e \in 0..(nm - 1) /\ f \in 0..(nm - 1) /\ nm * d + e = nm * a + f
    BY <1>2, <1>4, <1>5, <1>6
  <2> HIDE DEF d, e, f, nm
  <2>2. d = a /\ e = f
    BY <1>3, <2>1, DivUnique
  <2> QED
    BY <2>2 DEF d, e, f
<1> QED
  BY <1>1, <1>2, <1>7 DEF q, r, a, b

LEMMA SmallMod ==
  ASSUME NEW u \in Nat, NEW n \in Nat, u < n
  PROVE  u % n = u /\ u \div n = 0
<1> DEFINE q == u \div n
           r == u % n
<1>1. r \in 0..(n - 1) /\ q \in Nat /\ u = n * q + r
  BY ModFacts
<1>2. u \in 0..(n - 1) /\ n * 0 + u = u /\ 0 \in Int /\ n > 0
  OBVIOUS
<1> HIDE DEF q, r
<1>3. n * q + r = n * 0 + u /\ q \in Int
  BY <1>1
<1>4. q = 0 /\ r = u
  BY <1>1, <1>2, <1>3, DivUnique
<1> QED
  BY <1>4 DEF q, r

LEMMA SeqWiden ==
  ASSUME NEW S, NEW T, S \subseteq T, NEW s \in Seq(S)
  PROVE  s \in Seq(T)
<1> DEFINE n == Len(s)
<1>1. n \in Nat /\ s \in [1..n -> S]
  OBVIOUS
<1> HIDE DEF n
<1>2. s \in [1..n -> T]
  BY <1>1
<1> QED
  BY <1>1, <1>2

LEMMA ByteSeq ==
  ASSUME NEW s \in Seq(Byte)
  PROVE  s \in Seq(Nat)
<1>1. Byte \subseteq Nat
  BY BitsFacts DEF Byte
<1> QED
  BY <1>1, SeqWiden

(* The digits of a number.                                                 *)
LEMMA LEDigits ==
  ASSUME NEW u \in Nat, NEW w \in Nat
  PROVE  /\ LE(u, w) \in Seq(Byte) /\ Len(LE(u, w)) = w
         /\ LE(u, w + 1) = Append(LE(u, w), (u \div Span(w)) % BYTE)
<1>1. ASSUME NEW n \in Nat
      PROVE  /\ LE(u, n) \in Seq(Byte) /\ Len(LE(u, n)) = n
             /\ \A k \in 1..n : LE(u, n)[k] = (u \div Span(k - 1)) % BYTE
  <2>1. \A k \in 1..n : (u \div Span(k - 1)) % BYTE \in Byte
    <3> TAKE k \in 1..n
    <3>1. Span(k - 1) \in Nat /\ Span(k - 1) > 0
      BY SpanStep
    <3>2. u \div Span(k - 1) \in Nat
      BY <3>1, ModFacts
    <3> DEFINE v == u \div Span(k - 1)
    <3> HIDE DEF v
    <3>3. v \in Nat => v % BYTE \in 0..(BYTE - 1)
      BY BitsFacts, ModFacts
    <3> QED
      BY <3>2, <3>3 DEF Byte, v
  <2> DEFINE s == LE(u, n)
  <2>2. s = [k \in 1..n |-> (u \div Span(k - 1)) % BYTE]
    BY DEF LE
  <2>3. s \in [1..n -> Byte]
    BY <2>1, <2>2
  <2>4. \A k \in 1..n : s[k] = (u \div Span(k - 1)) % BYTE
    BY <2>2
  <2> HIDE DEF s
  <2>5. s \in Seq(Byte) /\ Len(s) = n
    BY <2>3
  <2> QED
    BY <2>4, <2>5 DEF s
<1> DEFINE s == LE(u, w)
           t == LE(u, w + 1)
<1>2. /\ s \in Seq(Byte) /\ Len(s) = w /\ t \in Seq(Byte) /\ Len(t) = w + 1
      /\ \A k \in 1..w : s[k] = t[k]
      /\ t[w + 1] = (u \div Span(w)) % BYTE
  <2>1. w + 1 \in Nat /\ (w + 1) - 1 = w
    OBVIOUS
  <2>2. \A k \in 1..w : k \in 1..(w + 1)
    OBVIOUS
  <2>3. w + 1 \in 1..(w + 1)
    OBVIOUS
  <2> QED
    BY <1>1, <2>1, <2>2, <2>3
<1> DEFINE d == (u \div Span(w)) % BYTE
<1> HIDE DEF s, t, d
<1>3. t[w + 1] = d
  BY <1>2 DEF d
<1>4. t = Append(s, d)
  <2>1. d \in Byte
    BY <1>2, <1>3
  <2>2. Append(s, d) \in Seq(Byte) /\ Len(Append(s, d)) = w + 1
    BY <1>2, <2>1
  <2>3. \A k \in 1..(w + 1) : Append(s, d)[k] = t[k]
    BY <1>2, <1>3, <2>1
  <2> QED
    BY <1>2, <2>2, <2>3
<1> QED
  BY <1>2, <1>4 DEF s, t, d

(* A number of one more digit.                                             *)
LEMMA ValueAppend ==
  ASSUME NEW s \in Seq(Nat), NEW b \in Nat
  PROVE  /\ ValueLE(s) \in Nat
         /\ ValueLE(<<>>) = 0
         /\ ValueLE(Append(s, b)) = ValueLE(s) + b * Span(Len(s))
<1> DEFINE W(r) == [k \in DOMAIN r |-> r[k] * Span(k - 1)]
<1>1. ASSUME NEW r \in Seq(Nat)
      PROVE  /\ W(r) \in Seq(Nat) /\ W(r) \in Seq(Int) /\ Len(W(r)) = Len(r)
             /\ \A k \in 1..Len(r) : W(r)[k] = r[k] * Span(k - 1)
  <2> DEFINE n == Len(r)
             x == W(r)
  <2>1. n \in Nat /\ DOMAIN r = 1..n
    OBVIOUS
  <2>2. \A k \in 1..n : r[k] * Span(k - 1) \in Nat
    <3> TAKE k \in 1..n
    <3>1. r[k] \in Nat
      OBVIOUS
    <3>2. k - 1 \in Nat
      BY <2>1
    <3>3. Span(k - 1) \in Nat
      BY <3>2, SpanStep
    <3> QED
      BY <3>1, <3>3
  <2>3. x = [k \in 1..n |-> r[k] * Span(k - 1)]
    BY <2>1
  <2> HIDE DEF n, x
  <2>4. x \in [1..n -> Nat] /\ \A k \in 1..n : x[k] = r[k] * Span(k - 1)
    BY <2>2, <2>3
  <2>5. x \in Seq(Nat) /\ x \in Seq(Int) /\ Len(x) = n
    BY <2>1, <2>4, SMTT(30)
  <2> QED
    BY <2>4, <2>5 DEF x, n
<1>2. \A r : ValueLE(r) = Total(W(r))
  BY DEF ValueLE
<1> DEFINE t == Append(s, b)
           e == b * Span(Len(s))
<1>3. t \in Seq(Nat) /\ Len(t) = Len(s) + 1 /\ Len(s) \in Nat
      /\ t[Len(s) + 1] = b /\ \A k \in 1..Len(s) : t[k] = s[k]
  OBVIOUS
<1>4. e \in Nat
  <2>1. Span(Len(s)) \in Nat
    BY <1>3, SpanStep
  <2> QED
    BY <2>1
<1>5. /\ W(s) \in Seq(Nat) /\ W(s) \in Seq(Int) /\ Len(W(s)) = Len(s)
      /\ \A k \in 1..Len(s) : W(s)[k] = s[k] * Span(k - 1)
  BY <1>1
<1>6. /\ W(t) \in Seq(Nat) /\ Len(W(t)) = Len(s) + 1
      /\ \A k \in 1..Len(t) : W(t)[k] = t[k] * Span(k - 1)
  <2> HIDE DEF t
  <2> QED
    BY <1>1, <1>3
<1> HIDE DEF t, e
<1>7. W(t) = Append(W(s), e)
  <2> DEFINE x == W(s)
             y == W(t)
             n == Len(s)
  <2>1. /\ x \in Seq(Nat) /\ Len(x) = n /\ n \in Nat
        /\ y \in Seq(Nat) /\ Len(y) = n + 1
        /\ \A k \in 1..n : x[k] = y[k]
    BY <1>3, <1>5, <1>6
  <2>2. y[n + 1] = e
    <3>1. n + 1 \in 1..Len(t) /\ (n + 1) - 1 = n
      BY <1>3
    <3> QED
      BY <1>3, <1>6, <3>1 DEF e
  <2> HIDE DEF x, y, n
  <2>3. y = Append(x, e)
    BY <1>4, <2>1, <2>2
  <2> QED
    BY <2>3 DEF x, y
<1>8. Total(Append(W(s), e)) = Total(W(s)) + e
  <2> DEFINE x == W(s)
  <2>1. x \in Seq(Int) /\ e \in Int
    BY <1>4, <1>5
  <2> HIDE DEF x
  <2> QED
    BY <2>1, TotalAppend DEF x
<1>9. Total(W(s)) \in Nat
  <2> DEFINE x == W(s)
  <2>1. x \in Seq(Int) /\ x \in Seq(Nat)
    BY <1>5
  <2> HIDE DEF x
  <2> QED
    BY <2>1, TotalType DEF x
<1>10. Total(W(<<>>)) = 0
  <2>1. W(<<>>) = <<>>
    OBVIOUS
  <2>2. <<>> \in Seq(Int)
    OBVIOUS
  <2> QED
    BY <2>1, <2>2, TotalType
<1>11. ValueLE(s) = Total(W(s)) /\ ValueLE(t) = Total(W(t)) /\ ValueLE(<<>>) = Total(W(<<>>))
  BY <1>2
<1>12. ValueLE(t) = ValueLE(s) + e
  BY <1>7, <1>8, <1>11
<1> QED
  BY <1>9, <1>10, <1>11, <1>12 DEF t, e

(* Reading a number gives what was written, as far as it fits.             *)
LEMMA ValueOfLE ==
  ASSUME NEW u \in Nat, NEW w \in Nat
  PROVE  ValueLE(LE(u, w)) = u % Span(w)
<1> DEFINE Bad == {k \in Nat : ValueLE(LE(u, k)) # u % Span(k)}
<1> SUFFICES ASSUME Bad # {}  PROVE FALSE
  OBVIOUS
<1>1. PICK k \in Bad : \A j \in Bad : k <= j
  <2>1. Bad \in SUBSET Nat
    OBVIOUS
  <2> HIDE DEF Bad
  <2> QED
    BY <2>1, Least
<1>2. k # 0
  <2>1. LE(u, 0) = <<>>
    <3>1. LE(u, 0) \in Seq(Byte) /\ Len(LE(u, 0)) = 0
      BY LEDigits
    <3> DEFINE s == LE(u, 0)
    <3> HIDE DEF s
    <3>2. s \in Seq(Byte) /\ Len(s) = 0 => s = <<>>
      OBVIOUS
    <3> QED
      BY <3>1, <3>2 DEF s
  <2>2. ValueLE(<<>>) = 0
    <3>1. <<>> \in Seq(Nat) /\ 0 \in Nat
      OBVIOUS
    <3> QED
      BY <3>1, ValueAppend
  <2>3. u % Span(0) = 0
    <3>1. u % 1 = 0
      OBVIOUS
    <3> QED
      BY <3>1, SpanStep
  <2> QED
    BY <1>1, <2>1, <2>2, <2>3
<1> DEFINE j == k - 1
<1>3. j \in Nat /\ j + 1 = k
  BY <1>1, <1>2
<1>4. ValueLE(LE(u, j)) = u % Span(j)
  <2>1. ~(k <= j)
    BY <1>1
  <2>2. j \notin Bad
    <3> HIDE DEF Bad, j
    <3> QED
      BY <1>1, <2>1
  <2> HIDE DEF j
  <2> QED
    BY <1>3, <2>2
<1> HIDE DEF j
<1> DEFINE s == LE(u, j)
           d == (u \div Span(j)) % BYTE
<1>5. s \in Seq(Byte) /\ Len(s) = j /\ LE(u, j + 1) = Append(s, d)
      /\ LE(u, j + 1) \in Seq(Byte)
  <2>1. j + 1 \in Nat
    BY <1>3
  <2> QED
    BY <1>3, <2>1, LEDigits
<1>6. Span(j) \in Nat /\ Span(j) > 0 /\ Span(j + 1) = BYTE * Span(j)
  BY <1>3, SpanStep
<1>7. d \in Nat
  <2> DEFINE v == u \div Span(j)
  <2>1. v \in Nat
    BY <1>6, ModFacts
  <2> HIDE DEF v
  <2>2. v % BYTE \in Nat
    BY <2>1, BitsFacts
  <2> QED
    BY <2>2 DEF v
<1>8. s \in Seq(Nat)
  <2> HIDE DEF s
  <2> QED
    BY <1>5, ByteSeq
<1>9. ValueLE(Append(s, d)) = ValueLE(s) + d * Span(Len(s))
  <2> HIDE DEF s, d
  <2> QED
    BY <1>7, <1>8, ValueAppend
<1>10. u % (Span(j) * BYTE) = (u % Span(j)) + Span(j) * ((u \div Span(j)) % BYTE)
  BY <1>6, BitsFacts, DivDiv
<1>11. d * Span(j) = Span(j) * d /\ Span(j) * BYTE = BYTE * Span(j)
  <2> HIDE DEF d
  <2> QED
    BY <1>6, <1>7, BitsFacts
<1>12. ValueLE(LE(u, j + 1)) = u % Span(j + 1)
  BY <1>4, <1>5, <1>6, <1>9, <1>10, <1>11
<1> QED
  BY <1>1, <1>3, <1>12

LEMMA LERoundTrip ==
  ASSUME NEW w \in Nat, NEW u \in 0..(Span(w) - 1)
  PROVE  ValueLE(LE(u, w)) = u
<1>1. Span(w) \in Nat
  BY SpanStep
<1>2. u \in Nat /\ u < Span(w)
  BY <1>1
<1>3. u % Span(w) = u
  BY <1>1, <1>2, SmallMod
<1> QED
  BY <1>2, <1>3, ValueOfLE

LEMMA ValueOfByte ==
  ASSUME NEW b \in Nat
  PROVE  ValueLE(<<b>>) = b
<1>1. <<>> \in Seq(Nat) /\ Append(<<>>, b) = <<b>> /\ Len(<<>>) = 0
  OBVIOUS
<1>2. ValueLE(Append(<<>>, b)) = ValueLE(<<>>) + b * Span(Len(<<>>)) /\ ValueLE(<<>>) = 0
  BY <1>1, ValueAppend
<1>3. ValueLE(<<b>>) = 0 + b * 1
  BY <1>1, <1>2, SpanStep
<1> QED
  BY <1>3

-----------------------------------------------------------------------------
(* Buffers.                                                                *)

LEMMA ConcatType ==
  ASSUME NEW S, NEW a \in Seq(S), NEW b \in Seq(S)
  PROVE  /\ a \o b \in Seq(S) /\ Len(a \o b) = Len(a) + Len(b)
         /\ \A k \in 1..Len(a) : (a \o b)[k] = a[k]
         /\ \A k \in 1..Len(b) : (a \o b)[Len(a) + k] = b[k]
OBVIOUS

LEMMA ConcatAgain ==
  ASSUME NEW S, NEW a \in Seq(S), NEW b \in Seq(S), NEW c \in Seq(S)
  PROVE  (a \o b) \o c = a \o (b \o c)
OBVIOUS

(* Bytes that stand behind others are found at their offset.               *)
LEMMA AtMiddle ==
  ASSUME NEW S, NEW a \in Seq(S), NEW m \in Seq(S), NEW c \in Seq(S)
  PROVE  At(a \o m \o c, Len(a), Len(m)) = m
<1> DEFINE buf == a \o m \o c
<1>1. /\ buf \in Seq(S) /\ Len(buf) = Len(a) + Len(m) + Len(c)
      /\ Len(a) \in Nat /\ Len(m) \in Nat /\ Len(c) \in Nat
      /\ \A k \in 1..Len(m) : buf[Len(a) + k] = m[k]
  OBVIOUS
<1> HIDE DEF buf
<1>2. Len(a) + Len(m) <= Len(buf)
  BY <1>1
<1> DEFINE x == SubSeq(buf, Len(a) + 1, Len(a) + Len(m))
<1>3. x \in Seq(S) /\ Len(x) = Len(m) /\ \A k \in 1..Len(m) : x[k] = buf[Len(a) + k]
  BY <1>1
<1>4. x = m
  <2> HIDE DEF x
  <2> QED
    BY <1>1, <1>3, SMTT(30)
<1> QED
  BY <1>2, <1>4 DEF At, buf

LEMMA GetMiddle ==
  ASSUME NEW S, NEW a \in Seq(S), NEW m \in Seq(S), NEW c \in Seq(S)
  PROVE  GetLE(a \o m \o c, Len(a), Len(m)) = ValueLE(m)
BY AtMiddle DEF GetLE

(* A length is read back, with the bytes it took, wherever it stands.      *)
LEMMA VarIntWritten ==
  ASSUME NEW u \in 0..(Span(W64) - 1)
  PROVE  \E h \in Byte, n \in Nat :
           /\ BitWVarIntSet(u) = <<h>> \o LE(u, n)
           /\ VarIntWidth(h) = n
           /\ n = 0 => h = u
           /\ n # 0 => u \in 0..(Span(n) - 1)
<1> DEFINE P(h, n) ==
             /\ BitWVarIntSet(u) = <<h>> \o LE(u, n)
             /\ VarIntWidth(h) = n
             /\ n = 0 => h = u
             /\ n # 0 => u \in 0..(Span(n) - 1)
<1>1. /\ {VAR_INT16_HEADER, VAR_INT32_HEADER, VAR_INT64_HEADER} \subseteq Byte
      /\ VAR_INT16_HEADER < VAR_INT32_HEADER /\ VAR_INT32_HEADER < VAR_INT64_HEADER
      /\ VAR_INT16_HEADER < BYTE
      /\ {W16, W32, W64} \subseteq Nat \ {0} /\ u \in Nat
  BY BitsFacts, WidthAssumption, SpanStep DEF Byte, VAR_INT16_HEADER, VAR_INT32_HEADER, VAR_INT64_HEADER
<1>2. /\ Span(W16) \in Nat /\ Span(W32) \in Nat /\ Span(W64) \in Nat
      /\ BYTE < Span(W16) /\ Span(W16) < Span(W32) /\ BYTE \in Nat
  <2>1. 2 * Span(1) <= Span(W16) /\ 2 * Span(W16) <= Span(W32)
    BY <1>1, WidthAssumption, SpanMonotone
  <2>2. Span(W16) \in Nat /\ Span(W16) > 0 /\ Span(W32) \in Nat /\ Span(W64) \in Nat
    BY <1>1, SpanStep
  <2> QED
    BY <2>1, <2>2, SpanStep, BitsFacts
<1>3. /\ VarIntWidth(VAR_INT16_HEADER) = W16
      /\ VarIntWidth(VAR_INT32_HEADER) = W32
      /\ VarIntWidth(VAR_INT64_HEADER) = W64
      /\ u < VAR_INT16_HEADER => VarIntWidth(u) = 0
  BY <1>1, BitsFacts DEF VarIntWidth, Byte
<1>4. ASSUME u < VAR_INT16_HEADER  PROVE u \in Byte /\ P(u, 0)
  <2>1. BitWVarIntSet(u) = <<u>>
    BY <1>1, <1>2, <1>4, BitsFacts, SMTT(30) DEF BitWVarIntSet, Byte
  <2>2. LE(u, 0) = <<>>
    <3> DEFINE s == LE(u, 0)
    <3>1. s \in Seq(Byte) /\ Len(s) = 0
      BY <1>1, LEDigits
    <3> HIDE DEF s
    <3>2. s = <<>>
      BY <3>1
    <3> QED
      BY <3>2 DEF s
  <2>3. <<u>> \o <<>> = <<u>>
    BY <1>1
  <2>4. BitWVarIntSet(u) = <<u>> \o LE(u, 0)
    BY <2>1, <2>2, <2>3
  <2>5. u \in Byte
    BY <1>1, <1>4, BitsFacts DEF Byte
  <2> QED
    BY <1>3, <1>4, <2>4, <2>5
<1>5. ASSUME u >= VAR_INT16_HEADER, u < Span(W16)  PROVE P(VAR_INT16_HEADER, W16)
  <2>1. ~(u < VAR_INT16_HEADER)
    BY <1>1, <1>5, BitsFacts DEF Byte
  <2>2. ~(u >= Span(W16))
    BY <1>1, <1>2, <1>5
  <2>3. BitWVarIntSet(u) = <<VAR_INT16_HEADER>> \o LE(u, W16)
    BY <1>5, <2>1, <2>2 DEF BitWVarIntSet
  <2> QED
    BY <1>1, <1>2, <1>3, <1>5, <2>3
<1>6. ASSUME u >= Span(W16), u < Span(W32)  PROVE P(VAR_INT32_HEADER, W32)
  <2>1. BitWVarIntSet(u) = <<VAR_INT32_HEADER>> \o LE(u, W32)
    BY <1>1, <1>2, <1>6, BitsFacts, SMTT(30) DEF BitWVarIntSet, Byte
  <2> QED
    BY <1>1, <1>2, <1>3, <1>6, <2>1
<1>7. ASSUME u >= Span(W32)  PROVE P(VAR_INT64_HEADER, W64)
  <2>1. ~(u < VAR_INT16_HEADER) /\ ~(u < Span(W16)) /\ ~(u < Span(W32))
    BY <1>1, <1>2, <1>7, BitsFacts DEF Byte
  <2>2. BitWVarIntSet(u) = <<VAR_INT64_HEADER>> \o LE(u, W64)
    BY <2>1 DEF BitWVarIntSet
  <2> QED
    BY <1>1, <1>2, <1>3, <1>7, <2>2
<1> HIDE DEF P
<1>8. \E h \in Byte, n \in Nat : P(h, n)
  <2>1. \/ u < VAR_INT16_HEADER
        \/ u >= VAR_INT16_HEADER /\ u < Span(W16)
        \/ u >= Span(W16) /\ u < Span(W32)
        \/ u >= Span(W32)
    BY <1>1, <1>2, BitsFacts DEF Byte
  <2>2. CASE u < VAR_INT16_HEADER
    BY <1>4, <2>2
  <2>3. CASE u >= VAR_INT16_HEADER /\ u < Span(W16)
    BY <1>1, <1>5, <2>3
  <2>4. CASE u >= Span(W16) /\ u < Span(W32)
    BY <1>1, <1>6, <2>4
  <2>5. CASE u >= Span(W32)
    BY <1>1, <1>7, <2>5
  <2> QED
    BY <2>1, <2>2, <2>3, <2>4, <2>5
<1> QED
  BY <1>8 DEF P

(* BitWVarInt reads what BitWVarIntSet wrote, whatever stands before and   *)
(* behind it, and its length is BitWVarIntSize.                            *)
THEOREM VarIntRoundTrip ==
  ASSUME NEW u \in 0..(Span(W64) - 1),
         NEW S, Byte \subseteq S, NEW a \in Seq(S), NEW c \in Seq(S)
  PROVE  /\ BitWVarIntSet(u) \in Seq(Byte)
         /\ BitWVarInt(a \o BitWVarIntSet(u) \o c, Len(a)) =
              [value |-> u, len |-> BitWVarIntSize(u)]
<1>1. PICK h \in Byte, n \in Nat :
           /\ BitWVarIntSet(u) = <<h>> \o LE(u, n)
           /\ VarIntWidth(h) = n
           /\ n = 0 => h = u
           /\ n # 0 => u \in 0..(Span(n) - 1)
  BY VarIntWritten
<1> DEFINE m == LE(u, n)
           v == <<h>> \o m
           buf == a \o v \o c
<1>2. u \in Nat
  BY WidthAssumption, SpanStep
<1>3. m \in Seq(Byte) /\ Len(m) = n /\ <<h>> \in Seq(Byte) /\ Len(<<h>>) = 1
  <2>1. m \in Seq(Byte) /\ Len(m) = n
    BY <1>2, LEDigits
  <2> QED
    BY <2>1
<1> HIDE DEF m
<1>4. v \in Seq(Byte) /\ Len(v) = 1 + n
  BY <1>3
<1>5. m \in Seq(S) /\ <<h>> \in Seq(S)
  BY <1>3, SeqWiden
<1>6. /\ buf = a \o <<h>> \o (m \o c) /\ m \o c \in Seq(S)
      /\ buf = (a \o <<h>>) \o m \o c /\ a \o <<h>> \in Seq(S)
      /\ Len(a \o <<h>>) = Len(a) + 1
  <2> DEFINE x == <<h>>
  <2>1. x \in Seq(S) /\ Len(x) = 1
    BY <1>3, <1>5
  <2> HIDE DEF x
  <2>2. /\ (a \o (x \o m)) \o c = ((a \o x) \o m) \o c
        /\ (a \o (x \o m)) \o c = (a \o x) \o (m \o c)
        /\ a \o x \in Seq(S) /\ Len(a \o x) = Len(a) + Len(x)
        /\ m \o c \in Seq(S)
    <3>1. m \o c \in Seq(S)
      BY <1>5, ConcatType
    <3>2. a \o x \in Seq(S) /\ Len(a \o x) = Len(a) + Len(x)
      BY <2>1, ConcatType
    <3>3. (a \o x) \o m = a \o (x \o m)
      BY <1>5, <2>1, ConcatAgain
    <3> DEFINE y == a \o x
    <3> HIDE DEF y
    <3>4. (y \o m) \o c = y \o (m \o c)
      <4>1. y \in Seq(S)
        BY <3>2 DEF y
      <4>2. m \in Seq(S) /\ c \in Seq(S)
        BY <1>5
      <4> HIDE DEF v, buf
      <4> QED
        BY <4>1, <4>2, SMTT(30)
    <3> QED
      BY <3>1, <3>2, <3>3, <3>4 DEF y
  <2> QED
    BY <2>1, <2>2, Zenon DEF x
<1>7. GetLE(buf, Len(a), 1) = h
  <2>1. GetLE(a \o <<h>> \o (m \o c), Len(a), Len(<<h>>)) = ValueLE(<<h>>)
    BY <1>5, <1>6, GetMiddle, Zenon
  <2>2. ValueLE(<<h>>) = h
    BY BitsFacts, ValueOfByte DEF Byte
  <2> HIDE DEF buf
  <2> QED
    BY <1>3, <1>6, <2>1, <2>2
<1>8. GetLE(buf, Len(a) + 1, n) = ValueLE(m)
  <2>1. GetLE((a \o <<h>>) \o m \o c, Len(a \o <<h>>), Len(m)) = ValueLE(m)
    BY <1>5, <1>6, GetMiddle, Zenon
  <2> HIDE DEF buf
  <2> QED
    BY <1>3, <1>6, <2>1
<1>9. n # 0 => ValueLE(m) = u
  BY <1>1, LERoundTrip DEF m
<1>10. VarIntBehind(h, buf, Len(a) + 1) = [value |-> u, len |-> 1 + n]
  <2> HIDE DEF buf
  <2> QED
    BY <1>1, <1>8, <1>9 DEF VarIntBehind
<1>11. BitWVarInt(buf, Len(a)) = [value |-> u, len |-> 1 + n]
  <2> HIDE DEF buf
  <2> QED
    BY <1>7, <1>10 DEF BitWVarInt
<1> HIDE DEF buf, v
<1> QED
  BY <1>1, <1>4, <1>11 DEF buf, v, m, BitWVarIntSize

-----------------------------------------------------------------------------
(* Lists of byte strings, one behind the other.                            *)

(* What a list of strings is written as, up to each of them.               *)
Accumulates(f, seqs, S) ==
  /\ f \in [0..Len(seqs) -> Seq(S)]
  /\ f[0] = <<>> /\ \A k \in 1..Len(seqs) : f[k] = f[k - 1] \o seqs[k]

LEMMA FlattenPrefixes ==
  ASSUME NEW S, NEW seqs \in Seq(Seq(S))
  PROVE  \E f : Accumulates(f, seqs, S) /\ FlattenSeq(seqs) = f[Len(seqs)]
<1> DEFINE n == Len(seqs)
           P(f) == f = [i \in 1..n |-> IF i = 1 THEN seqs[i] ELSE f[i - 1] \o seqs[i]]
           T == Seq(S)
           X == [i \in 0..(n - 1) |-> T]
           step == [i \in 1..(n - 1) |-> [g \in T |-> g \o seqs[i + 1]]]
<1>1. n \in Nat /\ \A i \in 1..n : seqs[i] \in T
  OBVIOUS
<1>2. CASE n = 0
  <2> DEFINE f == [k \in 0..0 |-> <<>>]
  <2>1. f \in [0..0 -> Seq(S)] /\ f[0] = <<>>
    OBVIOUS
  <2>2. FlattenSeq(seqs) = seqs /\ seqs = <<>>
    BY <1>2 DEF FlattenSeq
  <2> HIDE DEF f
  <2>3. Accumulates(f, seqs, S) /\ FlattenSeq(seqs) = f[Len(seqs)]
    BY <1>2, <2>1, <2>2 DEF Accumulates
  <2> QED
    BY <2>3
<1>3. CASE n # 0
  <2>1. \A g, h \in T : g \o h \in T
    OBVIOUS
  <2> HIDE DEF T
  <2>2. 1 \in 1..n /\ n - 1 \in Nat /\ seqs[1] \in T
    BY <1>1, <1>3
  <2>3. X \in [0..(n - 1) -> SUBSET T] /\ seqs[1] \in X[0]
    BY <2>2
  <2>4. Goes(n - 1, X, step)
    BY <1>1, <2>1 DEF Goes
  <2> HIDE DEF X, step
  <2>5. PICK h : Recursive(h, n - 1, T, X, seqs[1], step)
    BY <2>2, <2>3, <2>4, RecursionTo
  <2> DEFINE g == [i \in 1..n |-> h[i - 1]]
  <2>6. ASSUME NEW i \in 1..n
        PROVE  g[i] = IF i = 1 THEN seqs[i] ELSE g[i - 1] \o seqs[i]
    <3>1. CASE i = 1
      BY <2>5, <3>1 DEF Recursive
    <3>2. CASE i # 1
      <4>1. i - 1 \in 1..(n - 1) /\ (i - 1) - 1 \in 0..(n - 1)
        BY <1>1, <3>2
      <4>2. h[i - 1] = step[i - 1][h[(i - 1) - 1]] /\ h[(i - 1) - 1] \in X[(i - 1) - 1]
        BY <2>5, <4>1 DEF Recursive
      <4>3. h[(i - 1) - 1] \in T
        BY <4>1, <4>2 DEF X
      <4>4. (i - 1) + 1 = i
        OBVIOUS
      <4>5. h[i - 1] = h[(i - 1) - 1] \o seqs[i]
        BY <4>1, <4>2, <4>3, <4>4 DEF step
      <4>6. g[i] = h[i - 1] /\ g[i - 1] = h[(i - 1) - 1]
        BY <1>1, <4>1
      <4> QED
        BY <3>2, <4>5, <4>6
    <3> QED
      BY <3>1, <3>2
  <2>7. g = [i \in 1..n |-> g[i]]
    OBVIOUS
  <2> HIDE DEF g
  <2>8. P(g)
    BY <2>6, <2>7, Zenon
  <2>9. FlattenSeq(seqs) = (CHOOSE f : P(f))[n]
    BY <1>3 DEF FlattenSeq
  <2> HIDE DEF P
  <2>10. PICK f : P(f) /\ FlattenSeq(seqs) = f[n]
    BY <2>8, <2>9
  <2>11. f[1] = seqs[1] /\ \A i \in 2..n : f[i] = f[i - 1] \o seqs[i]
    <3>1. \A i \in 1..n : f[i] = IF i = 1 THEN seqs[i] ELSE f[i - 1] \o seqs[i]
      <4>1. f = [i \in 1..n |-> IF i = 1 THEN seqs[i] ELSE f[i - 1] \o seqs[i]]
        BY <2>10 DEF P
      <4> QED
        BY <4>1, Zenon
    <3>2. \A i \in 2..n : i \in 1..n /\ i # 1
      OBVIOUS
    <3> QED
      BY <2>2, <3>1, <3>2, Zenon
  <2> DEFINE R == {k \in 0..(n - 1) : f[k + 1] \in T}
  <2>12. 0 \in R
    BY <2>2, <2>11
  <2>13. ASSUME NEW k \in 1..(n - 1), k - 1 \in R  PROVE k \in R
    <3>1. k + 1 \in 2..n /\ (k + 1) - 1 = (k - 1) + 1
      BY <1>1
    <3>2. f[k + 1] = f[(k - 1) + 1] \o seqs[k + 1]
      BY <2>11, <3>1
    <3>3. f[(k - 1) + 1] \in T /\ seqs[k + 1] \in T
      BY <1>1, <2>13, <3>1
    <3>4. f[k + 1] \in T
      BY <2>1, <3>2, <3>3, Zenon
    <3> QED
      BY <3>4
  <2>14. \A i \in 1..n : f[i] \in T
    <3>1. \A k \in 0..(n - 1) : k \in R
      <4> HIDE DEF R
      <4> QED
        BY <2>2, <2>12, <2>13, AllUpTo
    <3> TAKE i \in 1..n
    <3>2. i - 1 \in 0..(n - 1) /\ (i - 1) + 1 = i
      BY <1>1
    <3> QED
      BY <3>1, <3>2
  <2> DEFINE e == [k \in 0..n |-> IF k = 0 THEN <<>> ELSE f[k]]
  <2>15. e[0] = <<>> /\ e[n] = f[n] /\ \A k \in 1..n : e[k] = f[k]
    BY <1>1, <1>3
  <2>16. e \in [0..n -> T]
    <3>1. <<>> \in T
      BY DEF T
    <3> QED
      BY <2>14, <3>1
  <2> HIDE DEF e
  <2>17. ASSUME NEW k \in 1..n  PROVE e[k] = e[k - 1] \o seqs[k]
    <3>1. CASE k = 1
      <4>1. <<>> \o seqs[1] = seqs[1]
        BY <2>2 DEF T
      <4>2. e[1] = f[1] /\ f[1] = seqs[1]
        BY <2>2, <2>11, <2>15
      <4>3. e[1] = e[0] \o seqs[1]
        BY <2>15, <4>1, <4>2, Zenon
      <4> QED
        BY <3>1, <4>3
    <3>2. CASE k # 1
      <4>1. k \in 2..n /\ k - 1 \in 1..n
        BY <1>1, <3>2
      <4>2. e[k] = f[k] /\ e[k - 1] = f[k - 1]
        BY <2>15, <4>1
      <4>3. f[k] = f[k - 1] \o seqs[k]
        BY <2>11, <4>1
      <4> QED
        BY <4>2, <4>3, Zenon
    <3> QED
      BY <3>1, <3>2
  <2>18. Accumulates(e, seqs, S)
    BY <2>15, <2>16, <2>17 DEF Accumulates, T
  <2> QED
    BY <2>10, <2>15, <2>18
<1> QED
  BY <1>2, <1>3

LEMMA FlattenType ==
  ASSUME NEW S, NEW seqs \in Seq(Seq(S))
  PROVE  FlattenSeq(seqs) \in Seq(S)
<1>1. PICK f : Accumulates(f, seqs, S) /\ FlattenSeq(seqs) = f[Len(seqs)]
  BY FlattenPrefixes
<1>2. Len(seqs) \in Nat
  OBVIOUS
<1> QED
  BY <1>1, <1>2 DEF Accumulates

(* Lists without, with one and with one more string.                       *)
LEMMA FlattenFew ==
  ASSUME NEW S, NEW seqs \in Seq(Seq(S))
  PROVE  /\ Len(seqs) = 0 => FlattenSeq(seqs) = <<>>
         /\ Len(seqs) = 1 => FlattenSeq(seqs) = seqs[1]
<1>1. PICK f : Accumulates(f, seqs, S) /\ FlattenSeq(seqs) = f[Len(seqs)]
  BY FlattenPrefixes
<1>2. f[0] = <<>> /\ \A k \in 1..Len(seqs) : f[k] = f[k - 1] \o seqs[k]
  BY <1>1 DEF Accumulates
<1>3. ASSUME Len(seqs) = 1  PROVE FlattenSeq(seqs) = seqs[1]
  <2>1. 1 \in 1..Len(seqs) /\ 1 - 1 = 0 /\ seqs[1] \in Seq(S)
    BY <1>3
  <2>2. f[1] = <<>> \o seqs[1]
    BY <1>2, <2>1
  <2>3. <<>> \o seqs[1] = seqs[1]
    BY <2>1
  <2> QED
    BY <1>1, <1>3, <2>2, <2>3
<1> QED
  BY <1>1, <1>2, <1>3

LEMMA FlattenLast ==
  ASSUME NEW S, NEW n \in Nat, NEW F \in [1..(n + 1) -> Seq(S)]
  PROVE  FlattenSeq(F) = FlattenSeq([k \in 1..n |-> F[k]]) \o F[n + 1]
<1> DEFINE T == Seq(S)
           G == [k \in 1..n |-> F[k]]
<1> HIDE DEF T
<1>1. F \in [1..(n + 1) -> T]
  BY DEF T
<1>2. G \in [1..n -> T] /\ \A k \in 1..n : G[k] = F[k]
  BY <1>1
<1> HIDE DEF G
<1>3. F \in Seq(T) /\ Len(F) = n + 1
  BY <1>1
<1>4. G \in Seq(T) /\ Len(G) = n
  BY <1>2
<1>5. PICK f : Accumulates(f, F, S) /\ FlattenSeq(F) = f[n + 1]
  <2>1. \E f : Accumulates(f, F, S) /\ FlattenSeq(F) = f[Len(F)]
    BY <1>3, FlattenPrefixes DEF T
  <2> QED
    BY <1>3, <2>1
<1>6. PICK g : Accumulates(g, G, S) /\ FlattenSeq(G) = g[n]
  <2>1. \E g : Accumulates(g, G, S) /\ FlattenSeq(G) = g[Len(G)]
    BY <1>4, FlattenPrefixes DEF T
  <2> QED
    BY <1>4, <2>1
<1>7. f[0] = <<>> /\ \A k \in 1..(n + 1) : f[k] = f[k - 1] \o F[k]
  BY <1>3, <1>5 DEF Accumulates
<1>8. g[0] = <<>> /\ \A k \in 1..n : g[k] = g[k - 1] \o G[k]
  BY <1>4, <1>6 DEF Accumulates
<1> DEFINE R == {k \in 0..n : f[k] = g[k]}
<1>9. 0 \in R
  BY <1>7, <1>8
<1>10. ASSUME NEW k \in 1..n, k - 1 \in R  PROVE k \in R
  <2>1. k \in 1..(n + 1)
    OBVIOUS
  <2>2. f[k] = f[k - 1] \o F[k] /\ g[k] = g[k - 1] \o G[k] /\ G[k] = F[k] /\ f[k - 1] = g[k - 1]
    BY <1>2, <1>7, <1>8, <1>10, <2>1
  <2>3. f[k] = g[k]
    BY <2>2, Zenon
  <2> QED
    BY <2>3
<1>11. \A k \in 0..n : k \in R
  <2> HIDE DEF R
  <2> QED
    BY <1>9, <1>10, AllUpTo
<1>12. f[n] = g[n] /\ n + 1 \in 1..(n + 1) /\ (n + 1) - 1 = n
  BY <1>11
<1>13. f[n + 1] = f[n] \o F[n + 1]
  BY <1>7, <1>12
<1> QED
  BY <1>5, <1>6, <1>12, <1>13 DEF G

-----------------------------------------------------------------------------
(* Reading a buffer from an offset.                                        *)

LEMMA AtFront ==
  ASSUME NEW S, NEW a \in Seq(S), NEW c \in Seq(S), NEW off \in Nat, NEW w \in Nat,
         off + w <= Len(a)
  PROVE  /\ At(a \o c, off, w) \in Seq(S) /\ Len(At(a \o c, off, w)) = w
         /\ \A k \in 1..w : At(a \o c, off, w)[k] = a[off + k]
<1> DEFINE s == a \o c
<1>1. /\ s \in Seq(S) /\ Len(s) = Len(a) + Len(c) /\ Len(a) \in Nat /\ Len(c) \in Nat
      /\ \A k \in 1..Len(a) : s[k] = a[k]
  OBVIOUS
<1> HIDE DEF s
<1>2. At(s, off, w) = SubSeq(s, off + 1, off + w)
  <2>1. off + w <= Len(s)
    BY <1>1
  <2> QED
    BY <2>1 DEF At
<1> DEFINE t == SubSeq(s, off + 1, off + w)
<1>3. t \in Seq(S) /\ Len(t) = w /\ \A k \in 1..w : t[k] = s[off + k]
  <2> DEFINE m == off + 1
             n == off + w
  <2>1. m \in 1..(Len(s) + 1) /\ n \in (m - 1)..Len(s) /\ n - m + 1 = w
    BY <1>1
  <2> HIDE DEF m, n
  <2>2. SubSeq(s, m, n) \in Seq(S) /\ Len(SubSeq(s, m, n)) = n - m + 1
    BY <1>1, <2>1
  <2>3. \A k \in 1..(n - m + 1) : SubSeq(s, m, n)[k] = s[m + k - 1]
    BY <1>1, <2>1
  <2>4. t = SubSeq(s, m, n) /\ \A k \in 1..w : m + k - 1 = off + k
    BY DEF m, n
  <2> HIDE DEF t
  <2> QED
    BY <2>1, <2>2, <2>3, <2>4
<1> HIDE DEF t
<1>4. \A k \in 1..w : off + k \in 1..Len(a)
  BY <1>1
<1>5. At(s, off, w) = t
  BY <1>2 DEF t
<1> QED
  BY <1>1, <1>3, <1>4, <1>5 DEF s

(* A number that is read has no more digits than bytes were read.          *)
LEMMA PrefixValue ==
  ASSUME NEW s \in Seq(Byte), NEW k \in 1..Len(s)
  PROVE  ValueLE(SubSeq(s, 1, k)) = ValueLE(SubSeq(s, 1, k - 1)) + s[k] * Span(k - 1)
<1> DEFINE a == SubSeq(s, 1, k - 1)
           b == SubSeq(s, 1, k)
<1>1. Len(s) \in Nat /\ k \in Nat /\ k - 1 \in Nat /\ s[k] \in Byte
  OBVIOUS
<1>2. a \in Seq(Byte) /\ Len(a) = k - 1 /\ \A j \in 1..(k - 1) : a[j] = s[j]
  BY <1>1
<1>3. b \in Seq(Byte) /\ Len(b) = k /\ \A j \in 1..k : b[j] = s[j]
  BY <1>1
<1> HIDE DEF a, b
<1>4. b = Append(a, s[k])
  <2> DEFINE c == Append(a, s[k])
             x == s[k]
  <2>1. /\ c \in Seq(Byte) /\ Len(c) = k /\ c[k] = s[k]
        /\ \A j \in 1..(k - 1) : c[j] = a[j]
    <3> HIDE DEF x
    <3> QED
      BY <1>1, <1>2
  <2> HIDE DEF c
  <2>2. \A j \in 1..k : c[j] = b[j]
    <3> TAKE j \in 1..k
    <3>1. j = k \/ j \in 1..(k - 1)
      BY <1>1
    <3>2. CASE j = k
      BY <1>3, <2>1, <3>2
    <3>3. CASE j \in 1..(k - 1)
      BY <1>2, <1>3, <2>1, <3>3
    <3> QED
      BY <3>1, <3>2, <3>3
  <2> QED
    BY <1>3, <2>1, <2>2 DEF c
<1>5. a \in Seq(Nat) /\ s[k] \in Nat
  <2>1. Byte \subseteq Nat
    BY BitsFacts DEF Byte
  <2> QED
    BY <1>1, <1>2, <2>1, ByteSeq
<1>6. ValueLE(Append(a, s[k])) = ValueLE(a) + s[k] * Span(Len(a))
  BY <1>5, ValueAppend
<1> QED
  BY <1>2, <1>4, <1>6 DEF a, b

LEMMA PrefixBound ==
  ASSUME NEW s \in Seq(Byte)
  PROVE  \A k \in 0..Len(s) : /\ ValueLE(SubSeq(s, 1, k)) \in Nat
                              /\ ValueLE(SubSeq(s, 1, k)) < Span(k)
<1> DEFINE V(k) == ValueLE(SubSeq(s, 1, k))
           n == Len(s)
           S == {k \in 0..n : V(k) \in Nat /\ V(k) < Span(k)}
<1>1. n \in Nat
  OBVIOUS
<1>2. 0 \in S
  <2>1. SubSeq(s, 1, 0) = <<>>
    OBVIOUS
  <2>2. V(0) = 0
    <3>1. <<>> \in Seq(Nat)
      OBVIOUS
    <3>2. ValueLE(<<>>) = 0
      BY <3>1, ValueAppend
    <3> QED
      BY <2>1, <3>2
  <2>3. V(0) \in Nat /\ V(0) < Span(0)
    <3> DEFINE v == V(0)
    <3>1. v = 0 /\ Span(0) = 1
      BY <2>2, SpanStep
    <3> HIDE DEF v
    <3>2. v \in Nat /\ v < Span(0)
      BY <3>1
    <3> QED
      BY <3>2 DEF v
  <2> QED
    BY <1>1, <2>3
<1>3. ASSUME NEW k \in 1..n, k - 1 \in S  PROVE k \in S
  <2>1. V(k) = V(k - 1) + s[k] * Span(k - 1)
    BY PrefixValue
  <2>2. V(k - 1) \in Nat /\ V(k - 1) < Span(k - 1)
    BY <1>3
  <2> HIDE DEF V
  <2> DEFINE p == Span(k - 1)
             b == s[k]
  <2>3. p \in Nat /\ Span(k) = BYTE * p
    <3>1. k - 1 \in Nat /\ (k - 1) + 1 = k
      BY <1>1
    <3> QED
      BY <3>1, SpanStep
  <2>4. b \in Nat /\ b <= BYTE - 1 /\ BYTE \in Nat
    <3>1. s[k] \in Byte
      OBVIOUS
    <3> QED
      BY <3>1, BitsFacts DEF Byte
  <2> HIDE DEF p, b
  <2>5. V(k) = V(k - 1) + b * p /\ V(k - 1) < p
    BY <2>1, <2>2 DEF p, b
  <2>6. b * p \in Nat /\ b * p + p <= BYTE * p
    <3>1. (BYTE - 1 - b) * p >= 0
      BY <2>3, <2>4
    <3>2. BYTE * p = (BYTE - 1 - b) * p + b * p + p
      BY <2>3, <2>4
    <3>3. b * p \in Nat
      BY <2>3, <2>4
    <3> QED
      BY <2>3, <2>4, <3>1, <3>2, <3>3
  <2>7. V(k) \in Nat /\ V(k) < BYTE * p
    BY <2>2, <2>3, <2>4, <2>5, <2>6
  <2>8. V(k) < Span(k)
    BY <2>3, <2>7
  <2> QED
    BY <2>7, <2>8
<1>4. \A k \in 0..n : k \in S
  <2> HIDE DEF S
  <2> QED
    BY <1>1, <1>2, <1>3, AllUpTo
<1> QED
  BY <1>4

LEMMA AtType ==
  ASSUME NEW b \in Seq(Byte), NEW off \in Nat, NEW w \in Nat
  PROVE  /\ At(b, off, w) \in Seq(Byte) /\ Len(At(b, off, w)) = w
         /\ GetLE(b, off, w) \in Uint(w) /\ GetLE(b, off, w) \in Nat
         /\ off + w > Len(b) => GetLE(b, off, w) = 0
<1>1. 0 \in Byte /\ Byte \subseteq Nat /\ Len(b) \in Nat
  BY BitsFacts DEF Byte
<1> DEFINE z == Zeros(w)
           s == At(b, off, w)
<1>2. z \in Seq(Byte) /\ Len(z) = w /\ \A k \in 1..w : z[k] = 0
  <2>1. z \in [1..w -> Byte] /\ \A k \in 1..w : z[k] = 0
    BY <1>1 DEF Zeros
  <2> HIDE DEF z
  <2> QED
    BY <2>1
<1>3. s \in Seq(Byte) /\ Len(s) = w
  <2> HIDE DEF z
  <2>1. CASE off + w <= Len(b)
    <3>1. s = SubSeq(b, off + 1, off + w)
      BY <2>1 DEF At
    <3>2. SubSeq(b, off + 1, off + w) \in Seq(Byte) /\ Len(SubSeq(b, off + 1, off + w)) = w
      BY <1>1, <2>1
    <3> QED
      BY <3>1, <3>2
  <2>2. CASE ~(off + w <= Len(b))
    <3>1. s = z
      BY <2>2 DEF At, z
    <3> QED
      BY <1>2, <3>1
  <2> QED
    BY <2>1, <2>2
<1>4. ASSUME NEW x \in Seq(Byte), Len(x) = w
      PROVE  ValueLE(x) \in Nat /\ ValueLE(x) < Span(w)
  <2>1. SubSeq(x, 1, w) = x
    BY <1>4
  <2>2. w \in 0..Len(x)
    BY <1>4
  <2>3. ValueLE(SubSeq(x, 1, w)) \in Nat /\ ValueLE(SubSeq(x, 1, w)) < Span(w)
    BY <2>2, PrefixBound
  <2> QED
    BY <2>1, <2>3
<1>5. Span(w) \in Nat
  BY SpanStep
<1>6. ValueLE(s) \in Nat /\ ValueLE(s) < Span(w)
  <2> HIDE DEF s
  <2> QED
    BY <1>3, <1>4
<1>7. GetLE(b, off, w) = ValueLE(s)
  BY DEF GetLE
<1>8. ASSUME off + w > Len(b)  PROVE GetLE(b, off, w) = 0
  <2>1. GetLE(b, off, w) = ValueLE(z)
    BY <1>1, <1>8 DEF GetLE, At
  <2> DEFINE V(k) == ValueLE(SubSeq(z, 1, k))
             S == {k \in 0..w : V(k) = 0}
  <2> HIDE DEF z
  <2>2. 0 \in S
    <3>1. SubSeq(z, 1, 0) = <<>> /\ <<>> \in Seq(Nat) /\ 0 \in Nat
      OBVIOUS
    <3>2. ValueLE(<<>>) = 0
      BY <3>1, ValueAppend
    <3>3. V(0) = 0
      BY <3>1, <3>2
    <3> HIDE DEF V
    <3> QED
      BY <3>3
  <2>3. ASSUME NEW k \in 1..w, k - 1 \in S  PROVE k \in S
    <3>1. ValueLE(SubSeq(z, 1, k)) = ValueLE(SubSeq(z, 1, k - 1)) + z[k] * Span(k - 1)
      BY <1>2, PrefixValue
    <3>2. z[k] = 0 /\ Span(k - 1) \in Nat
      <4>1. k - 1 \in Nat
        OBVIOUS
      <4> QED
        BY <1>2, <4>1, SpanStep
    <3>3. z[k] * Span(k - 1) = 0
      BY <3>2
    <3>4. V(k) = V(k - 1) + z[k] * Span(k - 1)
      BY <3>1
    <3> HIDE DEF V
    <3> QED
      BY <2>3, <3>3, <3>4
  <2>4. w \in S
    <3>1. \A k \in 0..w : k \in S
      <4> HIDE DEF S
      <4> QED
        BY <2>2, <2>3, AllUpTo
    <3> QED
      BY <3>1
  <2>5. SubSeq(z, 1, w) = z
    BY <1>2
  <2>6. V(w) = 0
    <3> HIDE DEF V
    <3> QED
      BY <2>4
  <2> QED
    BY <2>1, <2>5, <2>6
<1> HIDE DEF s
<1> QED
  BY <1>3, <1>5, <1>6, <1>7, <1>8 DEF s, Uint

(* The bytes m are found in b at off.                                      *)
Stands(b, off, m) ==
  off + Len(m) <= Len(b) /\ \A k \in 1..Len(m) : b[off + k] = m[k]

LEMMA StandsAt ==
  ASSUME NEW b \in Seq(Byte), NEW off \in Nat, NEW m \in Seq(Byte), Stands(b, off, m)
  PROVE  At(b, off, Len(m)) = m
<1>1. off + Len(m) <= Len(b) /\ Len(m) \in Nat /\ Len(b) \in Nat
  BY DEF Stands
<1>2. At(b, off, Len(m)) = SubSeq(b, off + 1, off + Len(m))
  BY <1>1 DEF At
<1> DEFINE x == SubSeq(b, off + 1, off + Len(m))
<1>3. x \in Seq(Byte) /\ Len(x) = Len(m) /\ \A k \in 1..Len(m) : x[k] = b[off + k]
  BY <1>1
<1> HIDE DEF x
<1>4. \A k \in 1..Len(m) : x[k] = m[k]
  BY <1>3 DEF Stands
<1>5. x = m
  BY <1>3, <1>4, SMTT(30)
<1> QED
  BY <1>2, <1>5 DEF x

LEMMA StandsLE ==
  ASSUME NEW b \in Seq(Byte), NEW off \in Nat, NEW w \in Nat, NEW u \in 0..(Span(w) - 1),
         Stands(b, off, LE(u, w))
  PROVE  GetLE(b, off, w) = u
<1>1. u \in Nat
  BY SpanStep
<1>2. LE(u, w) \in Seq(Byte) /\ Len(LE(u, w)) = w
  BY <1>1, LEDigits
<1>3. At(b, off, w) = LE(u, w)
  BY <1>2, StandsAt
<1> QED
  BY <1>3, LERoundTrip DEF GetLE

LEMMA StandsConcat ==
  ASSUME NEW b \in Seq(Byte), NEW off \in Nat, NEW x \in Seq(Byte), NEW y \in Seq(Byte),
         Stands(b, off, x \o y)
  PROVE  Stands(b, off, x) /\ Stands(b, off + Len(x), y)
<1> DEFINE z == x \o y
<1>1. /\ Len(z) = Len(x) + Len(y) /\ Len(x) \in Nat /\ Len(y) \in Nat
      /\ \A k \in 1..Len(x) : z[k] = x[k]
      /\ \A k \in 1..Len(y) : z[Len(x) + k] = y[k]
  OBVIOUS
<1>2. off + Len(z) <= Len(b) /\ \A k \in 1..Len(z) : b[off + k] = z[k]
  BY DEF Stands
<1> HIDE DEF z
<1>3. Stands(b, off, x)
  <2>1. off + Len(x) <= Len(b)
    BY <1>1, <1>2
  <2>2. ASSUME NEW k \in 1..Len(x)  PROVE b[off + k] = x[k]
    BY <1>1, <1>2
  <2> QED
    BY <2>1, <2>2 DEF Stands
<1>4. Stands(b, off + Len(x), y)
  <2>1. (off + Len(x)) + Len(y) <= Len(b)
    BY <1>1, <1>2
  <2>2. ASSUME NEW k \in 1..Len(y)  PROVE b[(off + Len(x)) + k] = y[k]
    <3>1. Len(x) + k \in 1..Len(z) /\ (off + Len(x)) + k = off + (Len(x) + k)
      BY <1>1
    <3> QED
      BY <1>1, <1>2, <3>1
  <2> QED
    BY <2>1, <2>2 DEF Stands
<1> QED
  BY <1>3, <1>4

LEMMA StandsWhole ==
  ASSUME NEW b \in Seq(Byte)
  PROVE  Stands(b, 0, b)
<1>1. Len(b) \in Nat
  OBVIOUS
<1> QED
  BY <1>1 DEF Stands

LEMMA VarIntBytes ==
  ASSUME NEW u \in 0..(Span(W64) - 1)
  PROVE  BitWVarIntSet(u) \in Seq(Byte) /\ BitWVarIntSize(u) \in Nat /\ BitWVarIntSize(u) > 0
<1>1. PICK h \in Byte, n \in Nat : BitWVarIntSet(u) = <<h>> \o LE(u, n)
  BY VarIntWritten
<1>2. u \in Nat
  BY WidthAssumption, SpanStep
<1>3. LE(u, n) \in Seq(Byte) /\ Len(LE(u, n)) = n
  BY <1>2, LEDigits
<1> DEFINE m == LE(u, n)
<1> HIDE DEF m
<1>4. <<h>> \o m \in Seq(Byte) /\ Len(<<h>> \o m) = 1 + n
  BY <1>3 DEF m
<1> QED
  BY <1>1, <1>4 DEF m, BitWVarIntSize

LEMMA StandsVarInt ==
  ASSUME NEW b \in Seq(Byte), NEW off \in Nat, NEW u \in 0..(Span(W64) - 1),
         Stands(b, off, BitWVarIntSet(u))
  PROVE  BitWVarInt(b, off) = [value |-> u, len |-> BitWVarIntSize(u)]
<1>1. PICK h \in Byte, n \in Nat :
           /\ BitWVarIntSet(u) = <<h>> \o LE(u, n)
           /\ VarIntWidth(h) = n
           /\ n = 0 => h = u
           /\ n # 0 => u \in 0..(Span(n) - 1)
  BY VarIntWritten
<1>2. u \in Nat
  BY WidthAssumption, SpanStep
<1>3. LE(u, n) \in Seq(Byte) /\ Len(LE(u, n)) = n
  BY <1>2, LEDigits
<1> DEFINE m == LE(u, n)
           x == <<h>>
<1>4. x \in Seq(Byte) /\ Len(x) = 1
  OBVIOUS
<1> HIDE DEF m
<1>5. m \in Seq(Byte) /\ Len(m) = n
  BY <1>3 DEF m
<1>6. Stands(b, off, x) /\ Stands(b, off + 1, m)
  <2> HIDE DEF x
  <2>1. Stands(b, off, x \o m)
    BY <1>1 DEF x, m
  <2> QED
    BY <1>4, <1>5, <2>1, StandsConcat
<1>7. GetLE(b, off, 1) = h
  <2>1. At(b, off, 1) = x
    <3> HIDE DEF x
    <3> QED
      BY <1>4, <1>6, StandsAt
  <2>2. h \in Nat
    BY BitsFacts DEF Byte
  <2> QED
    BY <2>1, <2>2, ValueOfByte DEF GetLE
<1>8. n # 0 => GetLE(b, off + 1, n) = u
  <2> SUFFICES ASSUME n # 0  PROVE GetLE(b, off + 1, n) = u
    OBVIOUS
  <2>1. Stands(b, off + 1, LE(u, n)) /\ off + 1 \in Nat
    BY <1>6 DEF m
  <2>2. u \in 0..(Span(n) - 1)
    BY <1>1
  <2> QED
    BY <2>1, <2>2, StandsLE
<1>9. BitWVarIntSize(u) = 1 + n
  <2>1. Len(x \o m) = 1 + n
    BY <1>5
  <2> QED
    BY <1>1, <2>1 DEF BitWVarIntSize, m
<1>10. VarIntBehind(h, b, off + 1) = [value |-> u, len |-> 1 + n]
  BY <1>1, <1>8 DEF VarIntBehind
<1> QED
  BY <1>7, <1>9, <1>10 DEF BitWVarInt

(* In what a list is written as, each string stands behind those before it.*)
LEMMA StandsFlatten ==
  ASSUME NEW b \in Seq(Byte), NEW off \in Nat, NEW seqs \in Seq(Seq(Byte)), NEW f,
         Accumulates(f, seqs, Byte), Stands(b, off, f[Len(seqs)])
  PROVE  \A k \in 1..Len(seqs) : Stands(b, off + Len(f[k - 1]), seqs[k])
<1> DEFINE n == Len(seqs)
           S == {k \in 0..n : Stands(b, off, f[n - k])}
<1>1. n \in Nat /\ \A k \in 1..n : seqs[k] \in Seq(Byte)
  OBVIOUS
<1>2. /\ f \in [0..n -> Seq(Byte)]
      /\ \A k \in 1..n : f[k] = f[k - 1] \o seqs[k]
  BY DEF Accumulates
<1> HIDE DEF n
<1>3. ASSUME NEW k \in 1..n, Stands(b, off, f[k])
      PROVE  Stands(b, off, f[k - 1]) /\ Stands(b, off + Len(f[k - 1]), seqs[k])
  <2>1. f[k - 1] \in Seq(Byte) /\ seqs[k] \in Seq(Byte) /\ f[k] = f[k - 1] \o seqs[k]
    <3>1. k - 1 \in 0..n
      BY <1>1
    <3>2. f[k - 1] \in Seq(Byte)
      BY <1>2, <3>1
    <3> QED
      BY <1>1, <1>2, <3>2, Zenon
  <2> QED
    BY <1>3, <2>1, StandsConcat
<1>4. 0 \in S
  BY <1>1 DEF n
<1>5. ASSUME NEW k \in 1..n, k - 1 \in S  PROVE k \in S
  <2>1. n - (k - 1) \in 1..n /\ (n - (k - 1)) - 1 = n - k
    BY <1>1
  <2> QED
    BY <1>3, <1>5, <2>1
<1>6. \A k \in 0..n : k \in S
  <2> HIDE DEF S
  <2> QED
    BY <1>1, <1>4, <1>5, AllUpTo
<1>7. ASSUME NEW k \in 1..n  PROVE Stands(b, off, f[k])
  <2>1. n - k \in 0..n /\ n - (n - k) = k
    BY <1>1
  <2> QED
    BY <1>6, <2>1
<1> QED
  BY <1>3, <1>7 DEF n
=============================================================================
