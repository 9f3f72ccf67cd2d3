------------------------------ MODULE SPVProof ------------------------------
(***************************************************************************)
(* Why a wallet that follows the chain through a peer misses nothing: what *)
(* it puts into its filter is matched by the filter the peer reads, and    *)
(* what the peer matches is found in the tree it sends back.  And why the  *)
(* headers the wallet accepts carry the work they claim.                   *)
(***************************************************************************)
EXTENDS SPV, BytesProof

-----------------------------------------------------------------------------
(* Bits.                                                                   *)

(* What one more bit does to a byte: that bit is set, the others are kept. *)
LEMMA BitAdded ==
  ASSUME NEW b \in Nat, NEW i \in Nat, NEW j \in Nat, (b \div Power(i)) % 2 = 0
  PROVE  ((b + Power(i)) \div Power(j)) % 2 =
           IF i = j THEN 1 ELSE (b \div Power(j)) % 2
<1> DEFINE p == Power(i)
           q == b \div p
           r == b % p
<1>1. p \in Nat /\ p > 0
  BY PowerLarge
<1>2. q \in Nat /\ r \in 0..(p - 1) /\ b = p * q + r
  BY <1>1, ModFacts
<1>3. (b + p) \div p = q + 1
  <2> DEFINE c == b + p
             d == c \div p
             e == c % p
  <2>1. c \in Nat
    BY <1>1
  <2> HIDE DEF c, p
  <2>2. d \in Nat /\ e \in 0..(p - 1) /\ c = p * d + e
    BY <1>1, <2>1, ModFacts
  <2> HIDE DEF d, e, q, r
  <2>3. c = p * (q + 1) + r
    BY <1>1, <1>2 DEF c
  <2>4. d = q + 1
    BY <1>1, <1>2, <2>2, <2>3, DivUnique
  <2> QED
    BY <2>4 DEF c, d
<1>4. q % 2 = 0
  OBVIOUS
<1>5. CASE i = j
  <2> HIDE DEF q
  <2>1. (q + 1) % 2 = 1
    BY <1>2, <1>4
  <2> QED
    BY <1>3, <1>5, <2>1
<1>6. CASE j < i
  <2> DEFINE s == Power(j)
             t == Power(i - j - 1)
             u == b \div s
             v == b % s
  <2>1. /\ i - j - 1 \in Nat /\ (j + 1) + (i - j - 1) = i
        /\ s \in Nat /\ s > 0 /\ Power(j + 1) = 2 * s
    BY <1>6, PowerLarge, PowerStep
  <2>2. t \in Nat /\ p = (2 * s) * t
    <3>1. t \in Nat
      BY <2>1, PowerLarge
    <3>2. Power((j + 1) + (i - j - 1)) = Power(j + 1) * t
      BY <2>1, PowerAdd
    <3> QED
      BY <2>1, <3>1, <3>2
  <2>3. u \in Nat /\ v \in 0..(s - 1) /\ b = s * u + v
    BY <2>1, ModFacts
  <2> DEFINE c == b + p
             d == c \div s
             e == c % s
  <2>4. c \in Nat
    BY <1>1
  <2> HIDE DEF c, s
  <2>5. d \in Nat /\ e \in 0..(s - 1) /\ c = s * d + e
    BY <2>1, <2>4, ModFacts
  <2> HIDE DEF d, e, u, v, t, p
  <2>6. c = s * (u + 2 * t) + v
    <3>1. s * (u + 2 * t) = s * u + (2 * s) * t
      BY <2>1, <2>2, <2>3
    <3> QED
      BY <2>1, <2>2, <2>3, <3>1 DEF c
  <2>7. d = u + 2 * t
    <3> DEFINE w == u + 2 * t
    <3>1. w \in Int /\ s * d + e = s * w + v /\ d \in Int
      BY <2>2, <2>3, <2>5, <2>6
    <3> HIDE DEF w
    <3>2. d = w
      BY <2>1, <2>3, <2>5, <3>1, DivUnique
    <3> QED
      BY <3>2 DEF w
  <2>8. (u + 2 * t) % 2 = u % 2
    BY <2>2, <2>3
  <2>9. ((b + p) \div s) % 2 = (b \div s) % 2
    BY <2>7, <2>8 DEF c, d, u
  <2> QED
    BY <1>6, <2>9 DEF s, p
<1>7. CASE j > i
  <2> DEFINE n == p * 2
             m == Power(j - i - 1)
  <2>1. j - i - 1 \in Nat /\ (i + 1) + (j - i - 1) = j /\ Power(i + 1) = 2 * p
    BY <1>7, PowerStep
  <2>2. /\ n \in Nat /\ n > 0 /\ n = Power(i + 1)
        /\ m \in Nat /\ m > 0 /\ Power(j) = n * m
    <3>1. m \in Nat /\ m > 0
      BY <2>1, PowerLarge
    <3>2. Power((i + 1) + (j - i - 1)) = Power(i + 1) * m
      BY <2>1, PowerAdd
    <3> QED
      BY <1>1, <2>1, <3>1, <3>2
  <2>3. b \div n = q \div 2 /\ (b + p) \div n = (q + 1) \div 2
    <3>1. b \div (p * 2) = (b \div p) \div 2
      BY <1>1, DivDiv
    <3>2. b + p \in Nat
      BY <1>1
    <3>3. (b + p) \div (p * 2) = ((b + p) \div p) \div 2
      BY <1>1, <3>2, DivDiv
    <3> QED
      BY <1>3, <3>1, <3>3
  <2>4. (q + 1) \div 2 = q \div 2
    <3> HIDE DEF q
    <3> QED
      BY <1>2, <1>4
  <2>5. b \div (n * m) = (b \div n) \div m /\ (b + p) \div (n * m) = ((b + p) \div n) \div m
    <3>1. b + p \in Nat
      BY <1>1
    <3> HIDE DEF n, m, p
    <3> QED
      BY <2>2, <3>1, DivDiv
  <2>6. (b + p) \div Power(j) = b \div Power(j)
    BY <2>2, <2>3, <2>4, <2>5
  <2> QED
    BY <1>7, <2>6
<1> QED
  BY <1>5, <1>6, <1>7

(* The byte a bit is in, and its place there.                              *)
ByteOf(i) == (i \div BITS) + 1
PlaceOf(i) == i % BITS
Indices(n) == 0..(n * BITS - 1)

LEMMA IndexFacts ==
  ASSUME NEW n \in Nat, NEW i \in Indices(n)
  PROVE  /\ ByteOf(i) \in 1..n /\ PlaceOf(i) \in Nat /\ i \in Nat
         /\ i = BITS * (ByteOf(i) - 1) + PlaceOf(i)
<1> DEFINE q == i \div BITS
           r == i % BITS
<1>1. BITS \in Nat /\ BITS > 0 /\ i \in Nat /\ i \in 0..(n * BITS - 1)
  BY BitsFacts DEF Indices
<1>2. q \in Nat /\ r \in 0..(BITS - 1) /\ i = BITS * q + r
  BY <1>1, ModFacts
<1>3. ByteOf(i) = q + 1 /\ PlaceOf(i) = r
  BY DEF ByteOf, PlaceOf
<1> HIDE DEF q, r
<1>4. q < n
  <2> SUFFICES ASSUME q >= n  PROVE FALSE
    BY <1>2
  <2>1. BITS * (q - n) >= 0
    BY <1>1, <1>2
  <2>2. BITS * (q - n) = BITS * q - n * BITS
    BY <1>1, <1>2
  <2>3. n * BITS \in Nat /\ BITS * q \in Nat
    BY <1>1, <1>2
  <2> DEFINE x == BITS * q
             y == n * BITS
             z == BITS * (q - n)
  <2>4. z >= 0 /\ z = x - y /\ i = x + r /\ i \in 0..(y - 1) /\ x \in Nat /\ y \in Nat
    BY <1>1, <1>2, <2>1, <2>2, <2>3
  <2> HIDE DEF x, y, z
  <2> QED
    BY <1>2, <2>4
<1>5. ByteOf(i) - 1 = q
  BY <1>2, <1>3
<1> QED
  BY <1>1, <1>2, <1>3, <1>4, <1>5

LEMMA BitFacts ==
  ASSUME NEW bytes \in Seq(Nat), NEW i \in Indices(Len(bytes))
  PROVE  /\ Len(bytes) \in Nat /\ ByteOf(i) \in 1..Len(bytes) /\ PlaceOf(i) \in Nat
         /\ bytes[ByteOf(i)] \in Nat
         /\ Bit(bytes, i) = (bytes[ByteOf(i)] \div Power(PlaceOf(i))) % 2
         /\ Bit(bytes, i) \in {0, 1}
<1>1. Len(bytes) \in Nat
  OBVIOUS
<1>2. ByteOf(i) \in 1..Len(bytes) /\ PlaceOf(i) \in Nat
  BY <1>1, IndexFacts
<1>3. Bit(bytes, i) = (bytes[ByteOf(i)] \div Power(PlaceOf(i))) % 2
  BY DEF Bit, Power, ByteOf, PlaceOf
<1> DEFINE b == bytes[ByteOf(i)]
           p == Power(PlaceOf(i))
<1>4. b \in Nat
  BY <1>2
<1>5. p \in Nat /\ p > 0
  BY <1>2, PowerLarge
<1> HIDE DEF b, p
<1>6. b \div p \in Nat
  BY <1>4, <1>5, ModFacts
<1>7. (b \div p) % 2 \in {0, 1}
  <2> DEFINE c == b \div p
  <2> HIDE DEF c
  <2>1. c \in Nat => c % 2 \in {0, 1}
    OBVIOUS
  <2> QED
    BY <1>6, <2>1 DEF c
<1> QED
  BY <1>1, <1>2, <1>3, <1>4, <1>7 DEF b, p

(* Setting a bit keeps the others.                                         *)
LEMMA SetBitSets ==
  ASSUME NEW bytes \in Seq(Nat), NEW i \in Indices(Len(bytes))
  PROVE  /\ SetBit(bytes, i) \in Seq(Nat) /\ Len(SetBit(bytes, i)) = Len(bytes)
         /\ \A j \in Indices(Len(bytes)) :
              Bit(SetBit(bytes, i), j) = IF j = i THEN 1 ELSE Bit(bytes, j)
<1> DEFINE n == Len(bytes)
           k == ByteOf(i)
           e == PlaceOf(i)
           new == SetBit(bytes, i)
<1>1. /\ n \in Nat /\ k \in 1..n /\ e \in Nat /\ bytes[k] \in Nat
      /\ Bit(bytes, i) = (bytes[k] \div Power(e)) % 2 /\ Bit(bytes, i) \in {0, 1}
  BY BitFacts
<1>2. Power(e) \in Nat
  BY <1>1, PowerLarge
<1>3. new = [m \in 1..n |-> IF m = k /\ Bit(bytes, i) = 0 THEN bytes[m] + Power(e) ELSE bytes[m]]
  BY DEF SetBit, Power, ByteOf, PlaceOf
<1>4. \A m \in 1..n : new[m] = IF m = k /\ Bit(bytes, i) = 0 THEN bytes[m] + Power(e) ELSE bytes[m]
  BY <1>3
<1>5. new \in Seq(Nat) /\ Len(new) = n
  <2>1. new = [m \in 1..n |-> new[m]]
    BY <1>3
  <2>2. \A m \in 1..n : bytes[m] \in Nat
    OBVIOUS
  <2> HIDE DEF new, n, k, e
  <2>3. \A m \in 1..n : new[m] \in Nat
    BY <1>1, <1>2, <1>4, <2>2
  <2>4. new \in [1..n -> Nat]
    BY <2>1, <2>3
  <2> QED
    BY <1>1, <2>4
<1>6. ASSUME NEW j \in Indices(n)
      PROVE  Bit(new, j) = IF j = i THEN 1 ELSE Bit(bytes, j)
  <2> DEFINE l == ByteOf(j)
             f == PlaceOf(j)
  <2>1. /\ l \in 1..n /\ f \in Nat /\ bytes[l] \in Nat
        /\ Bit(bytes, j) = (bytes[l] \div Power(f)) % 2
    BY BitFacts
  <2>2. Bit(new, j) = (new[l] \div Power(f)) % 2
    <3>1. j \in Indices(Len(new))
      BY <1>5
    <3> HIDE DEF new
    <3> QED
      BY <1>5, <3>1, BitFacts
  <2>3. j = BITS * (l - 1) + f /\ i = BITS * (k - 1) + e
    <3>1. i \in Indices(n)
      OBVIOUS
    <3> HIDE DEF n
    <3> QED
      BY <1>1, <3>1, IndexFacts
  <2>4. i = j => l = k /\ e = f
    OBVIOUS
  <2> HIDE DEF new, k, l, e, f, n
  <2>5. CASE l # k
    BY <1>4, <2>1, <2>2, <2>4, <2>5
  <2>6. CASE l = k /\ Bit(bytes, i) = 0
    <3>1. new[k] = bytes[k] + Power(e)
      BY <1>1, <1>4, <2>6
    <3>2. ((bytes[k] + Power(e)) \div Power(f)) % 2 =
             IF e = f THEN 1 ELSE (bytes[k] \div Power(f)) % 2
      <4>1. (bytes[k] \div Power(e)) % 2 = 0
        BY <1>1, <2>6
      <4> QED
        BY <1>1, <2>1, <4>1, BitAdded
    <3>3. e = f <=> j = i
      BY <2>3, <2>4, <2>6
    <3> QED
      BY <2>1, <2>2, <2>6, <3>1, <3>2, <3>3
  <2>7. CASE l = k /\ Bit(bytes, i) = 1
    <3>1. new[k] = bytes[k]
      BY <1>1, <1>4, <2>7
    <3>2. Bit(new, j) = Bit(bytes, j)
      BY <2>1, <2>2, <2>7, <3>1
    <3> QED
      BY <2>7, <3>2
  <2> QED
    BY <1>1, <2>5, <2>6, <2>7
<1> QED
  BY <1>5, <1>6

-----------------------------------------------------------------------------
(* The filter.                                                             *)

(* Seq(Nat) of one length.                                                 *)
OfLength(n) == {s \in Seq(Nat) : Len(s) = n}

(* Inserting sets the bits of all hash functions and keeps those set.      *)
LEMMA BitsSetFacts ==
  ASSUME NEW f, NEW data, NEW n \in Nat, f.filter \in Seq(Nat),
         \A i \in 0..(n - 1) : BloomFilterHash(f, data, i) \in Indices(Len(f.filter))
  PROVE  /\ BitsSet(f, data, n) \in Seq(Nat)
         /\ Len(BitsSet(f, data, n)) = Len(f.filter)
         /\ \A j \in Indices(Len(f.filter)) :
              Bit(BitsSet(f, data, n), j) = 1 <=>
                Bit(f.filter, j) = 1 \/ \E i \in 0..(n - 1) : BloomFilterHash(f, data, i) = j
<1> DEFINE base == f.filter
           L == Len(base)
           h(i) == BloomFilterHash(f, data, i)
           G == OfLength(L)
           X == [i \in 0..n |-> G]
           step == [i \in 1..n |-> [g \in G |-> SetBit(g, h(i - 1))]]
           P(b) == b = [i \in 0..n |-> IF i = 0 THEN f.filter
                                       ELSE SetBit(b[i - 1], BloomFilterHash(f, data, i - 1))]
<1>1. base \in G
  BY DEF OfLength
<1>2. ASSUME NEW g \in G, NEW i \in 0..(n - 1)
      PROVE  /\ SetBit(g, h(i)) \in G
             /\ \A j \in Indices(L) : Bit(SetBit(g, h(i)), j) = IF j = h(i) THEN 1 ELSE Bit(g, j)
  <2>1. h(i) \in Indices(L)
    OBVIOUS
  <2>2. g \in Seq(Nat) /\ Len(g) = L
    BY DEF OfLength
  <2> HIDE DEF h, L
  <2> QED
    BY <2>1, <2>2, SetBitSets DEF OfLength
<1> HIDE DEF h, G, L
<1>3. \E b : P(b)
  <2>1. X \in [0..n -> SUBSET G] /\ base \in X[0]
    BY <1>1
  <2>2. Goes(n, X, step)
    <3> SUFFICES ASSUME NEW i \in 1..n, NEW g \in X[i - 1]  PROVE step[i][g] \in X[i]
      BY DEF Goes
    <3>1. g \in G /\ i - 1 \in 0..(n - 1)
      OBVIOUS
    <3>2. SetBit(g, h(i - 1)) \in G
      BY <1>2, <3>1
    <3> QED
      BY <3>1, <3>2
  <2> HIDE DEF X, step, base
  <2>3. PICK b : Recursive(b, n, G, X, base, step)
    BY <2>1, <2>2, RecursionTo
  <2>4. ASSUME NEW i \in 0..n
        PROVE  b[i] = IF i = 0 THEN base ELSE SetBit(b[i - 1], h(i - 1))
    <3>1. CASE i = 0
      BY <2>3, <3>1 DEF Recursive
    <3>2. CASE i # 0
      <4>1. i \in 1..n /\ i - 1 \in 0..n
        BY <3>2
      <4>2. b[i] = step[i][b[i - 1]] /\ b[i - 1] \in X[i - 1]
        BY <2>3, <4>1 DEF Recursive
      <4>3. b[i - 1] \in G
        BY <4>1, <4>2 DEF X
      <4> QED
        BY <3>2, <4>1, <4>2, <4>3 DEF step
    <3> QED
      BY <3>1, <3>2
  <2>5. b = [i \in 0..n |-> b[i]]
    BY <2>3 DEF Recursive
  <2>6. b = [i \in 0..n |-> IF i = 0 THEN base ELSE SetBit(b[i - 1], h(i - 1))]
    BY <2>4, <2>5, Zenon
  <2> QED
    BY <2>6 DEF base, h
<1>4. BitsSet(f, data, n) = (CHOOSE b : P(b))[n]
  BY DEF BitsSet
<1> HIDE DEF P
<1>5. PICK b : P(b) /\ BitsSet(f, data, n) = b[n]
  BY <1>3, <1>4
<1>6. b[0] = base /\ \A i \in 1..n : b[i] = SetBit(b[i - 1], h(i - 1))
  BY <1>5 DEF P, h
<1> DEFINE Set(s, k) == \A j \in Indices(L) :
                          Bit(s, j) = 1 <=> Bit(base, j) = 1 \/ \E i \in 0..(k - 1) : h(i) = j
           S == {k \in 0..n : b[k] \in G /\ Set(b[k], k)}
<1>7. 0 \in S
  BY <1>1, <1>6
<1>8. ASSUME NEW k \in 1..n, k - 1 \in S  PROVE k \in S
  <2>1. b[k - 1] \in G /\ Set(b[k - 1], k - 1) /\ k - 1 \in 0..(n - 1)
    BY <1>8
  <2>2. b[k] = SetBit(b[k - 1], h(k - 1))
    BY <1>6
  <2>3. b[k] \in G /\ \A j \in Indices(L) : Bit(b[k], j) = IF j = h(k - 1) THEN 1 ELSE Bit(b[k - 1], j)
    BY <1>2, <2>1, <2>2
  <2>4. ASSUME NEW j \in Indices(L)
        PROVE  (\E i \in 0..(k - 1) : h(i) = j) <=> h(k - 1) = j \/ \E i \in 0..((k - 1) - 1) : h(i) = j
    <3>1. \A i \in 0..(k - 1) : i = k - 1 \/ i \in 0..((k - 1) - 1)
      OBVIOUS
    <3>2. \A i \in 0..((k - 1) - 1) : i \in 0..(k - 1)
      OBVIOUS
    <3>3. k - 1 \in 0..(k - 1)
      OBVIOUS
    <3> QED
      BY <3>1, <3>2, <3>3
  <2>5. Set(b[k], k)
    BY <2>1, <2>3, <2>4
  <2> QED
    BY <2>3, <2>5
<1>9. n \in S
  <2> HIDE DEF S
  <2>1. \A k \in 0..n : k \in S
    BY <1>7, <1>8, AllUpTo
  <2> QED
    BY <2>1
<1>10. b[n] \in G /\ Set(b[n], n)
  BY <1>9
<1> QED
  BY <1>5, <1>10 DEF G, OfLength, h, L

-----------------------------------------------------------------------------
(* The flags of a merkle block.                                            *)
LEMMA PackedFacts ==
  ASSUME NEW bits \in Seq({0, 1})
  PROVE  /\ Packed(bits) \in Seq(Nat)
         /\ \A j \in 0..(Len(bits) - 1) :
              /\ j \in Indices(Len(Packed(bits)))
              /\ Bit(Packed(bits), j) = bits[j + 1]
<1> DEFINE n == Len(bits)
           L == (n + BITS - 1) \div BITS
           G == OfLength(L)
           X == [i \in 0..n |-> G]
           next(i, g) == IF bits[i] = 1 THEN SetBit(g, i - 1) ELSE g
           step == [i \in 1..n |-> [g \in G |-> next(i, g)]]
           P(b) == b = [k \in 0..n |-> IF k = 0 THEN Zeros(L)
                                       ELSE IF bits[k] = 1 THEN SetBit(b[k - 1], k - 1) ELSE b[k - 1]]
<1>1. n \in Nat /\ \A k \in 1..n : bits[k] \in {0, 1}
  OBVIOUS
<1>2. L \in Nat /\ \A j \in 0..(n - 1) : j \in Indices(L)
  <2> DEFINE m == n + BITS - 1
             q == m \div BITS
             r == m % BITS
  <2>1. m \in Nat /\ BITS \in Nat /\ BITS > 0
    BY <1>1, BitsFacts
  <2> HIDE DEF m
  <2>2. q \in Nat /\ r \in 0..(BITS - 1) /\ m = BITS * q + r
    BY <2>1, ModFacts
  <2>3. L = q
    BY DEF m
  <2> HIDE DEF q, r, n, L
  <2> DEFINE x == q * BITS
  <2>4. x \in Nat /\ m = x + r
    BY <2>1, <2>2
  <2> HIDE DEF x
  <2>5. x >= n
    BY <1>1, <2>1, <2>2, <2>4 DEF m
  <2>6. \A j \in 0..(n - 1) : j \in 0..(x - 1)
    BY <1>1, <2>4, <2>5
  <2> QED
    BY <2>2, <2>3, <2>6 DEF Indices, x
<1> HIDE DEF L, n
<1>3. Zeros(L) \in G /\ \A j \in Indices(L) : Bit(Zeros(L), j) = 0
  <2> DEFINE z == Zeros(L)
  <2>1. z = [k \in 1..L |-> 0]
    BY DEF Zeros
  <2>2. z \in Seq(Nat) /\ Len(z) = L /\ \A k \in 1..L : z[k] = 0
    BY <1>2, <2>1
  <2> HIDE DEF z
  <2>3. ASSUME NEW j \in Indices(L)  PROVE Bit(z, j) = 0
    <3>1. ByteOf(j) \in 1..L /\ PlaceOf(j) \in Nat /\ Bit(z, j) = (z[ByteOf(j)] \div Power(PlaceOf(j))) % 2
      BY <2>2, BitFacts
    <3> DEFINE p == Power(PlaceOf(j))
    <3>2. p \in Nat /\ p > 0
      BY <3>1, PowerLarge
    <3> HIDE DEF p
    <3>3. (0 \div p) % 2 = 0
      <4>1. 0 \div p = 0
        BY <3>2, SmallMod
      <4> QED
        BY <4>1
    <3> QED
      BY <2>2, <3>1, <3>3 DEF p
  <2> QED
    BY <2>2, <2>3 DEF OfLength, z
<1>4. ASSUME NEW g \in G, NEW i \in 1..n
      PROVE  /\ next(i, g) \in G
             /\ \A j \in Indices(L) :
                  Bit(next(i, g), j) = IF bits[i] = 1 /\ j = i - 1 THEN 1 ELSE Bit(g, j)
  <2>1. i - 1 \in 0..(n - 1)
    BY <1>1
  <2>2. i - 1 \in Indices(L)
    BY <1>2, <2>1
  <2>3. g \in Seq(Nat) /\ Len(g) = L
    BY DEF OfLength
  <2> DEFINE k == i - 1
  <2> HIDE DEF k
  <2>4. /\ SetBit(g, k) \in G
        /\ \A j \in Indices(L) : Bit(SetBit(g, k), j) = IF j = k THEN 1 ELSE Bit(g, j)
    BY <2>2, <2>3, SetBitSets DEF OfLength, k
  <2> QED
    BY <2>4 DEF k
<1> HIDE DEF G
<1>5. \E b : P(b)
  <2>1. X \in [0..n -> SUBSET G] /\ Zeros(L) \in X[0]
    BY <1>1, <1>3
  <2>2. Goes(n, X, step)
    <3> SUFFICES ASSUME NEW i \in 1..n, NEW g \in X[i - 1]  PROVE step[i][g] \in X[i]
      BY DEF Goes
    <3>1. g \in G
      BY <1>1
    <3>2. next(i, g) \in G
      BY <1>4, <3>1
    <3> QED
      BY <3>1, <3>2
  <2> HIDE DEF X, step, next
  <2>3. PICK b : Recursive(b, n, G, X, Zeros(L), step)
    BY <1>1, <2>1, <2>2, RecursionTo
  <2>4. ASSUME NEW i \in 0..n
        PROVE  b[i] = IF i = 0 THEN Zeros(L) ELSE next(i, b[i - 1])
    <3>1. CASE i = 0
      BY <2>3, <3>1 DEF Recursive
    <3>2. CASE i # 0
      <4>1. i \in 1..n /\ i - 1 \in 0..n
        BY <1>1, <3>2
      <4>2. b[i] = step[i][b[i - 1]] /\ b[i - 1] \in X[i - 1]
        BY <2>3, <4>1 DEF Recursive
      <4>3. b[i - 1] \in G
        BY <4>1, <4>2 DEF X
      <4> QED
        BY <3>2, <4>1, <4>2, <4>3 DEF step
    <3> QED
      BY <3>1, <3>2
  <2>5. b = [i \in 0..n |-> b[i]]
    BY <2>3 DEF Recursive
  <2>6. b = [i \in 0..n |-> IF i = 0 THEN Zeros(L) ELSE next(i, b[i - 1])]
    BY <2>4, <2>5, Zenon
  <2> QED
    BY <2>6 DEF next
<1>6. Packed(bits) = (CHOOSE b : P(b))[n]
  BY DEF Packed, n, L
<1> HIDE DEF P
<1>7. PICK b : P(b) /\ Packed(bits) = b[n]
  BY <1>5, <1>6
<1>8. b[0] = Zeros(L) /\ \A i \in 1..n : b[i] = next(i, b[i - 1])
  BY <1>1, <1>7 DEF P
<1> HIDE DEF next
<1> DEFINE Set(s, k) == \A j \in Indices(L) : Bit(s, j) = IF j < k THEN bits[j + 1] ELSE 0
           S == {k \in 0..n : b[k] \in G /\ Set(b[k], k)}
<1>9. \A j \in Indices(L) : j \in Nat
  BY DEF Indices
<1>10. 0 \in S
  BY <1>1, <1>3, <1>8, <1>9
<1>11. ASSUME NEW k \in 1..n, k - 1 \in S  PROVE k \in S
  <2>1. b[k - 1] \in G /\ Set(b[k - 1], k - 1) /\ b[k] = next(k, b[k - 1])
    BY <1>8, <1>11
  <2>2. /\ b[k] \in G
        /\ \A j \in Indices(L) :
             Bit(b[k], j) = IF bits[k] = 1 /\ j = k - 1 THEN 1 ELSE Bit(b[k - 1], j)
    BY <1>4, <2>1
  <2>3. ASSUME NEW j \in Indices(L)  PROVE Bit(b[k], j) = IF j < k THEN bits[j + 1] ELSE 0
    <3>1. CASE j = k - 1
      <4>1. j + 1 = k /\ j < k /\ ~(j < k - 1)
        BY <1>1, <3>1
      <4>2. Bit(b[k - 1], j) = 0
        BY <2>1, <4>1
      <4> QED
        BY <1>1, <2>2, <3>1, <4>1, <4>2
    <3>2. CASE j # k - 1
      <4>1. (j < k <=> j < k - 1)
        BY <1>1, <1>9, <3>2
      <4> QED
        BY <2>1, <2>2, <3>2, <4>1
    <3> QED
      BY <3>1, <3>2
  <2> QED
    BY <2>2, <2>3
<1>12. n \in S
  <2> HIDE DEF S
  <2>1. \A k \in 0..n : k \in S
    BY <1>1, <1>10, <1>11, AllUpTo
  <2> QED
    BY <1>1, <2>1
<1>13. b[n] \in G /\ Set(b[n], n)
  BY <1>12
<1>14. b[n] \in Seq(Nat) /\ Len(b[n]) = L
  BY <1>13 DEF G, OfLength
<1>15. ASSUME NEW j \in 0..(n - 1)
       PROVE  j \in Indices(L) /\ Bit(b[n], j) = bits[j + 1]
  <2>1. j \in Indices(L) /\ j < n
    BY <1>1, <1>2
  <2> QED
    BY <1>13, <2>1
<1> QED
  BY <1>7, <1>14, <1>15 DEF n

-----------------------------------------------------------------------------
(* What the wallet sends and the peer reads.                               *)

Filters ==
  {f \in [filter : Seq(Nat), hashFuncs : 0..(Span(W32) - 1), elemCount : Nat,
          tweak : 0..(Span(W32) - 1), flags : {0}] :
     Len(f.filter) \in 1..BLOOM_MAX_FILTER_LENGTH}

LEMMA FilterFields ==
  ASSUME NEW f \in Filters
  PROVE  /\ f.filter \in Seq(Nat) /\ f.hashFuncs \in 0..(Span(W32) - 1)
         /\ f.elemCount \in Nat /\ f.tweak \in 0..(Span(W32) - 1) /\ f.flags = 0
         /\ f.hashFuncs \in Nat /\ f.tweak \in Nat
         /\ Len(f.filter) \in 1..BLOOM_MAX_FILTER_LENGTH /\ Len(f.filter) \in Nat
         /\ f = [filter |-> f.filter, hashFuncs |-> f.hashFuncs, elemCount |-> f.elemCount,
                 tweak |-> f.tweak, flags |-> f.flags]
BY DEF Filters

LEMMA WidthFacts ==
  /\ Span(W32) \in Nat /\ Span(W32) > 1 /\ Span(W32) <= Span(W64) /\ Span(W64) \in Nat
  /\ W32 \in Nat /\ W64 \in Nat /\ HASH \in Nat /\ W32 >= 3
<1>1. W16 \in Nat /\ W32 \in Nat /\ W64 \in Nat /\ HASH \in Nat /\ 1 < W16 /\ W16 < W32 /\ W32 < W64
  BY WidthAssumption
<1>2. Span(W32) \in Nat /\ Span(W64) \in Nat
  BY <1>1, SpanStep
<1>3. 2 * Span(W32) <= Span(W64) /\ 2 * Span(1) <= Span(W32)
  BY <1>1, SpanMonotone
<1> QED
  BY <1>1, <1>2, <1>3, SpanStep, BitsFacts

LEMMA NewFilterType ==
  ASSUME NEW rate \in Rates, NEW count \in Counts, NEW tweak \in Tweaks
  PROVE  BitWBloomFilterNew(rate, count, tweak, 0) \in Filters
<1> DEFINE bytes == (count * BitsPerElement(rate)) \div BITS
           length == IF bytes < 1 THEN 1 ELSE Min2(bytes, BLOOM_MAX_FILTER_LENGTH)
           funcs == (length * BITS * 69) \div (count * 100)
           hf == Min2(funcs, BLOOM_MAX_HASH_FUNCS)
<1>1. /\ count \in Nat /\ count > 0 /\ BitsPerElement(rate) \in Nat
      /\ tweak \in 0..(Span(W32) - 1)
      /\ BLOOM_MAX_FILTER_LENGTH \in Nat /\ BLOOM_MAX_FILTER_LENGTH >= 1
      /\ BLOOM_MAX_HASH_FUNCS \in 0..(Span(W32) - 1)
      /\ BITS \in Nat /\ BITS > 0 /\ Span(W32) \in Nat
  BY SPVAssumption, BloomAssumption, BitsFacts, WidthFacts
<1>2. bytes \in Nat
  <2> DEFINE x == count * BitsPerElement(rate)
  <2>1. x \in Nat
    BY <1>1
  <2> HIDE DEF x
  <2>2. x \div BITS \in Nat
    BY <1>1, <2>1, ModFacts
  <2> QED
    BY <2>2 DEF x
<1> HIDE DEF bytes
<1>3. length \in 1..BLOOM_MAX_FILTER_LENGTH
  BY <1>1, <1>2 DEF Min2
<1> HIDE DEF length
<1>4. funcs \in Nat
  <2> DEFINE x == length * BITS * 69
             y == count * 100
  <2>1. length * BITS \in Nat
    BY <1>1, <1>3
  <2>2. x \in Nat /\ y \in Nat /\ y > 0
    BY <1>1, <2>1
  <2> HIDE DEF x, y
  <2>3. x \div y \in Nat
    BY <2>2, ModFacts
  <2> QED
    BY <2>3 DEF x, y
<1> HIDE DEF funcs
<1>5. hf \in 0..(Span(W32) - 1)
  BY <1>1, <1>4 DEF Min2
<1>6. Zeros(length) \in Seq(Nat) /\ Len(Zeros(length)) = length
  BY <1>1, <1>3 DEF Zeros
<1> HIDE DEF hf
<1>7. BitWBloomFilterNew(rate, count, tweak, 0) =
        [filter |-> Zeros(length), hashFuncs |-> hf, elemCount |-> 0,
         tweak |-> tweak, flags |-> 0]
  BY DEF BitWBloomFilterNew, hf, funcs, length, bytes
<1> QED
  BY <1>1, <1>3, <1>5, <1>6, <1>7 DEF Filters

LEMMA HashIndex ==
  ASSUME NEW f \in Filters, NEW e \in Element, NEW i \in 0..(f.hashFuncs - 1)
  PROVE  BloomFilterHash(f, e, i) \in Indices(Len(f.filter))
<1> DEFINE seed == SeedOf(f, i)
           L == Len(f.filter)
           size == L * BITS
           m == Murmur3(e, seed)
<1>1. seed \in 0..(Span(W32) - 1)
  <2> DEFINE x == i * HASH_SEED + f.tweak
  <2>1. x \in Nat
    BY FilterFields DEF HASH_SEED
  <2> HIDE DEF x
  <2>2. x % Span(W32) \in 0..(Span(W32) - 1)
    BY <2>1, WidthFacts, ModFacts
  <2> QED
    BY <2>2 DEF SeedOf, x
<1>2. m \in Nat
  <2> HIDE DEF seed
  <2> QED
    BY <1>1, SPVAssumption
<1>3. L \in Nat /\ L >= 1
  BY FilterFields
<1> HIDE DEF m, L
<1>4. size \in Nat /\ size > 0
  BY <1>3, BitsFacts
<1> HIDE DEF size
<1>5. m % size \in 0..(size - 1)
  BY <1>2, <1>4, ModFacts
<1> QED
  BY <1>5 DEF BloomFilterHash, m, L, size, Indices, seed

(* An element that was inserted is contained, and stays so.                *)
LEMMA InsertFacts ==
  ASSUME NEW f \in Filters, NEW e \in Element
  PROVE  /\ BitWBloomFilterInsertData(f, e) \in Filters
         /\ BitWBloomFilterContainsData(BitWBloomFilterInsertData(f, e), e)
         /\ \A d \in Element : BitWBloomFilterContainsData(f, d) =>
              BitWBloomFilterContainsData(BitWBloomFilterInsertData(f, e), d)
<1> DEFINE n == f.hashFuncs
           r == BitsSet(f, e, n)
           g == BitWBloomFilterInsertData(f, e)
<1>1. /\ r \in Seq(Nat) /\ Len(r) = Len(f.filter)
      /\ \A j \in Indices(Len(f.filter)) :
           Bit(r, j) = 1 <=> Bit(f.filter, j) = 1 \/ \E i \in 0..(n - 1) : BloomFilterHash(f, e, i) = j
  <2>1. n \in Nat /\ f.filter \in Seq(Nat)
    BY FilterFields
  <2>2. \A i \in 0..(n - 1) : BloomFilterHash(f, e, i) \in Indices(Len(f.filter))
    BY HashIndex
  <2> HIDE DEF n
  <2> QED
    BY <2>1, <2>2, BitsSetFacts
<1> HIDE DEF r
<1>2. g = [filter |-> r, hashFuncs |-> n, elemCount |-> f.elemCount + 1,
           tweak |-> f.tweak, flags |-> f.flags]
  <2>1. g = [f EXCEPT !.filter = r, !.elemCount = f.elemCount + 1]
    BY DEF BitWBloomFilterInsertData, r
  <2>2. f \in [filter : Seq(Nat), hashFuncs : 0..(Span(W32) - 1), elemCount : Nat,
              tweak : 0..(Span(W32) - 1), flags : {0}]
    BY DEF Filters
  <2> HIDE DEF n, g
  <2> QED
    BY <2>1, <2>2 DEF n
<1>3. g \in Filters
  BY <1>1, <1>2, FilterFields DEF Filters
<1>4. \A d, i : BloomFilterHash(g, d, i) = BloomFilterHash(f, d, i)
  BY <1>1, <1>2 DEF BloomFilterHash, SeedOf
<1>5. \A d : BitWBloomFilterContainsData(g, d) <=>
        \A i \in 0..(n - 1) : Bit(r, BloomFilterHash(f, d, i)) = 1
  BY <1>2, <1>4 DEF BitWBloomFilterContainsData
<1>6. BitWBloomFilterContainsData(g, e)
  BY <1>1, <1>5, HashIndex
<1>7. ASSUME NEW d \in Element, BitWBloomFilterContainsData(f, d)
      PROVE  BitWBloomFilterContainsData(g, d)
  BY <1>1, <1>5, <1>7, HashIndex DEF BitWBloomFilterContainsData
<1> QED
  BY <1>3, <1>6, <1>7

(* Five strings in a row, seen from each of them.                          *)
InARow(S, a, b, c, d, e, s) ==
  /\ s \in Seq(S)
  /\ s = <<>> \o a \o (b \o (c \o (d \o e))) /\ b \o (c \o (d \o e)) \in Seq(S)
  /\ s = a \o b \o (c \o (d \o e)) /\ c \o (d \o e) \in Seq(S)
  /\ s = (a \o b) \o c \o (d \o e) /\ a \o b \in Seq(S) /\ d \o e \in Seq(S)
  /\ s = (a \o b \o c) \o d \o e /\ a \o b \o c \in Seq(S)
  /\ s = (a \o b \o c \o d) \o e \o <<>> /\ a \o b \o c \o d \in Seq(S)
  /\ Len(a \o b) = Len(a) + Len(b)
  /\ Len(a \o b \o c) = Len(a) + Len(b) + Len(c)
  /\ Len(a \o b \o c \o d) = Len(a) + Len(b) + Len(c) + Len(d)
  /\ Len(s) = Len(a) + Len(b) + Len(c) + Len(d) + Len(e)

LEMMA RowFacts ==
  ASSUME NEW S, NEW a \in Seq(S), NEW b \in Seq(S), NEW c \in Seq(S), NEW d \in Seq(S),
         NEW e \in Seq(S)
  PROVE  InARow(S, a, b, c, d, e, a \o b \o c \o d \o e)
<1> DEFINE x == a \o b
           y == x \o c
           z == y \o d
           s == z \o e
           u == d \o e
           v == c \o u
           w == b \o v
<1>1. x \in Seq(S) /\ Len(x) = Len(a) + Len(b)
  BY ConcatType
<1> HIDE DEF x
<1>2. y \in Seq(S) /\ Len(y) = Len(x) + Len(c)
  BY <1>1, ConcatType
<1> HIDE DEF y
<1>3. z \in Seq(S) /\ Len(z) = Len(y) + Len(d)
  BY <1>2, ConcatType
<1> HIDE DEF z
<1>4. s \in Seq(S) /\ Len(s) = Len(z) + Len(e) /\ s \o <<>> = s
  <2>1. s \in Seq(S) /\ Len(s) = Len(z) + Len(e)
    BY <1>3, ConcatType
  <2> HIDE DEF s
  <2> QED
    BY <2>1
<1>5. u \in Seq(S)
  BY ConcatType
<1>6. s = y \o u
  <2>1. (y \o d) \o e = y \o (d \o e)
    <3>1. y \in Seq(S)
      BY <1>2
    <3> HIDE DEF s, u, v, w
    <3> QED
      BY <3>1, SMTT(30)
  <2> QED
    BY <2>1, Zenon DEF z
<1> HIDE DEF s, u
<1>7. v \in Seq(S)
  BY <1>5, ConcatType
<1>8. y \o u = x \o v
  <2>1. (x \o c) \o u = x \o (c \o u)
    <3>1. x \in Seq(S)
      BY <1>1
    <3> HIDE DEF v, w
    <3> QED
      BY <1>5, <3>1, SMTT(30)
  <2> QED
    BY <2>1, Zenon DEF y
<1> HIDE DEF v
<1>9. w \in Seq(S) /\ <<>> \o a = a
  BY <1>7, ConcatType
<1>10. x \o v = a \o w
  <2>1. (a \o b) \o v = a \o (b \o v)
    BY <1>7
  <2> QED
    BY <2>1, Zenon DEF x
<1> HIDE DEF w
<1>11. /\ s = a \o w /\ s = x \o v /\ s = y \o u /\ s = z \o e /\ s = s \o <<>>
       /\ Len(y) = Len(a) + Len(b) + Len(c)
       /\ Len(z) = Len(a) + Len(b) + Len(c) + Len(d)
       /\ Len(s) = Len(a) + Len(b) + Len(c) + Len(d) + Len(e)
  BY <1>1, <1>2, <1>3, <1>4, <1>6, <1>8, <1>10 DEF s
<1> QED
  BY <1>1, <1>2, <1>3, <1>4, <1>5, <1>7, <1>9, <1>11, Zenon DEF InARow, s, u, v, w, x, y, z

(* The peer reads the filter the wallet has (BitWBloomFilterSerialize,     *)
(* BitWBloomFilterParse); the number of elements is not sent.              *)
THEOREM FilterRoundTrip ==
  ASSUME NEW f \in Filters
  PROVE  BitWBloomFilterParse(BitWBloomFilterSerialize(f)) = <<[f EXCEPT !.elemCount = 0]>>
<1> DEFINE F == f.filter
           V == BitWVarIntSet(Len(F))
           H == LE(f.hashFuncs, W32)
           T == LE(f.tweak, W32)
           G == <<f.flags>>
           buf == V \o F \o H \o T \o G
           end == Len(V) + Len(F)
<1>1. /\ F \in Seq(Nat) /\ f.hashFuncs \in 0..(Span(W32) - 1) /\ f.tweak \in 0..(Span(W32) - 1)
      /\ f.hashFuncs \in Nat /\ f.tweak \in Nat /\ f.flags = 0
      /\ Len(F) \in 1..BLOOM_MAX_FILTER_LENGTH /\ Len(F) \in Nat
      /\ W32 \in Nat /\ Byte \subseteq Nat /\ <<>> \in Seq(Nat)
  BY FilterFields, WidthFacts DEF Byte
<1>2. Len(F) \in 0..(Span(W64) - 1) /\ Len(F) <= BLOOM_MAX_FILTER_LENGTH
  BY <1>1, BloomAssumption, WidthFacts
<1>3. V \in Seq(Nat) /\ Len(V) \in Nat
  <2>1. V \in Seq(Byte)
    BY <1>1, <1>2, VarIntRoundTrip
  <2> HIDE DEF V
  <2>2. V \in Seq(Nat)
    BY <2>1, ByteSeq
  <2> QED
    BY <2>2
<1>4. H \in Seq(Nat) /\ Len(H) = W32 /\ T \in Seq(Nat) /\ Len(T) = W32
  <2>1. H \in Seq(Byte) /\ Len(H) = W32 /\ T \in Seq(Byte) /\ Len(T) = W32
    BY <1>1, LEDigits
  <2> HIDE DEF H, T
  <2> QED
    BY <2>1, ByteSeq
<1>5. G \in Seq(Nat) /\ Len(G) = 1
  BY <1>1
<1> HIDE DEF F, H, T, G
<1>6. BitWBloomFilterSerialize(f) = buf
  BY DEF BitWBloomFilterSerialize, F, H, T, G
<1>7. BitWVarInt(<<>> \o V \o (F \o (H \o (T \o G))), Len(<<>>)) =
        [value |-> Len(F), len |-> Len(V)]
  <2> DEFINE c == F \o (H \o (T \o G))
  <2>1. c \in Seq(Nat)
    BY <1>1, <1>4, <1>5
  <2> HIDE DEF c
  <2>2. BitWVarInt(<<>> \o V \o c, Len(<<>>)) = [value |-> Len(F), len |-> BitWVarIntSize(Len(F))]
    BY <1>1, <1>2, <2>1, VarIntRoundTrip
  <2> QED
    BY <2>2 DEF BitWVarIntSize, c
<1> HIDE DEF V
<1>8. InARow(Nat, V, F, H, T, G, buf)
  BY <1>1, <1>3, <1>4, <1>5, RowFacts
<1> HIDE DEF buf
<1>9. Len(buf) = Len(V) + Len(F) + W32 + W32 + 1
  BY <1>4, <1>5, <1>8 DEF InARow
<1>10. /\ V \o F \in Seq(Nat) /\ Len(V \o F) = end
       /\ V \o F \o H \in Seq(Nat) /\ Len(V \o F \o H) = end + W32
       /\ V \o F \o H \o T \in Seq(Nat) /\ Len(V \o F \o H \o T) = end + 2 * W32
       /\ H \o (T \o G) \in Seq(Nat) /\ T \o G \in Seq(Nat)
  <2>1. end + W32 + W32 = end + 2 * W32
    BY <1>1, <1>3
  <2> QED
    BY <1>4, <1>8, <2>1 DEF InARow
<1>11. BitWVarInt(buf, 0) = [value |-> Len(F), len |-> Len(V)]
  BY <1>7, <1>8 DEF InARow
<1>12. SubSeq(buf, Len(V) + 1, Len(V) + Len(F)) = F
  <2> DEFINE c == H \o (T \o G)
  <2>1. c \in Seq(Nat)
    BY <1>10
  <2> HIDE DEF c
  <2>2. At(V \o F \o c, Len(V), Len(F)) = F
    BY <1>1, <1>3, <2>1, AtMiddle
  <2>3. At(buf, Len(V), Len(F)) = F
    BY <1>8, <2>2 DEF c, InARow
  <2>4. Len(V) + Len(F) <= Len(buf)
    BY <1>1, <1>3, <1>9
  <2> QED
    BY <2>3, <2>4 DEF At
<1>13. GetLE(buf, end, W32) = f.hashFuncs
  <2> DEFINE a == V \o F
             c == T \o G
  <2>1. a \in Seq(Nat) /\ c \in Seq(Nat) /\ Len(a) = end
    BY <1>10
  <2> HIDE DEF a, c, end
  <2>2. GetLE(a \o H \o c, Len(a), Len(H)) = ValueLE(H)
    BY <1>4, <2>1, GetMiddle
  <2>3. buf = a \o H \o c
    BY <1>8 DEF a, c, InARow
  <2>4. ValueLE(H) = f.hashFuncs
    BY <1>1, LERoundTrip DEF H
  <2> QED
    BY <1>4, <2>1, <2>2, <2>3, <2>4
<1>14. GetLE(buf, end + W32, W32) = f.tweak
  <2> DEFINE a == V \o F \o H
  <2>1. a \in Seq(Nat) /\ Len(a) = end + W32
    BY <1>10
  <2> HIDE DEF a, end
  <2>2. GetLE(a \o T \o G, Len(a), Len(T)) = ValueLE(T)
    BY <1>4, <1>5, <2>1, GetMiddle
  <2>3. buf = a \o T \o G
    BY <1>8 DEF a, InARow
  <2>4. ValueLE(T) = f.tweak
    BY <1>1, LERoundTrip DEF T
  <2> QED
    BY <1>4, <2>1, <2>2, <2>3, <2>4
<1>15. GetLE(buf, end + 2 * W32, 1) = 0
  <2> DEFINE a == V \o F \o H \o T
             z == <<>>
  <2>1. a \in Seq(Nat) /\ Len(a) = end + 2 * W32 /\ z \in Seq(Nat)
    BY <1>1, <1>10
  <2>2. buf = a \o G \o z
    BY <1>8 DEF InARow
  <2> HIDE DEF a, end, z
  <2>3. GetLE(a \o G \o z, Len(a), Len(G)) = ValueLE(G)
    BY <1>5, <2>1, GetMiddle
  <2>4. ValueLE(G) = 0
    BY <1>1, ValueOfByte DEF G
  <2> QED
    BY <1>5, <2>1, <2>2, <2>3, <2>4
<1> DEFINE read == [filter |-> SubSeq(buf, Len(V) + 1, end),
                    hashFuncs |-> GetLE(buf, end, W32), elemCount |-> 0,
                    tweak |-> GetLE(buf, end + W32, W32),
                    flags |-> GetLE(buf, end + 2 * W32, 1)]
<1>16. BitWBloomFilterParse(buf) = <<read>>
  <2> DEFINE n == BitWVarInt(buf, 0)
  <2>1. ~(Len(F) > BLOOM_MAX_FILTER_LENGTH) /\ ~(end > Len(buf))
    <3>1. BLOOM_MAX_FILTER_LENGTH \in Nat
      BY BloomAssumption, WidthFacts
    <3> QED
      BY <1>1, <1>2, <1>3, <1>9, <3>1
  <2>2. n.value = Len(F) /\ n.len = Len(V)
    BY <1>11
  <2> HIDE DEF n
  <2>3. n.len + n.value = end
    BY <2>2
  <2>4. BitWBloomFilterParse(buf) =
          IF n.value > BLOOM_MAX_FILTER_LENGTH \/ n.len + n.value > Len(buf) THEN <<>>
          ELSE <<[filter |-> SubSeq(buf, n.len + 1, n.len + n.value),
                  hashFuncs |-> GetLE(buf, n.len + n.value, W32), elemCount |-> 0,
                  tweak |-> GetLE(buf, n.len + n.value + W32, W32),
                  flags |-> GetLE(buf, n.len + n.value + 2 * W32, 1)]>>
    BY DEF BitWBloomFilterParse, n
  <2> HIDE DEF end
  <2> QED
    BY <2>1, <2>2, <2>3, <2>4
<1>17. read = [f EXCEPT !.elemCount = 0]
  <2>1. read = [filter |-> F, hashFuncs |-> f.hashFuncs, elemCount |-> 0,
                tweak |-> f.tweak, flags |-> f.flags]
    BY <1>1, <1>12, <1>13, <1>14, <1>15
  <2> HIDE DEF read
  <2> QED
    BY <2>1 DEF Filters, F
<1> QED
  BY <1>6, <1>16, <1>17

-----------------------------------------------------------------------------
(* Headers.                                                                *)

HashesFit == \A bytes \in Seq(Byte) : Sha256d(bytes) \in Hash

(* The fields of a header that is written, and of one that was read.       *)
Written(b) ==
  /\ {b.version, b.timestamp, b.target, b.nonce} \subseteq Nat
  /\ {b.prevBlock, b.merkleRoot} \subseteq Hash
Read(b) ==
  /\ {b.version, b.timestamp, b.target, b.nonce} \subseteq Nat
  /\ {b.prevBlock, b.merkleRoot, b.blockHash} \subseteq Hash

(* A block that is read, when the wallet has set its height.               *)
ReadFrom(s) ==
  \A n : LET r == [BitWMerkleBlockParse(s)[1] EXCEPT !.height = n]
         IN /\ Read(r) /\ r.height = n
            /\ {"totalTx", "hashes", "flags"} \subseteq DOMAIN r
            /\ HEADER + W32 <= Len(s) => r.totalTx = GetLE(s, HEADER, W32)

LEMMA HashSeq ==
  /\ \A h \in Hash : h \in Seq(Byte) /\ Len(h) = HASH
  /\ \A h \in Seq(Byte) : Len(h) = HASH => h \in Hash
  /\ UINT256_ZERO \in Hash
  /\ HASH \in Nat /\ W32 \in Nat
<1>1. HASH \in Nat /\ W32 \in Nat /\ 0 \in Byte
  BY WidthAssumption DEF Byte
<1>2. \A h \in [1..HASH -> Byte] : h \in Seq(Byte) /\ Len(h) = HASH
  BY <1>1
<1>3. [k \in 1..HASH |-> 0] \in [1..HASH -> Byte]
  BY <1>1
<1>4. ASSUME NEW h \in Seq(Byte), Len(h) = HASH  PROVE h \in [1..HASH -> Byte]
  BY <1>4
<1> QED
  BY <1>1, <1>2, <1>3, <1>4 DEF Hash, UINT256_ZERO, Zeros

LEMMA HeaderWritten ==
  ASSUME NEW b, Written(b)
  PROVE  HeaderBytes(b) \in Seq(Byte) /\ Len(HeaderBytes(b)) = HEADER
<1> DEFINE v == LE(b.version, W32)
           p == b.prevBlock
           r == b.merkleRoot
           t == LE(b.timestamp, W32)
           g == LE(b.target, W32)
           n == LE(b.nonce, W32)
<1>1. /\ v \in Seq(Byte) /\ Len(v) = W32 /\ t \in Seq(Byte) /\ Len(t) = W32
      /\ g \in Seq(Byte) /\ Len(g) = W32 /\ n \in Seq(Byte) /\ Len(n) = W32
  <2>1. W32 \in Nat
    BY HashSeq
  <2>2. b.version \in Nat /\ b.timestamp \in Nat /\ b.target \in Nat /\ b.nonce \in Nat
    BY DEF Written
  <2> QED
    BY <2>1, <2>2, LEDigits
<1>2. /\ p \in Seq(Byte) /\ Len(p) = HASH /\ r \in Seq(Byte) /\ Len(r) = HASH
      /\ HASH \in Nat /\ W32 \in Nat
  BY HashSeq DEF Written
<1>3. HeaderBytes(b) = v \o p \o r \o t \o g \o n
  BY DEF HeaderBytes
<1> HIDE DEF v, p, r, t, g, n
<1> DEFINE x == v \o p
           y == x \o r
           z == y \o t
           u == z \o g
           B == Seq(Byte)
<1>4. \A c, d \in B : c \o d \in B /\ Len(c \o d) = Len(c) + Len(d)
  OBVIOUS
<1>5. /\ v \in B /\ Len(v) = W32 /\ t \in B /\ Len(t) = W32
      /\ g \in B /\ Len(g) = W32 /\ n \in B /\ Len(n) = W32
      /\ p \in B /\ Len(p) = HASH /\ r \in B /\ Len(r) = HASH
  BY <1>1, <1>2
<1> HIDE DEF B
<1>6. x \in B /\ Len(x) = W32 + HASH
  BY <1>4, <1>5
<1> HIDE DEF x
<1>7. y \in B /\ Len(y) = W32 + HASH + HASH
  BY <1>4, <1>5, <1>6
<1> HIDE DEF y
<1>8. z \in B /\ Len(z) = W32 + HASH + HASH + W32
  BY <1>4, <1>5, <1>7
<1> HIDE DEF z
<1>9. u \in B /\ Len(u) = W32 + HASH + HASH + W32 + W32
  BY <1>4, <1>5, <1>8
<1> HIDE DEF u
<1>10. u \o n \in B /\ Len(u \o n) = W32 + HASH + HASH + W32 + W32 + W32
  BY <1>4, <1>5, <1>9
<1>11. HeaderBytes(b) = u \o n
  BY <1>3 DEF u, z, y, x
<1> QED
  BY <1>2, <1>10, <1>11 DEF HEADER, B

(* Whatever stands behind it, a header is read.                            *)
LEMMA HeaderRead ==
  ASSUME HashesFit, NEW S, Byte \subseteq S, NEW a \in Seq(Byte), Len(a) = HEADER,
         NEW c \in Seq(S)
  PROVE  ReadFrom(a \o c)
<1> DEFINE s == a \o c
           u32(off) == GetLE(s, off, W32)
<1>1. a \in Seq(S) /\ HASH \in Nat /\ W32 \in Nat /\ HEADER \in Nat
  BY HashSeq, SeqWiden DEF HEADER
<1>2. s \in Seq(S) /\ Len(s) >= HEADER
  BY <1>1, ConcatType
<1>3. ASSUME NEW off \in Nat, NEW w \in Nat, off + w <= HEADER
      PROVE  At(s, off, w) \in Seq(Byte) /\ Len(At(s, off, w)) = w
  <2> DEFINE t == At(s, off, w)
  <2>1. t \in Seq(S) /\ Len(t) = w /\ \A k \in 1..w : t[k] = a[off + k]
    BY <1>1, <1>3, AtFront
  <2> HIDE DEF t
  <2>2. \A k \in 1..w : t[k] \in Byte
    <3>1. \A k \in 1..w : off + k \in 1..Len(a)
      BY <1>1, <1>3
    <3>2. \A j \in 1..Len(a) : a[j] \in Byte
      OBVIOUS
    <3> QED
      BY <2>1, <3>1, <3>2, Zenon
  <2> QED
    BY <2>1, <2>2 DEF t
<1>4. ASSUME NEW off \in Nat, off + W32 <= HEADER  PROVE u32(off) \in Nat
  <2>1. At(s, off, W32) \in Seq(Byte)
    BY <1>1, <1>3, <1>4
  <2> HIDE DEF s
  <2>2. At(s, off, W32) \in Seq(Nat)
    BY <2>1, ByteSeq
  <2> QED
    BY <2>2, ValueAppend DEF GetLE
<1>5. SubSeq(s, 1, HEADER) \in Seq(Byte)
  <2>1. At(s, 0, HEADER) \in Seq(Byte)
    BY <1>1, <1>3
  <2>2. At(s, 0, HEADER) = SubSeq(s, 1, HEADER)
    BY <1>1, <1>2 DEF At
  <2> QED
    BY <2>1, <2>2
<1> HIDE DEF s
<1> DEFINE blockHash == Sha256d(SubSeq(s, 1, HEADER))
           version == u32(0)
           prevBlock == At(s, W32, HASH)
           merkleRoot == At(s, W32 + HASH, HASH)
           timestamp == u32(W32 + 2 * HASH)
           target == u32(2 * W32 + 2 * HASH)
           nonce == u32(3 * W32 + 2 * HASH)
           Block(x, y, z) ==
             [blockHash |-> blockHash, version |-> version, prevBlock |-> prevBlock,
              merkleRoot |-> merkleRoot, timestamp |-> timestamp,
              target |-> target, nonce |-> nonce,
              totalTx |-> x, hashes |-> y, flags |-> z,
              height |-> BLOCK_UNKNOWN_HEIGHT]
           header == Block(0, <<>>, <<>>)
<1>6. blockHash \in Hash /\ prevBlock \in Hash /\ merkleRoot \in Hash
  <2>1. blockHash \in Hash
    BY <1>5 DEF HashesFit
  <2>2. /\ W32 + HASH <= HEADER /\ (W32 + HASH) + HASH <= HEADER /\ W32 + HASH \in Nat
    BY <1>1 DEF HEADER
  <2>3. /\ prevBlock \in Seq(Byte) /\ Len(prevBlock) = HASH
        /\ merkleRoot \in Seq(Byte) /\ Len(merkleRoot) = HASH
    BY <1>1, <1>3, <2>2
  <2> QED
    BY <2>1, <2>3, HashSeq
<1>7. /\ version \in Nat /\ timestamp \in Nat /\ target \in Nat /\ nonce \in Nat
  <2>1. /\ 0 + W32 <= HEADER /\ (W32 + 2 * HASH) + W32 <= HEADER
        /\ (2 * W32 + 2 * HASH) + W32 <= HEADER /\ (3 * W32 + 2 * HASH) + W32 <= HEADER
        /\ 0 \in Nat /\ W32 + 2 * HASH \in Nat /\ 2 * W32 + 2 * HASH \in Nat
        /\ 3 * W32 + 2 * HASH \in Nat
    BY <1>1 DEF HEADER
  <2> HIDE DEF u32
  <2> QED
    BY <1>4, <2>1
<1>8. \E x, y, z : /\ BitWMerkleBlockParse(s)[1] = Block(x, y, z)
                   /\ HEADER + W32 <= Len(s) => x = u32(HEADER)
  <2>1. ~(Len(s) < HEADER)
    BY <1>1, <1>2
  <2> DEFINE off == HEADER + W32
             count == BitWVarInt(s, off)
             hashes == off + count.len
             flagsLen == BitWVarInt(s, hashes + count.value * HASH)
             flags == hashes + count.value * HASH + flagsLen.len
             t == u32(HEADER)
             h == [k \in 1..count.value |-> At(s, hashes + (k - 1) * HASH, HASH)]
             f == SubSeq(s, flags + 1, flags + flagsLen.value)
  <2>2. BitWMerkleBlockParse(s) =
          CASE Len(s) < HEADER -> <<>>
            [] off > Len(s) -> <<header>>
            [] OTHER -> <<[header EXCEPT !.totalTx = t, !.hashes = h, !.flags = f]>>
    BY DEF BitWMerkleBlockParse
  <2> HIDE DEF t, h, f, off, blockHash, version, prevBlock, merkleRoot, timestamp, target,
               nonce
  <2>3. [header EXCEPT !.totalTx = t, !.hashes = h, !.flags = f] = Block(t, h, f)
    <3>1. [header EXCEPT !.totalTx = t] = Block(t, <<>>, <<>>)
      OBVIOUS
    <3>2. [Block(t, <<>>, <<>>) EXCEPT !.hashes = h] = Block(t, h, <<>>)
      OBVIOUS
    <3>3. [Block(t, h, <<>>) EXCEPT !.flags = f] = Block(t, h, f)
      OBVIOUS
    <3> HIDE DEF header, Block
    <3> QED
      BY <3>1, <3>2, <3>3
  <2> HIDE DEF header, Block
  <2>4. header = Block(0, <<>>, <<>>)
    BY DEF header
  <2>5. CASE off > Len(s)
    <3>1. BitWMerkleBlockParse(s) = <<header>>
      BY <2>1, <2>2, <2>5
    <3>2. BitWMerkleBlockParse(s)[1] = Block(0, <<>>, <<>>)
      BY <2>4, <3>1
    <3>3. ~(HEADER + W32 <= Len(s))
      BY <1>1, <1>2, <2>5 DEF off
    <3> QED
      BY <3>2, <3>3, Zenon
  <2>6. CASE ~(off > Len(s))
    <3>1. BitWMerkleBlockParse(s) = <<Block(t, h, f)>>
      BY <2>1, <2>2, <2>3, <2>6
    <3>2. BitWMerkleBlockParse(s)[1] = Block(t, h, f)
      BY <3>1
    <3>3. t = u32(HEADER)
      BY DEF t
    <3> QED
      BY <3>2, <3>3, Zenon
  <2> QED
    BY <2>5, <2>6
<1>9. PICK x, y, z : /\ BitWMerkleBlockParse(s)[1] = Block(x, y, z)
                     /\ HEADER + W32 <= Len(s) => x = u32(HEADER)
  BY <1>8
<1>10. ASSUME NEW n
       PROVE  LET r == [BitWMerkleBlockParse(s)[1] EXCEPT !.height = n]
              IN /\ Read(r) /\ r.height = n
                 /\ {"totalTx", "hashes", "flags"} \subseteq DOMAIN r
                 /\ HEADER + W32 <= Len(s) => r.totalTx = GetLE(s, HEADER, W32)
  <2> DEFINE r == [Block(x, y, z) EXCEPT !.height = n]
  <2>1. /\ r.version = version /\ r.timestamp = timestamp /\ r.target = target
        /\ r.nonce = nonce /\ r.blockHash = blockHash /\ r.prevBlock = prevBlock
        /\ r.merkleRoot = merkleRoot /\ r.totalTx = x /\ r.height = n
        /\ {"totalTx", "hashes", "flags"} \subseteq DOMAIN r
    <3> HIDE DEF version, timestamp, target, nonce, blockHash, prevBlock, merkleRoot
    <3> QED
      OBVIOUS
  <2> HIDE DEF r, version, timestamp, target, nonce, blockHash, prevBlock, merkleRoot
  <2>2. Read(r)
    BY <1>6, <1>7, <2>1 DEF Read
  <2>3. r = [BitWMerkleBlockParse(s)[1] EXCEPT !.height = n]
    BY <1>9 DEF r
  <2>4. HEADER + W32 <= Len(s) => r.totalTx = GetLE(s, HEADER, W32)
    BY <1>9, <2>1
  <2> QED
    BY <2>1, <2>2, <2>3, <2>4
<1> QED
  <2>1. ReadFrom(s)
    BY <1>10 DEF ReadFrom
  <2> QED
    BY <2>1 DEF s

-----------------------------------------------------------------------------
(* The merkle tree.                                                        *)

LEMMA HeightFacts ==
  ASSUME NEW t \in Seq(Hash), t # <<>>
  PROVE  Height(t) \in Nat /\ Len(t) \in Nat /\ Len(t) > 0 /\ Power(Height(t)) >= Len(t)
<1> DEFINE n == Len(t)
           S == {d \in Nat : 2^d >= n}
<1>1. n \in Nat /\ n > 0
  OBVIOUS
<1> HIDE DEF n
<1>2. 2^n >= n /\ \A d \in Nat : 2^d \in Nat
  BY <1>1, PowerLarge, PowerStep DEF Power
<1>3. PICK d \in S : \A e \in S : d <= e
  <2>1. n \in S
    BY <1>1, <1>2
  <2>2. S \in SUBSET Nat
    OBVIOUS
  <2> HIDE DEF S
  <2> QED
    BY <2>1, <2>2, Least
<1>4. d \in 0..n /\ 2^d >= n
  BY <1>1, <1>2, <1>3
<1>5. \A e \in 0..(d - 1) : 2^e < n
  <2> TAKE e \in 0..(d - 1)
  <2>1. e \in Nat /\ e \notin S
    BY <1>3
  <2> QED
    BY <1>1, <1>2, <2>1
<1> DEFINE Q(k) == 2^k >= n /\ \A e \in 0..(k - 1) : 2^e < n
<1>6. \E k \in 0..n : Q(k)
  BY <1>4, <1>5
<1>7. Height(t) = CHOOSE k \in 0..n : Q(k)
  BY DEF Height, CeilLog2, n
<1> HIDE DEF Q
<1>8. Height(t) \in 0..n /\ Q(Height(t))
  BY <1>6, <1>7
<1> QED
  BY <1>1, <1>8 DEF Q, n, Power

(* The nodes of a height are those that stand over a leaf.                 *)
LEMMA PositionFacts ==
  ASSUME NEW t \in Seq(Hash), t # <<>>, NEW h \in Nat
  PROVE  /\ Positions(t, h) \subseteq Nat
         /\ \A pos \in Nat : pos \in Positions(t, h) <=> pos * Power(h) < Len(t)
<1> DEFINE n == Len(t)
           p == Power(h)
           w == (n + p - 1) \div p
           r == (n + p - 1) % p
<1>1. n \in Nat /\ n > 0 /\ p \in Nat /\ p > 0
  BY PowerLarge
<1>2. Positions(t, h) = 0..(w - 1)
  BY DEF Positions, Width, Power
<1> HIDE DEF n, p
<1>3. n + p - 1 \in Nat
  BY <1>1
<1>4. r \in 0..(p - 1) /\ w \in Nat /\ n + p - 1 = p * w + r
  BY <1>1, <1>3, ModFacts
<1> HIDE DEF w, r
<1>5. ASSUME NEW pos \in Nat  PROVE pos \in 0..(w - 1) <=> pos * p < n
  <2>1. CASE pos <= w - 1
    <3>1. w - 1 - pos \in Nat
      BY <1>4, <2>1
    <3>2. (w - 1 - pos) * p >= 0
      BY <1>1, <3>1
    <3>3. p * w = (w - 1 - pos) * p + p + pos * p
      BY <1>1, <1>4
    <3>4. pos * p \in Nat /\ (w - 1 - pos) * p \in Int /\ p * w \in Int
      BY <1>1, <1>4, <3>1
    <3>5. pos * p < n
      BY <1>1, <1>4, <3>2, <3>3, <3>4
    <3> QED
      BY <1>4, <2>1, <3>5
  <2>2. CASE ~(pos <= w - 1)
    <3>1. pos - w \in Nat
      BY <1>4, <2>2
    <3>2. (pos - w) * p >= 0
      BY <1>1, <3>1
    <3>3. pos * p = (pos - w) * p + p * w
      BY <1>1, <1>4
    <3>4. pos * p \in Nat /\ (pos - w) * p \in Int /\ p * w \in Int
      BY <1>1, <1>4, <3>1
    <3>5. ~(pos * p < n)
      BY <1>1, <1>4, <3>2, <3>3, <3>4
    <3> QED
      BY <1>4, <2>2, <3>5
  <2> QED
    BY <2>1, <2>2
<1> QED
  BY <1>2, <1>4, <1>5 DEF n, p

LEMMA NodeFacts ==
  ASSUME NEW t \in Seq(Hash), t # <<>>
  PROVE  /\ Positions(t, 0) = 0..(Len(t) - 1)
         /\ 0 \in Positions(t, Height(t))
         /\ 1 \notin Positions(t, Height(t))
         /\ \A h \in Nat : h > 0 =>
              \A pos \in Positions(t, h) : 2 * pos \in Positions(t, h - 1)
<1>1. Len(t) \in Nat /\ Len(t) > 0 /\ Height(t) \in Nat /\ Power(Height(t)) >= Len(t)
  BY HeightFacts
<1>2. \A pos \in Nat : pos \in Positions(t, 0) <=> pos < Len(t)
  <2>1. Power(0) = 1
    BY PowerStep
  <2>2. \A pos \in Nat : pos \in Positions(t, 0) <=> pos * 1 < Len(t)
    BY <2>1, PositionFacts
  <2> QED
    BY <2>2
<1>3. Positions(t, 0) = 0..(Len(t) - 1)
  <2>1. Positions(t, 0) \subseteq Nat
    BY PositionFacts
  <2> DEFINE P == Positions(t, 0)
             n == Len(t)
  <2>2. /\ n \in Nat /\ P \subseteq Nat
        /\ \A pos \in Nat : pos \in P <=> pos < n
    BY <1>1, <1>2, <2>1
  <2> HIDE DEF P, n
  <2> DEFINE Q == 0..(n - 1)
  <2>3. P \subseteq Nat /\ Q \subseteq Nat /\ \A x \in Nat : x \in P <=> x \in Q
    BY <2>2
  <2> HIDE DEF Q
  <2>4. P = Q
    BY <2>3, Zenon
  <2> QED
    BY <2>4 DEF P, Q, n
<1>4. 0 \in Positions(t, Height(t)) /\ 1 \notin Positions(t, Height(t))
  <2> DEFINE p == Power(Height(t))
  <2>1. p \in Nat
    BY <1>1, PowerStep
  <2>2. \A pos \in Nat : pos \in Positions(t, Height(t)) <=> pos * p < Len(t)
    BY <1>1, PositionFacts
  <2> DEFINE Q == Positions(t, Height(t))
             n == Len(t)
  <2>3. p \in Nat /\ n \in Nat /\ n > 0 /\ p >= n
    BY <1>1, <2>1
  <2>4. (0 \in Q <=> 0 * p < n) /\ (1 \in Q <=> 1 * p < n)
    BY <2>2
  <2> HIDE DEF Q, p, n
  <2>5. 0 * p = 0 /\ 1 * p = p
    BY <2>3
  <2>6. 0 \in Q /\ 1 \notin Q
    BY <2>3, <2>4, <2>5
  <2> QED
    BY <2>6 DEF Q
<1>5. ASSUME NEW h \in Nat, h > 0, NEW pos \in Positions(t, h)
      PROVE  2 * pos \in Positions(t, h - 1)
  <2>1. pos \in Nat /\ pos * Power(h) < Len(t) /\ h - 1 \in Nat
    BY <1>5, PositionFacts
  <2>2. Power(h) = 2 * Power(h - 1) /\ Power(h - 1) \in Nat
    <3>1. (h - 1) + 1 = h
      OBVIOUS
    <3> QED
      BY <2>1, <3>1, PowerStep
  <2>3. 2 * pos \in Nat /\ (2 * pos) * Power(h - 1) = pos * Power(h)
    BY <2>1, <2>2
  <2> QED
    BY <2>1, <2>3, PositionFacts
<1> QED
  BY <1>3, <1>4, <1>5

LEMMA TreeFacts ==
  ASSUME HashesFit, NEW t \in Seq(Hash), t # <<>>
  PROVE  /\ \A h \in 0..Height(t) : TreeHash(t)[h] \in [Positions(t, h) -> Hash]
         /\ \A pos \in Positions(t, 0) : TreeHash(t)[0][pos] = t[pos + 1]
<1> DEFINE H == Height(t)
           D(h) == Positions(t, h)
           F(h) == [D(h) -> Hash]
           E(f, h, pos) ==
             LET left == f[h - 1][2 * pos]
             IN IF h = 0 THEN t[pos + 1]
                ELSE Sha256d(left \o (IF 2 * pos + 1 \in Positions(t, h - 1)
                                      THEN f[h - 1][2 * pos + 1] ELSE left))
           N(g, h, pos) ==
             Sha256d(g[2 * pos] \o (IF 2 * pos + 1 \in D(h - 1) THEN g[2 * pos + 1]
                                    ELSE g[2 * pos]))
           P(f) == f = [h \in 0..H |-> [pos \in Positions(t, h) |-> E(f, h, pos)]]
           base == [pos \in D(0) |-> t[pos + 1]]
           U == UNION {F(h) : h \in 0..H}
           X == [h \in 0..H |-> F(h)]
           step == [h \in 1..H |-> [g \in F(h - 1) |-> [pos \in D(h) |-> N(g, h, pos)]]]
<1>1. H \in Nat
  BY HeightFacts
<1>2. base \in F(0)
  <2>1. D(0) = 0..(Len(t) - 1)
    BY NodeFacts
  <2>2. \A pos \in 0..(Len(t) - 1) : t[pos + 1] \in Hash
    <3>1. \A k \in 1..Len(t) : t[k] \in Hash
      OBVIOUS
    <3>2. \A pos \in 0..(Len(t) - 1) : pos + 1 \in 1..Len(t)
      OBVIOUS
    <3> HIDE DEF D
    <3> QED
      BY <3>1, <3>2, Zenon
  <2> HIDE DEF D
  <2> QED
    BY <2>1, <2>2
<1>3. ASSUME NEW h \in 1..H, NEW g \in F(h - 1), NEW pos \in D(h)
      PROVE  N(g, h, pos) \in Hash
  <2>1. h \in Nat /\ h > 0
    BY <1>1
  <2>2. 2 * pos \in D(h - 1)
    BY <2>1, NodeFacts
  <2> HIDE DEF D
  <2>3. g[2 * pos] \in Hash /\ (2 * pos + 1 \in D(h - 1) => g[2 * pos + 1] \in Hash)
    BY <2>2
  <2>4. \A a, b \in Hash : Sha256d(a \o b) \in Hash
    <3> SUFFICES ASSUME NEW a \in Hash, NEW b \in Hash  PROVE Sha256d(a \o b) \in Hash
      OBVIOUS
    <3>1. a \in Seq(Byte) /\ b \in Seq(Byte)
      BY HashSeq
    <3>2. a \o b \in Seq(Byte)
      BY <3>1
    <3> QED
      BY <3>2 DEF HashesFit
  <2> QED
    BY <2>3, <2>4
<1> HIDE DEF D, N
<1>4. \E f : P(f)
  <2>1. X \in [0..H -> SUBSET U]
    <3>1. \A h \in 0..H : F(h) \in SUBSET U
      OBVIOUS
    <3> HIDE DEF U, F
    <3> QED
      BY <3>1
  <2>2. base \in X[0]
    BY <1>1, <1>2
  <2>3. Goes(H, X, step)
    <3> SUFFICES ASSUME NEW h \in 1..H, NEW g \in X[h - 1]  PROVE step[h][g] \in X[h]
      BY DEF Goes
    <3>1. h - 1 \in 0..H /\ h \in 0..H
      BY <1>1
    <3>2. X[h - 1] = F(h - 1) /\ X[h] = F(h)
      BY <3>1
    <3>3. \A pos \in D(h) : N(g, h, pos) \in Hash
      BY <1>3, <3>2
    <3>4. [pos \in D(h) |-> N(g, h, pos)] \in F(h)
      BY <3>3
    <3> HIDE DEF F
    <3>5. step[h][g] = [pos \in D(h) |-> N(g, h, pos)]
      BY <3>2
    <3> QED
      BY <3>2, <3>4, <3>5
  <2> HIDE DEF X, U, step, base
  <2>4. PICK b : Recursive(b, H, U, X, base, step)
    BY <1>1, <2>1, <2>2, <2>3, RecursionTo
  <2>5. ASSUME NEW h \in 0..H
        PROVE  b[h] = [pos \in Positions(t, h) |-> E(b, h, pos)]
    <3>1. CASE h = 0
      <4>1. b[0] = [pos \in D(0) |-> t[pos + 1]]
        BY <2>4 DEF Recursive, base
      <4>2. \A pos \in D(0) : E(b, 0, pos) = t[pos + 1]
        OBVIOUS
      <4> HIDE DEF E
      <4>3. b[0] = [pos \in D(0) |-> E(b, 0, pos)]
        BY <4>1, <4>2
      <4> QED
        BY <3>1, <4>3 DEF D
    <3>2. CASE h # 0
      <4>1. h \in 1..H /\ h - 1 \in 0..H
        BY <1>1, <3>2
      <4>2. b[h] = step[h][b[h - 1]] /\ b[h - 1] \in X[h - 1]
        BY <2>4, <4>1 DEF Recursive
      <4>3. b[h - 1] \in F(h - 1)
        BY <4>1, <4>2 DEF X
      <4>4. b[h] = [pos \in D(h) |-> N(b[h - 1], h, pos)]
        <5> HIDE DEF F
        <5> QED
          BY <4>1, <4>2, <4>3 DEF step
      <4>5. \A pos \in D(h) : E(b, h, pos) = N(b[h - 1], h, pos)
        BY <3>2 DEF N, D
      <4> HIDE DEF E
      <4>6. b[h] = [pos \in D(h) |-> E(b, h, pos)]
        BY <4>4, <4>5
      <4> QED
        BY <4>6 DEF D
    <3> QED
      BY <3>1, <3>2
  <2>6. b = [h \in 0..H |-> b[h]]
    BY <2>4 DEF Recursive
  <2> HIDE DEF E
  <2>7. P(b)
    BY <2>5, <2>6, Zenon
  <2> QED
    BY <2>7
<1>5. TreeHash(t) = CHOOSE f : P(f)
  BY DEF TreeHash
<1> HIDE DEF P
<1>6. PICK f : P(f) /\ TreeHash(t) = f
  BY <1>4, <1>5
<1>7. \A h \in 0..H : f[h] = [pos \in D(h) |-> E(f, h, pos)]
  <2> HIDE DEF E
  <2>1. f = [h \in 0..H |-> [pos \in D(h) |-> E(f, h, pos)]]
    BY <1>6 DEF P, D
  <2> QED
    BY <2>1, Zenon
<1>8. f[0] = base
  <2>1. 0 \in 0..H
    BY <1>1
  <2>2. \A pos \in D(0) : E(f, 0, pos) = t[pos + 1]
    OBVIOUS
  <2> HIDE DEF E
  <2> QED
    BY <1>7, <2>1, <2>2
<1> DEFINE S == {h \in 0..H : f[h] \in F(h)}
<1>9. 0 \in S
  BY <1>1, <1>2, <1>8
<1>10. ASSUME NEW h \in 1..H, h - 1 \in S  PROVE h \in S
  <2>1. f[h - 1] \in F(h - 1)
    BY <1>10
  <2>2. \A pos \in D(h) : E(f, h, pos) = N(f[h - 1], h, pos)
    BY DEF N, D
  <2>3. \A pos \in D(h) : N(f[h - 1], h, pos) \in Hash
    <3> HIDE DEF F
    <3> QED
      BY <1>3, <2>1
  <2> HIDE DEF E
  <2>4. f[h] = [pos \in D(h) |-> E(f, h, pos)]
    BY <1>7
  <2>5. f[h] \in F(h)
    BY <2>2, <2>3, <2>4
  <2> HIDE DEF F
  <2> QED
    BY <2>5
<1>11. \A h \in 0..H : h \in S
  <2> HIDE DEF S
  <2> QED
    BY <1>1, <1>9, <1>10, AllUpTo
<1> QED
  BY <1>6, <1>8, <1>11 DEF D

(* The flags and hashes of a branch, from those of the branches below.     *)
Part == [bits : Seq({0, 1}), hashes : Seq(Hash)]
NoPart == [bits |-> <<>>, hashes |-> <<>>]
Left(part, h, pos) == part[h - 1][2 * pos]
Right(t, part, h, pos) ==
  IF 2 * pos + 1 \in Positions(t, h - 1) THEN part[h - 1][2 * pos + 1] ELSE NoPart
PartOf(t, f, part, h, pos) ==
  IF h = 0 \/ ~Matched(t, f, h, pos)
  THEN [bits |-> <<IF Matched(t, f, h, pos) THEN 1 ELSE 0>>, hashes |-> <<TreeHash(t)[h][pos]>>]
  ELSE [bits |-> <<1>> \o Left(part, h, pos).bits \o Right(t, part, h, pos).bits,
        hashes |-> Left(part, h, pos).hashes \o Right(t, part, h, pos).hashes]

LEMMA PartialFacts ==
  ASSUME HashesFit, NEW t \in Seq(Hash), t # <<>>, NEW f
  PROVE  \A h \in 0..Height(t) :
           /\ Partial(t, f)[h] \in [Positions(t, h) -> Part]
           /\ \A pos \in Positions(t, h) :
                Partial(t, f)[h][pos] = PartOf(t, f, Partial(t, f), h, pos)
<1> DEFINE H == Height(t)
           D(h) == Positions(t, h)
           F(h) == [D(h) -> Part]
           E(part, h, pos) ==
             LET left == part[h - 1][2 * pos]
                 right == IF 2 * pos + 1 \in Positions(t, h - 1)
                          THEN part[h - 1][2 * pos + 1]
                          ELSE [bits |-> <<>>, hashes |-> <<>>]
             IN IF h = 0 \/ ~Matched(t, f, h, pos)
                THEN [bits |-> <<IF Matched(t, f, h, pos) THEN 1 ELSE 0>>,
                      hashes |-> <<TreeHash(t)[h][pos]>>]
                ELSE [bits |-> <<1>> \o left.bits \o right.bits,
                      hashes |-> left.hashes \o right.hashes]
           N(g, h, pos) ==
             LET left == g[2 * pos]
                 right == IF 2 * pos + 1 \in D(h - 1) THEN g[2 * pos + 1] ELSE NoPart
             IN IF ~Matched(t, f, h, pos)
                THEN [bits |-> <<0>>, hashes |-> <<TreeHash(t)[h][pos]>>]
                ELSE [bits |-> <<1>> \o left.bits \o right.bits,
                      hashes |-> left.hashes \o right.hashes]
           P(b) == b = [h \in 0..H |-> [pos \in Positions(t, h) |-> E(b, h, pos)]]
           bit(pos) == IF Matched(t, f, 0, pos) THEN 1 ELSE 0
           base == [pos \in D(0) |-> [bits |-> <<bit(pos)>>, hashes |-> <<TreeHash(t)[0][pos]>>]]
           U == UNION {F(h) : h \in 0..H}
           X == [h \in 0..H |-> F(h)]
           step == [h \in 1..H |-> [g \in F(h - 1) |-> [pos \in D(h) |-> N(g, h, pos)]]]
<1>1. H \in Nat
  BY HeightFacts
<1>2. ASSUME NEW h \in 0..H, NEW pos \in D(h)  PROVE TreeHash(t)[h][pos] \in Hash
  BY TreeFacts
<1>3. base \in F(0)
  <2>1. 0 \in 0..H
    BY <1>1
  <2>2. ASSUME NEW pos \in D(0)
        PROVE  [bits |-> <<bit(pos)>>, hashes |-> <<TreeHash(t)[0][pos]>>] \in Part
    <3>1. TreeHash(t)[0][pos] \in Hash /\ bit(pos) \in {0, 1}
      BY <1>2, <2>1
    <3> HIDE DEF bit
    <3>2. <<bit(pos)>> \in Seq({0, 1}) /\ <<TreeHash(t)[0][pos]>> \in Seq(Hash)
      BY <3>1
    <3> QED
      BY <3>2 DEF Part
  <2> HIDE DEF bit
  <2> QED
    BY <2>2
<1>4. ASSUME NEW h \in 1..H, NEW g \in F(h - 1), NEW pos \in D(h)
      PROVE  N(g, h, pos) \in Part
  <2>1. h \in Nat /\ h > 0 /\ h \in 0..H
    BY <1>1
  <2>2. 2 * pos \in D(h - 1)
    BY <2>1, NodeFacts
  <2>3. TreeHash(t)[h][pos] \in Hash
    BY <1>2, <2>1
  <2> HIDE DEF D
  <2>4. g[2 * pos] \in Part /\ (2 * pos + 1 \in D(h - 1) => g[2 * pos + 1] \in Part)
    BY <2>2
  <2>5. [bits |-> <<0>>, hashes |-> <<TreeHash(t)[h][pos]>>] \in Part /\ NoPart \in Part
    <3>1. <<0>> \in Seq({0, 1}) /\ <<TreeHash(t)[h][pos]>> \in Seq(Hash)
      BY <2>3
    <3>2. <<>> \in Seq({0, 1}) /\ <<>> \in Seq(Hash)
      OBVIOUS
    <3> QED
      BY <3>1, <3>2 DEF Part, NoPart
  <2>6. \A a, b \in Part : [bits |-> <<1>> \o a.bits \o b.bits, hashes |-> a.hashes \o b.hashes]
                             \in Part
    <3> SUFFICES ASSUME NEW a \in Part, NEW b \in Part
                 PROVE  [bits |-> <<1>> \o a.bits \o b.bits, hashes |-> a.hashes \o b.hashes]
                          \in Part
      OBVIOUS
    <3>1. a.bits \in Seq({0, 1}) /\ b.bits \in Seq({0, 1}) /\ a.hashes \in Seq(Hash) /\ b.hashes \in Seq(Hash)
      BY DEF Part
    <3>2. <<1>> \o a.bits \o b.bits \in Seq({0, 1}) /\ a.hashes \o b.hashes \in Seq(Hash)
      <4>1. \A S : \A x, y \in Seq(S) : x \o y \in Seq(S)
        OBVIOUS
      <4>2. <<1>> \in Seq({0, 1})
        OBVIOUS
      <4> QED
        BY <3>1, <4>1, <4>2, Zenon
    <3> QED
      BY <3>2 DEF Part
  <2> DEFINE right == IF 2 * pos + 1 \in D(h - 1) THEN g[2 * pos + 1] ELSE NoPart
  <2>7. right \in Part
    BY <2>4, <2>5
  <2>8. N(g, h, pos) = [bits |-> <<0>>, hashes |-> <<TreeHash(t)[h][pos]>>]
        \/ N(g, h, pos) = [bits |-> <<1>> \o g[2 * pos].bits \o right.bits,
                           hashes |-> g[2 * pos].hashes \o right.hashes]
    OBVIOUS
  <2> HIDE DEF N, right
  <2> QED
    BY <2>4, <2>5, <2>6, <2>7, <2>8, Zenon
<1>5. ASSUME NEW b, NEW h \in 0..H, NEW pos
      PROVE  /\ h = 0 => E(b, h, pos) = [bits |-> <<bit(pos)>>, hashes |-> <<TreeHash(t)[0][pos]>>]
             /\ h # 0 => E(b, h, pos) = N(b[h - 1], h, pos)
  BY DEF NoPart
<1>6. ASSUME NEW b, NEW h, NEW pos  PROVE E(b, h, pos) = PartOf(t, f, b, h, pos)
  BY DEF PartOf, Left, Right, NoPart
<1> HIDE DEF D, N, bit
<1>7. \E b : P(b)
  <2>1. X \in [0..H -> SUBSET U]
    <3>1. \A h \in 0..H : F(h) \in SUBSET U
      OBVIOUS
    <3> HIDE DEF U, F
    <3> QED
      BY <3>1
  <2>2. base \in X[0]
    BY <1>1, <1>3
  <2>3. Goes(H, X, step)
    <3> SUFFICES ASSUME NEW h \in 1..H, NEW g \in X[h - 1]  PROVE step[h][g] \in X[h]
      BY DEF Goes
    <3>1. h - 1 \in 0..H /\ h \in 0..H
      BY <1>1
    <3>2. X[h - 1] = F(h - 1) /\ X[h] = F(h)
      BY <3>1
    <3>3. \A pos \in D(h) : N(g, h, pos) \in Part
      BY <1>4, <3>2
    <3>4. [pos \in D(h) |-> N(g, h, pos)] \in F(h)
      BY <3>3
    <3> HIDE DEF F
    <3>5. step[h][g] = [pos \in D(h) |-> N(g, h, pos)]
      BY <3>2
    <3> QED
      BY <3>2, <3>4, <3>5
  <2> HIDE DEF X, U, step, base, E
  <2>4. PICK b : Recursive(b, H, U, X, base, step)
    BY <1>1, <2>1, <2>2, <2>3, RecursionTo
  <2>5. ASSUME NEW h \in 0..H
        PROVE  b[h] = [pos \in Positions(t, h) |-> E(b, h, pos)]
    <3>1. CASE h = 0
      <4>1. b[0] = [pos \in D(0) |-> [bits |-> <<bit(pos)>>, hashes |-> <<TreeHash(t)[0][pos]>>]]
        BY <2>4 DEF Recursive, base
      <4>2. 0 \in 0..H
        BY <1>1
      <4>3. \A pos \in D(0) :
              E(b, 0, pos) = [bits |-> <<bit(pos)>>, hashes |-> <<TreeHash(t)[0][pos]>>]
        BY <1>5, <4>2
      <4>4. b[0] = [pos \in D(0) |-> E(b, 0, pos)]
        BY <4>1, <4>3
      <4> QED
        BY <3>1, <4>4 DEF D
    <3>2. CASE h # 0
      <4>1. h \in 1..H /\ h - 1 \in 0..H
        BY <1>1, <3>2
      <4>2. b[h] = step[h][b[h - 1]] /\ b[h - 1] \in X[h - 1]
        BY <2>4, <4>1 DEF Recursive
      <4>3. b[h - 1] \in F(h - 1)
        BY <4>1, <4>2 DEF X
      <4>4. b[h] = [pos \in D(h) |-> N(b[h - 1], h, pos)]
        <5> HIDE DEF F
        <5> QED
          BY <4>1, <4>2, <4>3 DEF step
      <4>5. \A pos \in D(h) : E(b, h, pos) = N(b[h - 1], h, pos)
        BY <1>5, <3>2
      <4>6. b[h] = [pos \in D(h) |-> E(b, h, pos)]
        BY <4>4, <4>5
      <4> QED
        BY <4>6 DEF D
    <3> QED
      BY <3>1, <3>2
  <2>6. b = [h \in 0..H |-> b[h]]
    BY <2>4 DEF Recursive
  <2>7. P(b)
    BY <2>5, <2>6, Zenon
  <2> QED
    BY <2>7
<1>8. Partial(t, f) = CHOOSE b : P(b)
  BY DEF Partial
<1> HIDE DEF P
<1>9. PICK b : P(b) /\ Partial(t, f) = b
  BY <1>7, <1>8
<1> HIDE DEF E
<1>10. \A h \in 0..H : b[h] = [pos \in D(h) |-> E(b, h, pos)]
  <2>1. b = [h \in 0..H |-> [pos \in D(h) |-> E(b, h, pos)]]
    BY <1>9 DEF P, D
  <2> QED
    BY <2>1, Zenon
<1>11. b[0] = base
  <2>1. 0 \in 0..H
    BY <1>1
  <2>2. \A pos \in D(0) :
          E(b, 0, pos) = [bits |-> <<bit(pos)>>, hashes |-> <<TreeHash(t)[0][pos]>>]
    BY <1>5, <2>1
  <2> QED
    BY <1>10, <2>1, <2>2
<1> HIDE DEF base
<1> DEFINE S == {h \in 0..H : b[h] \in F(h)}
<1>12. 0 \in S
  BY <1>1, <1>3, <1>11
<1>13. ASSUME NEW h \in 1..H, h - 1 \in S  PROVE h \in S
  <2>1. b[h - 1] \in F(h - 1)
    BY <1>13
  <2>2. h \in 0..H /\ h # 0
    BY <1>1
  <2>3. \A pos \in D(h) : E(b, h, pos) = N(b[h - 1], h, pos)
    BY <1>5, <2>2
  <2>4. \A pos \in D(h) : N(b[h - 1], h, pos) \in Part
    <3> HIDE DEF F
    <3> QED
      BY <1>4, <2>1
  <2>5. b[h] = [pos \in D(h) |-> E(b, h, pos)]
    BY <1>10, <2>2
  <2>6. b[h] \in F(h)
    BY <2>3, <2>4, <2>5
  <2> HIDE DEF F
  <2> QED
    BY <2>2, <2>6
<1>14. \A h \in 0..H : h \in S
  <2> HIDE DEF S
  <2> QED
    BY <1>1, <1>12, <1>13, AllUpTo
<1>15. ASSUME NEW h \in 0..H
       PROVE  b[h] \in F(h) /\ \A pos \in D(h) : b[h][pos] = PartOf(t, f, b, h, pos)
  <2>1. b[h] \in F(h)
    BY <1>14
  <2>2. \A pos \in D(h) : b[h][pos] = E(b, h, pos)
    BY <1>10
  <2> QED
    BY <1>6, <2>1, <2>2
<1> QED
  BY <1>9, <1>15 DEF D

-----------------------------------------------------------------------------
(* The blocks a peer sends.                                                *)
SentBlocks ==
  [version : Nat, prevBlock : Hash, merkleRoot : Hash, timestamp : Nat, target : Nat,
   nonce : Nat, totalTx : Nat, hashes : Seq(Hash), flags : Seq(Int)]

LEMMA SentWritten ==
  ASSUME NEW b \in SentBlocks
  PROVE  Written(b) /\ b.totalTx \in Nat /\ b.hashes \in Seq(Hash) /\ b.flags \in Seq(Int)
BY DEF SentBlocks, Written

LEMMA VarIntType ==
  ASSUME NEW u \in Nat
  PROVE  BitWVarIntSet(u) \in Seq(Int)
<1>1. W16 \in Nat /\ W32 \in Nat /\ W64 \in Nat /\ BYTE \in Nat /\ Byte \subseteq Int
  BY WidthAssumption DEF Byte
<1>2. ASSUME NEW w \in Nat, NEW h \in Int  PROVE <<h>> \o LE(u, w) \in Seq(Int)
  <2>1. LE(u, w) \in Seq(Byte)
    BY LEDigits
  <2>2. LE(u, w) \in Seq(Int)
    BY <1>1, <2>1, SeqWiden
  <2>3. <<h>> \in Seq(Int)
    OBVIOUS
  <2> QED
    BY <2>2, <2>3
<1>3. <<u>> \in Seq(Int)
  OBVIOUS
<1>4. VAR_INT16_HEADER \in Int /\ VAR_INT32_HEADER \in Int /\ VAR_INT64_HEADER \in Int
  BY <1>1 DEF VAR_INT16_HEADER, VAR_INT32_HEADER, VAR_INT64_HEADER
<1>5. \/ BitWVarIntSet(u) = <<u>>
      \/ BitWVarIntSet(u) = <<VAR_INT16_HEADER>> \o LE(u, W16)
      \/ BitWVarIntSet(u) = <<VAR_INT32_HEADER>> \o LE(u, W32)
      \/ BitWVarIntSet(u) = <<VAR_INT64_HEADER>> \o LE(u, W64)
  <2> DEFINE a == <<u>>
             b == <<VAR_INT16_HEADER>> \o LE(u, W16)
             c == <<VAR_INT32_HEADER>> \o LE(u, W32)
             d == <<VAR_INT64_HEADER>> \o LE(u, W64)
  <2>1. BitWVarIntSet(u) =
          CASE u < VAR_INT16_HEADER -> a
            [] u >= VAR_INT16_HEADER /\ u < Span(W16) -> b
            [] u >= Span(W16) /\ u < Span(W32) -> c
            [] OTHER -> d
    BY DEF BitWVarIntSet
  <2> HIDE DEF a, b, c, d
  <2>2. BitWVarIntSet(u) \in {a, b, c, d}
    BY <2>1
  <2> QED
    BY <2>2, Zenon DEF a, b, c, d
<1> QED
  BY <1>1, <1>2, <1>3, <1>4, <1>5, Zenon

(* What the wallet reads of a block that was sent; the number of its       *)
(* transactions cannot be damaged.                                         *)
LEMMA SentRead ==
  ASSUME HashesFit, NEW b \in SentBlocks, NEW n
  PROVE  LET r == [BitWMerkleBlockParse(BitWMerkleBlockSerialize(b))[1] EXCEPT !.height = n]
         IN /\ Read(r) /\ r.height = n
            /\ {"totalTx", "hashes", "flags"} \subseteq DOMAIN r
            /\ b.totalTx \in 1..(Span(W32) - 1) => r.totalTx = b.totalTx
<1> DEFINE a == HeaderBytes(b)
           x == LE(b.totalTx, W32)
           v == BitWVarIntSet(Len(b.hashes))
           h == FlattenSeq(b.hashes)
           u == BitWVarIntSet(Len(b.flags))
           f == b.flags
           c == IF b.totalTx = 0 THEN <<>> ELSE x \o v \o h \o u \o f
           I == Seq(Int)
<1>1. /\ b.totalTx \in Nat /\ b.hashes \in Seq(Hash) /\ b.flags \in Seq(Int)
      /\ W32 \in Nat /\ Byte \subseteq Int /\ HEADER \in Nat
  BY SentWritten, HashSeq, WidthAssumption DEF Byte, HEADER
<1>2. a \in Seq(Byte) /\ Len(a) = HEADER
  BY SentWritten, HeaderWritten
<1>3. x \in Seq(Byte) /\ Len(x) = W32
  BY <1>1, LEDigits
<1>4. v \in I /\ u \in I
  <2>1. Len(b.hashes) \in Nat /\ Len(b.flags) \in Nat
    BY <1>1
  <2> QED
    BY <2>1, VarIntType
<1>5. h \in I
  <2>1. Hash \subseteq Seq(Int)
    <3>1. \A y \in Hash : y \in Seq(Byte)
      BY HashSeq
    <3>2. \A y \in Seq(Byte) : y \in Seq(Int)
      BY <1>1, SeqWiden
    <3> QED
      BY <3>1, <3>2
  <2>2. b.hashes \in Seq(Seq(Int))
    BY <1>1, <2>1, SeqWiden
  <2> QED
    BY <2>2, FlattenType
<1>6. x \in I /\ f \in I /\ <<>> \in I
  <2>1. x \in I
    BY <1>1, <1>3, SeqWiden, Zenon
  <2> QED
    BY <1>1, <2>1
<1> HIDE DEF x, v, h, u, f
<1>7. \A p, q \in I : p \o q \in I /\ Len(p \o q) = Len(p) + Len(q) /\ Len(p) \in Nat
  OBVIOUS
<1>8. \A p, q, r \in I : (p \o q) \o r = p \o (q \o r)
  BY ConcatAgain
<1> DEFINE e == v \o h \o u \o f
<1>9. e \in I /\ x \o v \o h \o u \o f = x \o e
  <2> HIDE DEF I
  <2> DEFINE y == v \o h
             z == y \o u
  <2>1. y \in I /\ z \in I /\ e \in I
    BY <1>4, <1>5, <1>6, <1>7, Zenon
  <2>2. (x \o v) \o h = x \o (v \o h)
    <3>1. x \in I /\ v \in I /\ h \in I
      BY <1>4, <1>5, <1>6
    <3> QED
      BY <1>8, <3>1, Zenon
  <2> HIDE DEF y
  <2>3. (x \o y) \o u = x \o (y \o u)
    <3>1. x \in I /\ y \in I /\ u \in I
      BY <1>4, <1>6, <2>1
    <3> QED
      BY <1>8, <3>1, Zenon
  <2> HIDE DEF z
  <2>4. (x \o z) \o f = x \o (z \o f)
    <3>1. x \in I /\ z \in I /\ f \in I
      BY <1>6, <2>1
    <3> QED
      BY <1>8, <3>1, Zenon
  <2> QED
    BY <2>1, <2>2, <2>3, <2>4, Zenon DEF y, z
<1> HIDE DEF e
<1>10. c \in I
  BY <1>6, <1>9
<1> HIDE DEF c
<1>11. BitWMerkleBlockSerialize(b) = a \o c
  BY DEF BitWMerkleBlockSerialize, a, c, x, v, h, u, f
<1> HIDE DEF a
<1>12. ReadFrom(a \o c)
  BY <1>1, <1>2, <1>10, HeaderRead
<1>13. ASSUME b.totalTx \in 1..(Span(W32) - 1)
       PROVE  HEADER + W32 <= Len(a \o c) /\ GetLE(a \o c, HEADER, W32) = b.totalTx
  <2>1. b.totalTx # 0 /\ b.totalTx \in 0..(Span(W32) - 1)
    BY <1>1, <1>13
  <2>2. c = x \o e
    BY <1>9, <2>1 DEF c
  <2>3. a \in I
    BY <1>1, <1>2, SeqWiden
  <2>4. (a \o x) \o e = a \o (x \o e)
    BY <1>6, <1>8, <1>9, <2>3, Zenon
  <2>5. GetLE(a \o x \o e, Len(a), Len(x)) = ValueLE(x)
    BY <1>6, <1>9, <2>3, GetMiddle
  <2>6. ValueLE(x) = b.totalTx
    BY <1>1, <2>1, LERoundTrip DEF x
  <2>7. Len(a \o c) = HEADER + W32 + Len(e) /\ Len(e) \in Nat
    <3> HIDE DEF I
    <3>1. x \o e \in I /\ Len(x \o e) = Len(x) + Len(e) /\ Len(e) \in Nat
      BY <1>6, <1>7, <1>9
    <3>2. Len(a \o (x \o e)) = Len(a) + Len(x \o e)
      BY <1>7, <2>3, <3>1
    <3> QED
      BY <1>1, <1>2, <1>3, <2>2, <3>1, <3>2
  <2> QED
    BY <1>1, <1>2, <1>3, <2>2, <2>4, <2>5, <2>6, <2>7
<1> DEFINE r == [BitWMerkleBlockParse(a \o c)[1] EXCEPT !.height = n]
<1>14. /\ Read(r) /\ r.height = n
       /\ {"totalTx", "hashes", "flags"} \subseteq DOMAIN r
       /\ HEADER + W32 <= Len(a \o c) => r.totalTx = GetLE(a \o c, HEADER, W32)
  BY <1>12, Zenon DEF ReadFrom
<1> HIDE DEF r
<1>15. b.totalTx \in 1..(Span(W32) - 1) => r.totalTx = b.totalTx
  BY <1>13, <1>14
<1>16. [BitWMerkleBlockParse(BitWMerkleBlockSerialize(b))[1] EXCEPT !.height = n] = r
  BY <1>11 DEF r
<1> QED
  BY <1>14, <1>15, <1>16

(* Damage changes the hashes and the flags only.                           *)
LEMMA DamagedType ==
  ASSUME NEW b \in SentBlocks, b.flags \in Seq(Nat), NEW d \in Damaged(b)
  PROVE  d \in SentBlocks /\ d.totalTx = b.totalTx
<1>1. b.hashes \in Seq(Hash) /\ Element \subseteq Hash
  BY SPVAssumption DEF SentBlocks
<1>2. BITS \in Nat /\ BITS > 0
  BY BitsFacts
<1>3. ASSUME NEW s \in Seq(Hash)  PROVE [b EXCEPT !.hashes = s] \in SentBlocks
                                        /\ [b EXCEPT !.hashes = s].totalTx = b.totalTx
  BY DEF SentBlocks
<1>4. ASSUME NEW s \in Seq(Int)  PROVE [b EXCEPT !.flags = s] \in SentBlocks
                                       /\ [b EXCEPT !.flags = s].totalTx = b.totalTx
  BY DEF SentBlocks
<1>5. CASE d = b
  BY <1>5
<1>6. ASSUME NEW k \in DOMAIN b.hashes, NEW other \in Element \cup ToSet(b.hashes),
             d = [b EXCEPT !.hashes[k] = other]
      PROVE  d \in SentBlocks /\ d.totalTx = b.totalTx
  <2> DEFINE s == [b.hashes EXCEPT ![k] = other]
  <2>1. other \in Hash
    BY <1>1 DEF ToSet
  <2>2. s \in Seq(Hash)
    BY <1>1, <2>1
  <2>3. d = [b EXCEPT !.hashes = s]
    BY <1>6
  <2> HIDE DEF s
  <2> QED
    BY <1>3, <2>2, <2>3
<1>7. ASSUME NEW k \in 0..(BITS * Len(b.flags) - 1),
             d = [b EXCEPT !.flags[(k \div BITS) + 1] =
                    IF Flag(b, k) THEN @ - 2^(k % BITS) ELSE @ + 2^(k % BITS)]
      PROVE  d \in SentBlocks /\ d.totalTx = b.totalTx
  <2> DEFINE i == (k \div BITS) + 1
             p == 2^(k % BITS)
             z == IF Flag(b, k) THEN b.flags[i] - p ELSE b.flags[i] + p
             s == [b.flags EXCEPT ![i] = z]
  <2>1. Len(b.flags) \in Nat
    OBVIOUS
  <2>2. i \in 1..Len(b.flags) /\ k % BITS \in Nat
    <3>1. k \in Indices(Len(b.flags))
      <4>1. BITS * Len(b.flags) = Len(b.flags) * BITS
        BY <1>2, <2>1
      <4> QED
        BY <4>1 DEF Indices
    <3>2. ByteOf(k) \in 1..Len(b.flags) /\ PlaceOf(k) \in Nat
      BY <2>1, <3>1, IndexFacts
    <3> QED
      BY <3>2 DEF ByteOf, PlaceOf
  <2>3. p \in Nat
    BY <2>2, PowerStep DEF Power
  <2>4. d = [b EXCEPT !.flags = s]
    BY <1>7
  <2> HIDE DEF p, i
  <2>5. z \in Int
    BY <2>2, <2>3
  <2> HIDE DEF z
  <2>6. s \in Seq(Int)
    <3>1. b.flags \in Seq(Int)
      BY DEF SentBlocks
    <3> QED
      BY <2>2, <2>5, <3>1
  <2> HIDE DEF s
  <2> QED
    BY <1>4, <2>4, <2>6
<1> QED
  BY <1>5, <1>6, <1>7 DEF Damaged

-----------------------------------------------------------------------------
(* Targets.                                                                *)

LEMMA TargetFacts ==
  /\ MANTISSA \in Nat /\ MANTISSA >= 2 /\ W32 = MANTISSA + 1
  /\ Span(MANTISSA) \in Nat /\ Span(MANTISSA) >= 4
  /\ Span(MANTISSA) \div 2 \in Nat /\ Span(MANTISSA) \div 2 > 0
<1>1. MANTISSA \in Nat /\ MANTISSA >= 2 /\ W32 = MANTISSA + 1
  BY WidthAssumption DEF MANTISSA
<1> DEFINE p == Span(MANTISSA)
<1>2. Span(0) = 1 /\ p \in Nat /\ Span(1) = BYTE /\ BYTE > 3 /\ BYTE \in Nat
  BY <1>1, SpanStep, BitsFacts
<1>3. 2 * Span(1) <= p
  BY <1>1, SpanMonotone
<1> HIDE DEF p
<1>4. p >= 4 /\ p \div 2 \in Nat /\ p \div 2 > 0
  BY <1>2, <1>3
<1> QED
  BY <1>1, <1>2, <1>4 DEF p

LEMMA TargetParts ==
  ASSUME NEW target \in Nat
  PROVE  /\ SizeOf(target) \in Nat
         /\ MantissaOf(target) \in Nat /\ MantissaOf(target) < Span(MANTISSA)
<1> DEFINE p == Span(MANTISSA)
<1>1. p \in Nat /\ p >= 4
  BY TargetFacts
<1> HIDE DEF p
<1>2. target \div p \in Nat /\ target % p \in 0..(p - 1)
  BY <1>1, ModFacts
<1> QED
  BY <1>1, <1>2 DEF SizeOf, MantissaOf, p

LEMMA CompactType ==
  ASSUME NEW mantissa \in Nat, NEW size \in Nat
  PROVE  Compact(mantissa, size) \in Nat
BY TargetFacts DEF Compact

(* A target is shifted as little as it takes to free its sign bit.         *)
Fits(mantissa, size, n) ==
  size + n >= 1 /\ mantissa \div Span(n) < Span(MANTISSA) \div 2
Shifts(mantissa, size, n) ==
  /\ Normalize(mantissa, size) = [mantissa |-> mantissa \div Span(n), size |-> size + n]
  /\ Fits(mantissa, size, n) /\ \A m \in 0..(n - 1) : ~Fits(mantissa, size, m)

LEMMA NormalizeFacts ==
  ASSUME NEW mantissa \in Nat, NEW size \in Int, size >= -1
  PROVE  \E n \in Nat : Shifts(mantissa, size, n)
<1> DEFINE fits(n) == size + n >= 1 /\ mantissa \div Span(n) < Span(MANTISSA) \div 2
           S == {n \in Nat : fits(n)}
           Q(n) == fits(n) /\ \A m \in 0..(n - 1) : ~fits(m)
           top == mantissa + 2
           shift == CHOOSE n \in 0..top : Q(n)
<1>1. Span(MANTISSA) \div 2 > 0 /\ Span(MANTISSA) \div 2 \in Nat
  BY TargetFacts
<1>2. fits(top)
  <2>1. Span(top) \in Nat /\ mantissa < Span(top)
    <3> DEFINE k == BITS * top
    <3>1. k \in Nat /\ k >= top
      BY BitsFacts
    <3> HIDE DEF k
    <3>2. Power(k) \in Nat /\ Power(k) > k
      BY <3>1, PowerLarge
    <3>3. Span(top) = Power(k)
      BY DEF Span, Power, k
    <3> QED
      BY <3>1, <3>2, <3>3
  <2>2. mantissa \div Span(top) = 0
    BY <2>1, SmallMod
  <2> QED
    BY <1>1, <2>2
<1>3. PICK n \in S : \A m \in S : n <= m
  <2>1. top \in S /\ S \in SUBSET Nat
    BY <1>2
  <2> HIDE DEF S
  <2> QED
    BY <2>1, Least
<1>4. n \in 0..top /\ Q(n)
  <2>1. n \in Nat /\ fits(n)
    BY <1>3
  <2>2. n <= top
    <3>1. top \in S
      BY <1>2
    <3> HIDE DEF S
    <3> QED
      BY <1>3, <3>1
  <2>3. \A m \in 0..(n - 1) : ~fits(m)
    <3> TAKE m \in 0..(n - 1)
    <3>1. m \in Nat /\ ~(n <= m)
      BY <2>1
    <3>2. m \notin S
      BY <1>3, <3>1
    <3> HIDE DEF fits
    <3> QED
      BY <3>1, <3>2
  <2> HIDE DEF fits
  <2> QED
    BY <2>1, <2>2, <2>3
<1> HIDE DEF Q
<1>5. shift \in 0..top /\ Q(shift)
  BY <1>4
<1>6. shift \in Nat /\ size + shift >= 1
  BY <1>5 DEF Q
<1>7. Normalize(mantissa, size) = [mantissa |-> mantissa \div Span(shift), size |-> size + shift]
  BY DEF Normalize, Q
<1> HIDE DEF shift
<1>8. Shifts(mantissa, size, shift)
  BY <1>5, <1>7 DEF Q, Shifts, Fits
<1> QED
  BY <1>6, <1>8

LEMMA TimespanFacts ==
  /\ TARGET_TIMESPAN \in Nat /\ TARGET_TIMESPAN > 0
  /\ TARGET_TIMESPAN \div BYTE \in Nat /\ TARGET_TIMESPAN \div BYTE > 0
  /\ TARGET_TIMESPAN = BYTE * (TARGET_TIMESPAN \div BYTE)
  /\ BLOCK_DIFFICULTY_INTERVAL \in Nat /\ BLOCK_DIFFICULTY_INTERVAL > 0
  /\ MAX_TARGET \in Nat /\ MAX_TARGET < Span(MANTISSA) \div 2
  /\ MAX_SIZE \in Nat /\ MAX_SIZE >= 3
<1> DEFINE unit == TARGET_TIMESPAN \div BYTE
<1>1. TARGET_TIMESPAN \in Nat /\ TARGET_TIMESPAN > 0 /\ TARGET_TIMESPAN % BYTE = 0
  BY MerkleAssumption
<1>2. BYTE \in Nat /\ BYTE > 0
  BY BitsFacts
<1>3. unit \in Nat /\ TARGET_TIMESPAN = BYTE * unit + (TARGET_TIMESPAN % BYTE)
  BY <1>1, <1>2, ModFacts
<1> HIDE DEF unit
<1>4. BYTE * 0 = 0
  BY <1>2
<1>5. unit > 0 /\ TARGET_TIMESPAN = BYTE * unit
  BY <1>1, <1>2, <1>3, <1>4
<1>6. BLOCK_DIFFICULTY_INTERVAL \in Nat /\ BLOCK_DIFFICULTY_INTERVAL > 0
  BY MerkleAssumption
<1>7. MAX_SIZE \in Nat /\ MAX_SIZE >= 3
  BY MerkleAssumption, TargetFacts, HashSeq
<1> QED
  BY <1>1, <1>3, <1>5, <1>6, <1>7, MerkleAssumption DEF unit

LEMMA LimitedType ==
  ASSUME NEW elapsed \in Int
  PROVE  Limited(elapsed) \in Nat
<1> DEFINE time == Int32(elapsed)
<1>1. TARGET_TIMESPAN \in Nat /\ TARGET_TIMESPAN \div 4 \in Nat
  BY TimespanFacts
<1>2. time \in Int
  <2> DEFINE n == Span(W32)
  <2>1. n \in Nat /\ n > 0
    BY WidthFacts
  <2> HIDE DEF n
  <2>2. (elapsed + n \div 2) % n \in Int /\ n \div 2 \in Int
    BY <2>1
  <2> QED
    BY <2>2 DEF Int32, n
<1> HIDE DEF time
<1> QED
  BY <1>1, <1>2 DEF Limited, time

(* The target of a transition, before it is limited.                       *)
Multiplied(target, elapsed) ==
  (MantissaOf(target) * Limited(elapsed)) \div (TARGET_TIMESPAN \div BYTE)

LEMMA TransitionType ==
  ASSUME NEW target \in Nat, NEW elapsed \in Int
  PROVE  TransitionTarget(target, elapsed) \in Nat
<1> DEFINE m == Multiplied(target, elapsed)
           t == Normalize(m, SizeOf(target) - 1)
<1>1. m \in Nat
  <2>1. MantissaOf(target) * Limited(elapsed) \in Nat
    BY TargetParts, LimitedType
  <2> QED
    BY <2>1, TimespanFacts, ModFacts DEF Multiplied
<1> HIDE DEF m
<1>2. t.mantissa \in Nat /\ t.size \in Nat
  <2>1. SizeOf(target) - 1 \in Int /\ SizeOf(target) - 1 >= -1
    BY TargetParts
  <2>2. PICK n \in Nat : Shifts(m, SizeOf(target) - 1, n)
    BY <1>1, <2>1, NormalizeFacts
  <2>3. m \div Span(n) \in Nat
    BY <1>1, SpanStep, ModFacts
  <2> QED
    BY <2>1, <2>2, <2>3 DEF Shifts, Fits
<1> HIDE DEF t
<1>3. Compact(MAX_TARGET, MAX_SIZE) \in Nat /\ Compact(t.mantissa, t.size) \in Nat
  BY <1>2, TimespanFacts, CompactType
<1>4. TransitionTarget(target, elapsed) =
        IF TooEasy(t.mantissa, t.size) THEN Compact(MAX_TARGET, MAX_SIZE)
        ELSE Compact(t.mantissa, t.size)
  BY DEF TransitionTarget, t, m, Multiplied
<1> QED
  BY <1>3, <1>4

-----------------------------------------------------------------------------
(* The bytes of a target and of a hash, as numbers.                        *)

LEMMA SpanAdd ==
  ASSUME NEW m \in Nat, NEW n \in Nat
  PROVE  Span(m + n) = Span(m) * Span(n)
<1>1. BITS * m \in Nat /\ BITS * n \in Nat /\ BITS * (m + n) = BITS * m + BITS * n
  BY BitsFacts
<1>2. Power(BITS * m + BITS * n) = Power(BITS * m) * Power(BITS * n)
  BY <1>1, PowerAdd
<1> QED
  BY <1>1, <1>2 DEF Span, Power

LEMMA MulDiv ==
  ASSUME NEW m \in Nat, NEW n \in Nat, n > 0
  PROVE  (m * n) \div n = m /\ (m * n) % n = 0
<1> DEFINE u == m * n
           q == u \div n
           r == u % n
<1>1. u \in Nat /\ n * m + 0 = u
  OBVIOUS
<1> HIDE DEF u
<1>2. r \in 0..(n - 1) /\ q \in Nat /\ u = n * q + r
  BY <1>1, ModFacts
<1> HIDE DEF q, r
<1>3. 0 \in 0..(n - 1) /\ n * m + 0 = n * q + r
  BY <1>1, <1>2
<1>4. m = q /\ 0 = r
  BY <1>2, <1>3, DivUnique
<1> QED
  BY <1>4 DEF q, r, u

(* Digits beyond those of a number are zero.                               *)
LEMMA NoDigit ==
  ASSUME NEW u \in Nat, NEW k \in Nat, NEW j \in Nat, u < Span(k), k <= j
  PROVE  (u \div Span(j)) % BYTE = 0
<1>1. Span(k) \in Nat /\ Span(j) \in Nat /\ (k < j => 2 * Span(k) <= Span(j))
  BY SpanStep, SpanMonotone
<1>2. u < Span(j)
  BY <1>1
<1>3. u \div Span(j) = 0
  BY <1>1, <1>2, SmallMod
<1>4. 0 % BYTE = 0
  BY BitsFacts, SmallMod
<1> QED
  BY <1>3, <1>4

LEMMA ValueType ==
  ASSUME NEW mantissa \in Nat, NEW size \in Nat
  PROVE  Value(mantissa, size) \in Nat
<1>1. MANTISSA \in Nat
  BY TargetFacts
<1>2. CASE size < MANTISSA
  <2>1. MANTISSA - size \in Nat
    BY <1>1, <1>2
  <2>2. Span(MANTISSA - size) \in Nat /\ Span(MANTISSA - size) > 0
    BY <2>1, SpanStep
  <2> QED
    BY <1>2, <2>2, ModFacts DEF Value
<1>3. CASE ~(size < MANTISSA)
  <2>1. size - MANTISSA \in Nat
    BY <1>1, <1>3
  <2>2. Span(size - MANTISSA) \in Nat
    BY <2>1, SpanStep
  <2> QED
    BY <1>3, <2>2 DEF Value
<1> QED
  BY <1>2, <1>3

(* The digits of a target are those of its mantissa, size - MANTISSA on.   *)
LEMMA TargetDigit ==
  ASSUME NEW m \in Nat, m < Span(MANTISSA), NEW size \in Nat, NEW k \in Nat, k > 0
  PROVE  (Value(m, size) \div Span(k - 1)) % BYTE =
           LET j == k - (size - MANTISSA)
           IN IF j \in 1..W32 THEN (m \div Span(j - 1)) % BYTE ELSE 0
<1> DEFINE j == k - (size - MANTISSA)
<1>1. MANTISSA \in Nat /\ W32 = MANTISSA + 1 /\ BYTE \in Nat /\ BYTE > 0
  BY TargetFacts, BitsFacts
<1>2. ASSUME j > 0, Value(m, size) \div Span(k - 1) = m \div Span(j - 1)
      PROVE  (Value(m, size) \div Span(k - 1)) % BYTE =
               IF j \in 1..W32 THEN (m \div Span(j - 1)) % BYTE ELSE 0
  <2>1. j \in Nat /\ j - 1 \in Nat
    BY <1>1, <1>2
  <2> HIDE DEF j
  <2>2. CASE j \in 1..W32
    BY <1>2, <2>2
  <2>3. CASE j \notin 1..W32
    <3>1. MANTISSA <= j - 1
      BY <1>1, <1>2, <2>1, <2>3
    <3>2. (m \div Span(j - 1)) % BYTE = 0
      BY <1>1, <2>1, <3>1, NoDigit
    <3> QED
      BY <1>2, <2>3, <3>2
  <2> QED
    BY <2>2, <2>3
<1>3. CASE size < MANTISSA
  <2> DEFINE e == MANTISSA - size
  <2>1. e \in Nat /\ k - 1 \in Nat /\ j = k + e /\ j > 0 /\ e + (k - 1) = j - 1
    BY <1>1, <1>3
  <2>2. Value(m, size) = m \div Span(e)
    BY <1>3 DEF Value
  <2> HIDE DEF e, j
  <2>3. Span(e) \in Nat /\ Span(e) > 0 /\ Span(k - 1) \in Nat /\ Span(k - 1) > 0
        /\ Span(j - 1) = Span(e) * Span(k - 1)
    <3> DEFINE a == k - 1
    <3>1. a \in Nat
      BY <2>1
    <3> HIDE DEF a
    <3>2. Span(e + a) = Span(e) * Span(a)
      BY <2>1, <3>1, SpanAdd
    <3>3. Span(e) \in Nat /\ Span(e) > 0 /\ Span(a) \in Nat /\ Span(a) > 0
      BY <2>1, <3>1, SpanStep
    <3>4. e + a = j - 1
      BY <2>1 DEF a
    <3> QED
      BY <3>2, <3>3, <3>4 DEF a
  <2>4. m \div (Span(e) * Span(k - 1)) = (m \div Span(e)) \div Span(k - 1)
    BY <2>3, DivDiv
  <2>5. Value(m, size) \div Span(k - 1) = m \div Span(j - 1)
    BY <2>2, <2>3, <2>4
  <2> QED
    BY <1>2, <2>1, <2>5 DEF j
<1>4. CASE ~(size < MANTISSA)
  <2> DEFINE d == size - MANTISSA
  <2>1. d \in Nat /\ j = k - d
    BY <1>1, <1>4
  <2>2. Value(m, size) = m * Span(d)
    BY <1>4 DEF Value
  <2>3. Span(d) \in Nat /\ Span(d) > 0
    BY <2>1, SpanStep
  <2> HIDE DEF d, j
  <2>4. CASE k <= d
    <3> DEFINE a == k - 1
               b == d - k
               p == Span(a)
               q == Span(b)
               r == Span(b + 1)
    <3>1. a \in Nat /\ b \in Nat /\ d = (b + 1) + a /\ ~(j \in 1..W32)
      BY <2>1, <2>4
    <3>2. p \in Nat /\ p > 0 /\ q \in Nat /\ r = BYTE * q /\ Span(d) = r * p
      BY <3>1, SpanStep, SpanAdd
    <3> HIDE DEF a, b, p, q, r
    <3>3. r \in Nat /\ m * (r * p) = (m * r) * p /\ m * r \in Nat /\ m * r = (m * q) * BYTE
          /\ m * q \in Nat
      BY <1>1, <3>2
    <3>4. ((m * r) * p) \div p = m * r
      BY <3>2, <3>3, MulDiv
    <3>5. ((m * q) * BYTE) % BYTE = 0
      BY <1>1, <3>3, MulDiv
    <3>6. Value(m, size) \div p = m * r
      BY <2>2, <3>2, <3>3, <3>4
    <3>7. (Value(m, size) \div p) % BYTE = 0
      BY <3>3, <3>5, <3>6
    <3> QED
      BY <3>1, <3>7 DEF p, a, j
  <2>5. CASE ~(k <= d)
    <3>1. j - 1 \in Nat /\ j > 0 /\ k - 1 = d + (j - 1)
      BY <2>1, <2>5
    <3> DEFINE p == Span(d)
               q == Span(j - 1)
               u == m * p
    <3>2. q \in Nat /\ q > 0 /\ Span(k - 1) = p * q
      <4> DEFINE a == j - 1
      <4>1. a \in Nat
        BY <3>1
      <4> HIDE DEF a
      <4>2. Span(d + a) = Span(d) * Span(a)
        BY <2>1, <4>1, SpanAdd
      <4>3. Span(a) \in Nat /\ Span(a) > 0
        BY <4>1, SpanStep
      <4>4. d + a = k - 1
        BY <3>1 DEF a
      <4> QED
        BY <4>2, <4>3, <4>4 DEF a
    <3>3. u \in Nat /\ u \div p = m
      BY <2>3, MulDiv
    <3>4. p \in Nat /\ p > 0
      BY <2>3
    <3> HIDE DEF p, q, u
    <3>5. u \div (p * q) = (u \div p) \div q
      BY <3>2, <3>3, <3>4, DivDiv
    <3>6. Value(m, size) \div Span(k - 1) = m \div q
      BY <2>2, <3>2, <3>3, <3>5 DEF u, p
    <3> QED
      BY <1>2, <3>1, <3>6 DEF q, j
  <2> QED
    BY <2>4, <2>5
<1> QED
  BY <1>3, <1>4

LEMMA TargetBytesFacts ==
  ASSUME NEW target \in Nat
  PROVE  /\ TargetBytes(target) \in Seq(Byte) /\ Len(TargetBytes(target)) = HASH
         /\ TargetValue(target) \in Nat
         /\ ValueLE(TargetBytes(target)) <= TargetValue(target)
<1> DEFINE size == SizeOf(target)
           m == MantissaOf(target)
           v == TargetValue(target)
           b == LE(m, W32)
           digit(k) == LET j == k - (size - MANTISSA) IN IF j \in 1..W32 THEN b[j] ELSE 0
<1>1. size \in Nat /\ m \in Nat /\ m < Span(MANTISSA)
  BY TargetParts
<1>2. v \in Nat /\ v = Value(m, size)
  BY <1>1, ValueType DEF TargetValue
<1>3. TargetBytes(target) = [k \in 1..HASH |-> digit(k)]
  BY DEF TargetBytes
<1>4. \A j \in 1..W32 : b[j] = (m \div Span(j - 1)) % BYTE
  BY DEF LE
<1> HIDE DEF size, m, v, b
<1>5. ASSUME NEW k \in 1..HASH  PROVE digit(k) = (v \div Span(k - 1)) % BYTE
  <2>1. k \in Nat /\ k > 0
    BY HashSeq
  <2> DEFINE j == k - (size - MANTISSA)
  <2>2. (v \div Span(k - 1)) % BYTE = IF j \in 1..W32 THEN (m \div Span(j - 1)) % BYTE ELSE 0
    BY <1>1, <1>2, <2>1, TargetDigit
  <2> HIDE DEF j
  <2>3. digit(k) = IF j \in 1..W32 THEN b[j] ELSE 0
    BY DEF j
  <2> QED
    BY <1>4, <2>2, <2>3
<1> HIDE DEF digit
<1>6. TargetBytes(target) = LE(v, HASH)
  BY <1>3, <1>5 DEF LE
<1>7. HASH \in Nat
  BY HashSeq
<1>8. LE(v, HASH) \in Seq(Byte) /\ Len(LE(v, HASH)) = HASH
  BY <1>2, <1>7, LEDigits
<1>9. ValueLE(LE(v, HASH)) = v % Span(HASH)
  BY <1>2, <1>7, ValueOfLE
<1>10. v % Span(HASH) <= v
  <2> DEFINE n == Span(HASH)
             q == v \div n
             r == v % n
  <2>1. n \in Nat /\ n > 0
    BY <1>7, SpanStep
  <2>2. r \in 0..(n - 1) /\ q \in Nat /\ v = n * q + r
    BY <1>2, <2>1, ModFacts
  <2> HIDE DEF n, q, r
  <2>3. n * q >= 0 /\ n * q \in Int
    BY <2>1, <2>2
  <2>4. r <= v
    BY <1>2, <2>1, <2>2, <2>3
  <2> QED
    BY <2>4 DEF r, n
<1> QED
  BY <1>2, <1>6, <1>8, <1>9, <1>10 DEF v

(* A target that is not too easy is at most the limit.                     *)
LEMMA ValueLimit ==
  ASSUME NEW m \in Nat, m < Span(MANTISSA) \div 2, NEW size \in Nat, ~TooEasy(m, size)
  PROVE  Value(m, size) <= ProofOfWorkLimit
<1> DEFINE M == MANTISSA
           top == MAX_SIZE - M
           T == MAX_TARGET
           L == Span(top)
<1>1. /\ M \in Nat /\ MAX_SIZE \in Nat /\ top \in Nat /\ top >= 1 /\ T \in Nat
      /\ Span(M) \div 2 <= BYTE * T /\ BYTE \in Nat /\ BYTE > 3
      /\ Span(M) \div 2 \in Nat
  BY TargetFacts, HashSeq, MerkleAssumption, BitsFacts
<1>2. ProofOfWorkLimit = T * L /\ L \in Nat /\ L >= BYTE
  <2>1. ~(MAX_SIZE < M)
    BY <1>1
  <2>2. ProofOfWorkLimit = T * L
    BY <2>1 DEF ProofOfWorkLimit, Value
  <2>3. Span(1) = BYTE /\ L \in Nat /\ (1 < top => 2 * Span(1) <= L)
    BY <1>1, SpanStep, SpanMonotone
  <2> QED
    BY <1>1, <2>2, <2>3
<1>3. ~(size > MAX_SIZE) /\ ~(size = MAX_SIZE /\ m > T)
  BY DEF TooEasy
<1>4. m < BYTE * T
  BY <1>1
<1>5. CASE size < M
  <2> DEFINE e == M - size
             p == Span(e)
             v == m \div p
  <2>1. e \in Nat
    BY <1>1, <1>5
  <2> HIDE DEF e
  <2>2. p \in Nat /\ p > 0
    BY <2>1, SpanStep
  <2>3. Value(m, size) = v
    BY <1>5 DEF Value, e
  <2> HIDE DEF p
  <2>4. v \in Nat /\ m = p * v + (m % p) /\ m % p \in Nat
    BY <2>2, ModFacts
  <2> HIDE DEF v
  <2>5. p * v >= v
    <3>1. (p - 1) * v >= 0
      BY <2>2, <2>4
    <3>2. p * v = (p - 1) * v + v
      BY <2>2, <2>4
    <3> QED
      BY <2>2, <2>4, <3>1, <3>2
  <2>6. v < BYTE * T
    BY <1>1, <1>4, <2>2, <2>4, <2>5
  <2>7. BYTE * T <= T * L
    <3>1. (L - BYTE) * T >= 0
      BY <1>1, <1>2
    <3>2. T * L = (L - BYTE) * T + BYTE * T
      BY <1>1, <1>2
    <3> QED
      BY <1>1, <1>2, <3>1, <3>2
  <2> HIDE DEF L
  <2> QED
    BY <1>1, <1>2, <2>3, <2>4, <2>6, <2>7
<1>6. CASE size = MAX_SIZE
  <2>1. Value(m, size) = m * L
    BY <1>1, <1>6 DEF Value
  <2>2. m <= T
    BY <1>1, <1>3, <1>6
  <2>3. (T - m) * L >= 0
    BY <1>1, <1>2, <2>2
  <2>4. T * L = (T - m) * L + m * L
    BY <1>1, <1>2
  <2> HIDE DEF L
  <2> QED
    BY <1>1, <1>2, <2>1, <2>3, <2>4
<1>7. CASE ~(size < M) /\ size # MAX_SIZE
  <2> DEFINE d == size - M
             p == Span(d)
  <2>1. d \in Nat /\ d + 1 <= top
    BY <1>1, <1>3, <1>7
  <2>2. Value(m, size) = m * p
    BY <1>7 DEF Value
  <2>3. p \in Nat /\ Span(d + 1) = BYTE * p
    BY <2>1, SpanStep
  <2>4. BYTE * p <= L
    <3> DEFINE q == Span(d + 1)
    <3>1. (d + 1 < top => 2 * q <= L) /\ q \in Nat
      <4> DEFINE e == d + 1
      <4>1. e \in Nat /\ top \in Nat
        BY <1>1, <2>1
      <4> HIDE DEF e, top
      <4>2. e < top => 2 * Span(e) <= Span(top)
        BY <4>1, SpanMonotone
      <4>3. Span(e) \in Nat
        BY <4>1, SpanStep
      <4> QED
        BY <4>2, <4>3 DEF e
    <3>2. d + 1 = top => q = L
      OBVIOUS
    <3> HIDE DEF q, L
    <3>3. q <= L
      BY <1>1, <1>2, <2>1, <3>1, <3>2
    <3> QED
      BY <2>3, <3>3 DEF q
  <2> HIDE DEF p, L
  <2>5. m * p <= (BYTE * T) * p
    <3>1. (BYTE * T - m) * p >= 0
      BY <1>1, <1>4, <2>3
    <3>2. (BYTE * T) * p = (BYTE * T - m) * p + m * p
      BY <1>1, <2>3
    <3> QED
      BY <1>1, <2>3, <3>1, <3>2
  <2>6. (BYTE * T) * p <= T * L
    <3>1. (L - BYTE * p) * T >= 0
      BY <1>1, <1>2, <2>3, <2>4
    <3>2. T * L = (L - BYTE * p) * T + (BYTE * T) * p
      BY <1>1, <1>2, <2>3
    <3> QED
      BY <1>1, <1>2, <2>3, <3>1, <3>2
  <2> QED
    BY <1>1, <1>2, <2>2, <2>3, <2>5, <2>6
<1> QED
  BY <1>5, <1>6, <1>7

(* Of two numbers, the one that is smaller at the highest byte at which    *)
(* they differ is the smaller one.                                         *)
LEMMA HashBelowValue ==
  ASSUME NEW s \in Seq(Byte), NEW t \in Seq(Byte), Len(s) = HASH, Len(t) = HASH, HashBelow(s, t)
  PROVE  ValueLE(s) <= ValueLE(t)
<1> DEFINE V(r, k) == ValueLE(SubSeq(r, 1, k))
           n == HASH
           Below(k) == \A i \in 1..k : (\A j \in (i + 1)..k : s[j] = t[j]) => s[i] <= t[i]
           S == {k \in 0..n : Below(k) => V(s, k) <= V(t, k)}
<1>1. n \in Nat /\ Len(s) = n /\ Len(t) = n
  BY HashSeq
<1>2. \A k \in 0..n : V(s, k) \in Nat /\ V(t, k) \in Nat /\ V(s, k) < Span(k)
  BY <1>1, PrefixBound
<1>3. 0 \in S
  <2>1. SubSeq(s, 1, 0) = <<>> /\ SubSeq(t, 1, 0) = <<>>
    OBVIOUS
  <2>2. V(s, 0) = V(t, 0)
    BY <2>1
  <2> HIDE DEF V
  <2> QED
    BY <1>1, <1>2, <2>2
<1>4. ASSUME NEW k \in 1..n, k - 1 \in S  PROVE k \in S
  <2> SUFFICES ASSUME Below(k)  PROVE V(s, k) <= V(t, k)
    OBVIOUS
  <2> DEFINE p == Span(k - 1)
  <2>1. V(s, k) = V(s, k - 1) + s[k] * p /\ V(t, k) = V(t, k - 1) + t[k] * p
    BY <1>1, PrefixValue
  <2>2. k - 1 \in 0..n /\ k \in Nat
    BY <1>1
  <2>3. /\ V(s, k - 1) \in Nat /\ V(t, k - 1) \in Nat /\ V(s, k - 1) < p /\ p \in Nat
    BY <1>2, <2>2, SpanStep
  <2>4. s[k] \in Nat /\ t[k] \in Nat
    <3>1. s[k] \in Byte /\ t[k] \in Byte
      BY <1>1
    <3> QED
      BY <3>1, BitsFacts DEF Byte
  <2>5. s[k] <= t[k]
    <3>1. \A j \in (k + 1)..k : s[j] = t[j]
      BY <2>2
    <3>2. k \in 1..k
      BY <2>2
    <3> QED
      BY <3>1, <3>2
  <2>6. CASE s[k] = t[k]
    <3>1. Below(k - 1)
      <4> SUFFICES ASSUME NEW i \in 1..(k - 1), \A j \in (i + 1)..(k - 1) : s[j] = t[j]
                   PROVE  s[i] <= t[i]
        OBVIOUS
      <4>1. \A j \in (i + 1)..k : s[j] = t[j]
        <5> TAKE j \in (i + 1)..k
        <5>1. j = k \/ j \in (i + 1)..(k - 1)
          BY <2>2
        <5> QED
          BY <2>6, <5>1
      <4>2. i \in 1..k
        BY <2>2
      <4> QED
        BY <4>1, <4>2
    <3> HIDE DEF Below, V
    <3>2. V(s, k - 1) <= V(t, k - 1)
      BY <1>4, <3>1
    <3> HIDE DEF p
    <3>3. s[k] * p \in Nat
      BY <2>3, <2>4
    <3> QED
      BY <2>1, <2>3, <2>6, <3>2, <3>3
  <2>7. CASE s[k] # t[k]
    <3> DEFINE a == s[k]
               b == t[k]
    <3>1. a \in Nat /\ b \in Nat /\ a + 1 <= b
      BY <2>4, <2>5, <2>7
    <3> HIDE DEF a, b, p, V, Below
    <3>2. (b - a - 1) * p >= 0
      BY <2>3, <3>1
    <3>3. b * p = (b - a - 1) * p + a * p + p /\ a * p \in Nat /\ b * p \in Nat
      BY <2>3, <3>1
    <3>4. V(s, k) = V(s, k - 1) + a * p /\ V(t, k) = V(t, k - 1) + b * p
      BY <2>1 DEF a, b
    <3>5. (b - a - 1) * p \in Int
      BY <2>3, <3>1
    <3> QED
      BY <2>3, <3>2, <3>3, <3>4, <3>5
  <2> QED
    BY <2>6, <2>7
<1>5. n \in S
  <2> HIDE DEF S
  <2>1. \A k \in 0..n : k \in S
    BY <1>1, <1>3, <1>4, AllUpTo
  <2> QED
    BY <1>1, <2>1
<1>6. Below(n)
  BY DEF HashBelow
<1>7. SubSeq(s, 1, n) = s /\ SubSeq(t, 1, n) = t
  <2> HIDE DEF n
  <2>1. SubSeq(s, 1, n) \in Seq(Byte) /\ Len(SubSeq(s, 1, n)) = n
        /\ \A j \in 1..n : SubSeq(s, 1, n)[j] = s[j]
    BY <1>1
  <2>2. SubSeq(t, 1, n) \in Seq(Byte) /\ Len(SubSeq(t, 1, n)) = n
        /\ \A j \in 1..n : SubSeq(t, 1, n)[j] = t[j]
    BY <1>1
  <2> QED
    BY <1>1, <2>1, <2>2
<1> QED
  BY <1>5, <1>6, <1>7

-----------------------------------------------------------------------------
(* What holds in every state.                                              *)

BlockKnown(b) == b.blockHash \in Hash /\ b.timestamp \in Nat /\ b.target \in Nat /\ b.height \in Nat
WorkShown(b) ==
  /\ MantissaOf(b.target) < Span(MANTISSA) \div 2
  /\ ~TooEasy(MantissaOf(b.target), SizeOf(b.target))
  /\ HashBelow(b.blockHash, TargetBytes(b.target))

ChainInv ==
  /\ (\E S : chain \in Seq(S)) /\ chain # <<>>
  /\ \A k \in 1..Len(chain) : BlockKnown(chain[k])
  /\ \A k \in 2..Len(chain) : WorkShown(chain[k])

InFilter(f, elements) == \A e \in elements : BitWBloomFilterContainsData(f, e)
FilterInv ==
  /\ \/ filter = <<>> /\ inserted = {}
     \/ \E f \in Filters : filter = <<f>> /\ inserted \subseteq Element /\ InFilter(f, inserted)
  /\ \/ peer = <<>>
     \/ /\ filter # <<>>
        /\ \E f \in Filters, elements \in SUBSET Element :
             peer = <<[filter |-> f, elements |-> elements]>> /\ InFilter(f, elements)

BlockInv ==
  txs # <<>> =>
    /\ txs \in Blocks /\ peer # <<>> /\ block # <<>>
    /\ block[1].totalTx = Len(txs) /\ {"totalTx", "hashes", "flags"} \subseteq DOMAIN block[1]

LightInv == ChainInv /\ FilterInv /\ BlockInv

LEMMA LastKnown ==
  ASSUME ChainInv
  PROVE  /\ BlockKnown(Last(chain)) /\ Len(chain) \in Nat /\ Len(chain) > 0
         /\ \A height : TransitionTime(height) \in Nat
         /\ DueTarget \in Nat
<1> DEFINE last == Last(chain)
<1>1. Len(chain) \in Nat /\ Len(chain) > 0 /\ DOMAIN chain = 1..Len(chain)
  BY DEF ChainInv
<1>2. Len(chain) \in 1..Len(chain)
  BY <1>1
<1>3. BlockKnown(last)
  BY <1>2 DEF ChainInv, Last
<1>4. ASSUME NEW height  PROVE TransitionTime(height) \in Nat
  <2> DEFINE at == {k \in DOMAIN chain : chain[k].height = height - BLOCK_DIFFICULTY_INTERVAL}
             k == CHOOSE k \in at : TRUE
  <2>1. CASE at = {}
    BY <2>1 DEF TransitionTime
  <2>2. CASE at # {}
    <3>1. k \in at
      BY <2>2
    <3>2. k \in 1..Len(chain)
      BY <1>1, <3>1
    <3>3. TransitionTime(height) = chain[k].timestamp
      BY <2>2 DEF TransitionTime
    <3> HIDE DEF k
    <3> QED
      BY <3>2, <3>3 DEF ChainInv, BlockKnown
  <2> QED
    BY <2>1, <2>2
<1> HIDE DEF last
<1>5. last.timestamp \in Nat /\ last.target \in Nat
  BY <1>3 DEF BlockKnown
<1>6. DueTarget \in Nat
  <2> DEFINE height == last.height + 1
             timespan == last.timestamp - TransitionTime(height)
  <2>1. TransitionTime(height) \in Nat
    BY <1>4
  <2> HIDE DEF height
  <2>2. timespan \in Int
    BY <1>5, <2>1
  <2>3. TransitionTarget(last.target, timespan) \in Nat
    BY <1>5, <2>2, TransitionType
  <2>4. DueTarget = IF height % BLOCK_DIFFICULTY_INTERVAL = 0
                    THEN TransitionTarget(last.target, timespan) ELSE last.target
    BY DEF DueTarget, last, height
  <2> HIDE DEF timespan
  <2> QED
    BY <1>5, <2>3, <2>4
<1> QED
  BY <1>1, <1>3, <1>4, <1>6 DEF last

(* Only a block that was checked is put on the chain, behind all others.   *)
OnlyGrows ==
  \/ UNCHANGED chain
  \/ \E r : /\ BlockKnown(r) /\ r.height = Last(chain).height + 1
           /\ Accepted(r) /\ chain' = Append(chain, r)

(* Whatever arrives, the wallet only extends its chain by a block with     *)
(* work.                                                                   *)
LEMMA ReceiveFacts ==
  ASSUME HashesFit, ChainInv, NEW b \in SentBlocks, Receive(b)
  PROVE  /\ ChainInv' /\ OnlyGrows
         /\ \E r : /\ block' = <<r>>
                   /\ {"totalTx", "hashes", "flags"} \subseteq DOMAIN r
                   /\ b.totalTx \in 1..(Span(W32) - 1) => r.totalTx = b.totalTx
<1> DEFINE height == Last(chain).height + 1
           r == [BitWMerkleBlockParse(BitWMerkleBlockSerialize(b))[1] EXCEPT !.height = height]
<1>1. height \in Nat /\ Len(chain) \in Nat /\ Len(chain) > 0
  BY LastKnown DEF BlockKnown
<1>2. block' = <<r>> /\ chain' = IF Accepted(r) THEN Append(chain, r) ELSE chain
  BY DEF Receive
<1> HIDE DEF height
<1>3. /\ Read(r) /\ r.height = height
      /\ {"totalTx", "hashes", "flags"} \subseteq DOMAIN r
      /\ b.totalTx \in 1..(Span(W32) - 1) => r.totalTx = b.totalTx
  BY SentRead
<1> HIDE DEF r
<1>4. BlockKnown(r)
  BY <1>1, <1>3 DEF BlockKnown, Read
<1>5. Accepted(r) => WorkShown(r)
  BY DEF Accepted, BitWMerkleBlockIsValid, WorkShown
<1>6. ChainInv'
  <2>1. CASE Accepted(r)
    <3> DEFINE c == Append(chain, r)
               n == Len(chain)
    <3>1. chain' = c
      BY <1>2, <2>1
    <3>2. PICK S : chain \in Seq(S)
      BY DEF ChainInv
    <3>3. /\ c \in Seq(S \cup {r}) /\ Len(c) = n + 1 /\ c[n + 1] = r
          /\ \A k \in 1..n : c[k] = chain[k]
      <4>1. chain \in Seq(S \cup {r})
        BY <3>2, SeqWiden
      <4> QED
        BY <4>1
    <3> HIDE DEF c
    <3>4. \A k \in 1..Len(c) : BlockKnown(c[k])
      <4> TAKE k \in 1..Len(c)
      <4>1. k = n + 1 \/ k \in 1..n
        BY <1>1, <3>3
      <4>2. CASE k = n + 1
        BY <1>4, <3>3, <4>2
      <4>3. CASE k \in 1..n
        BY <3>3, <4>3 DEF ChainInv
      <4> QED
        BY <4>1, <4>2, <4>3
    <3>5. \A k \in 2..Len(c) : WorkShown(c[k])
      <4> TAKE k \in 2..Len(c)
      <4>1. k = n + 1 \/ k \in 2..n
        BY <1>1, <3>3
      <4>2. CASE k = n + 1
        BY <1>5, <2>1, <3>3, <4>2
      <4>3. CASE k \in 2..n
        <5>1. k \in 1..n /\ WorkShown(chain[k])
          BY <4>3 DEF ChainInv
        <5> QED
          BY <3>3, <5>1
      <4> QED
        BY <4>1, <4>2, <4>3
    <3>6. c # <<>>
      <4>1. Len(c) # 0
        BY <1>1, <3>3
      <4> QED
        BY <4>1
    <3>7. \E T : c \in Seq(T)
      BY <3>3
    <3> QED
      BY <3>1, <3>4, <3>5, <3>6, <3>7 DEF ChainInv
  <2>2. CASE ~Accepted(r)
    <3>1. chain' = chain
      BY <1>2, <2>2
    <3> QED
      BY <3>1 DEF ChainInv
  <2> QED
    BY <2>1, <2>2
<1>7. OnlyGrows
  <2>1. r.height = Last(chain).height + 1
    BY <1>3 DEF height
  <2>2. CASE Accepted(r)
    BY <1>2, <1>4, <2>1, <2>2 DEF OnlyGrows
  <2>3. CASE ~Accepted(r)
    BY <1>2, <2>3 DEF OnlyGrows
  <2> QED
    BY <2>2, <2>3
<1> QED
  BY <1>2, <1>3, <1>6, <1>7

LEMMA HeaderType ==
  ASSUME ChainInv, NEW root \in Hash, NEW time \in Nat, NEW target \in Nat, NEW nonce \in Nat
  PROVE  Header(root, time, target, nonce) \in SentBlocks
<1>1. Last(chain).blockHash \in Hash
  BY LastKnown DEF BlockKnown
<1>2. <<>> \in Seq(Hash) /\ <<>> \in Seq(Int)
  OBVIOUS
<1> QED
  BY <1>1, <1>2 DEF Header, SentBlocks

LEMMA MerkleBlockType ==
  ASSUME HashesFit, NEW t \in Seq(Hash), t # <<>>, NEW f, NEW header \in SentBlocks
  PROVE  /\ MerkleBlockOf(t, f, header) \in SentBlocks
         /\ MerkleBlockOf(t, f, header).flags \in Seq(Nat)
         /\ MerkleBlockOf(t, f, header).totalTx = Len(t)
<1> DEFINE p == Partial(t, f)[Height(t)][0]
           flags == Packed(p.bits)
           hashes == p.hashes
<1>1. p \in Part
  <2>1. Height(t) \in 0..Height(t) /\ 0 \in Positions(t, Height(t))
    BY HeightFacts, NodeFacts
  <2>2. Partial(t, f)[Height(t)] \in [Positions(t, Height(t)) -> Part]
    BY <2>1, PartialFacts
  <2> QED
    BY <2>1, <2>2
<1> HIDE DEF p
<1>2. p.bits \in Seq({0, 1}) /\ hashes \in Seq(Hash)
  BY <1>1 DEF Part
<1>3. flags \in Seq(Nat)
  BY <1>2, PackedFacts
<1>4. flags \in Seq(Int)
  BY <1>3, SeqWiden
<1>5. Len(t) \in Nat
  OBVIOUS
<1> DEFINE n == Len(t)
           b == [header EXCEPT !.totalTx = n, !.hashes = hashes, !.flags = flags]
<1>6. MerkleBlockOf(t, f, header) = b
  BY DEF MerkleBlockOf, p
<1> HIDE DEF flags, hashes, n
<1> DEFINE c == [header EXCEPT !.totalTx = n]
           d == [c EXCEPT !.hashes = hashes]
<1>7. c \in SentBlocks /\ c.totalTx = n
  BY <1>5 DEF SentBlocks, n
<1>8. d \in SentBlocks /\ d.totalTx = n
  <2> HIDE DEF c
  <2> QED
    BY <1>2, <1>7 DEF SentBlocks
<1>9. b = [d EXCEPT !.flags = flags]
  OBVIOUS
<1> HIDE DEF d, b
<1>10. b \in SentBlocks /\ b.totalTx = n /\ b.flags = flags
  BY <1>4, <1>8, <1>9 DEF SentBlocks
<1> QED
  BY <1>3, <1>6, <1>10 DEF n

LEMMA LoadedFilter ==
  ASSUME NEW f \in Filters
  PROVE  LET g == BitWBloomFilterParse(BitWBloomFilterSerialize(f))[1]
         IN /\ g \in Filters
            /\ \A e : BitWBloomFilterContainsData(f, e) => BitWBloomFilterContainsData(g, e)
<1> DEFINE g == [f EXCEPT !.elemCount = 0]
<1>1. BitWBloomFilterParse(BitWBloomFilterSerialize(f)) = <<g>>
  BY FilterRoundTrip
<1>2. /\ g \in Filters
      /\ g.filter = f.filter /\ g.hashFuncs = f.hashFuncs /\ g.tweak = f.tweak
  BY DEF Filters
<1> HIDE DEF g
<1>3. \A e : BitWBloomFilterContainsData(f, e) => BitWBloomFilterContainsData(g, e)
  BY <1>2 DEF BitWBloomFilterContainsData, BloomFilterHash, SeedOf
<1> QED
  BY <1>1, <1>2, <1>3

LEMMA LightInit ==
  ASSUME Init
  PROVE  LightInv
<1>1. chain = <<Genesis>> /\ txs = <<>> /\ filter = <<>> /\ inserted = {} /\ peer = <<>>
  BY DEF Init
<1>2. BlockKnown(Genesis)
  <2>1. FirstTarget \in Nat /\ FirstTime \in Nat
    BY SPVAssumption
  <2>2. Zeros(HASH) \in Hash
    BY HashSeq DEF UINT256_ZERO
  <2> QED
    BY <2>1, <2>2 DEF BlockKnown, Genesis
<1>3. ChainInv
  <2> DEFINE g == Genesis
  <2>1. <<g>> \in Seq({g}) /\ <<g>> # <<>> /\ Len(<<g>>) = 1 /\ <<g>>[1] = g
    OBVIOUS
  <2>2. BlockKnown(g) /\ chain = <<g>>
    BY <1>1, <1>2
  <2> HIDE DEF g
  <2>3. \A k \in 1..Len(chain) : k = 1
    BY <2>1, <2>2
  <2>4. \A k \in 1..Len(chain) : BlockKnown(chain[k])
    BY <2>1, <2>2, <2>3
  <2>5. chain \in Seq({g}) /\ chain # <<>>
    BY <2>1, <2>2
  <2>6. \A k \in 2..Len(chain) : FALSE
    BY <2>1, <2>2
  <2> QED
    BY <2>4, <2>5, <2>6 DEF ChainInv
<1> QED
  BY <1>1, <1>3 DEF LightInv, FilterInv, BlockInv

LEMMA LightNext ==
  ASSUME HashesFit, LightInv, [Next]_vars
  PROVE  LightInv' /\ OnlyGrows
<1> USE DEF LightInv
<1>1. CASE ReceiveHeader
  <2>1. filter = <<>> /\ UNCHANGED <<filter, inserted, peer, txs>>
    BY <1>1 DEF ReceiveHeader
  <2>2. PICK s \in Steps, target \in {DueTarget} \cup WrongTargets, nonce \in Nonces :
          Receive(Header(UINT256_ZERO, Last(chain).timestamp + s, target, nonce))
    BY <1>1 DEF ReceiveHeader
  <2>3. target \in Nat /\ nonce \in Nat /\ Last(chain).timestamp + s \in Nat
    <3>1. DueTarget \in Nat /\ Last(chain).timestamp \in Nat
      BY LastKnown DEF BlockKnown
    <3>2. s \in Nat /\ nonce \in Nat /\ WrongTargets \subseteq Nat
      BY SPVAssumption
    <3> QED
      BY <3>1, <3>2
  <2>4. Header(UINT256_ZERO, Last(chain).timestamp + s, target, nonce) \in SentBlocks
    BY <2>3, HashSeq, HeaderType
  <2>5. ChainInv' /\ OnlyGrows
    BY <2>2, <2>4, ReceiveFacts
  <2>6. peer = <<>> /\ txs = <<>>
    BY <2>1 DEF FilterInv, BlockInv
  <2> QED
    BY <2>1, <2>5, <2>6 DEF FilterInv, BlockInv
<1>2. CASE NewFilter
  <2>1. filter = <<>> /\ UNCHANGED <<inserted, peer, chain, txs, block>>
    BY <1>2 DEF NewFilter
  <2>2. PICK rate \in Rates, count \in Counts, tweak \in Tweaks :
          filter' = <<BitWBloomFilterNew(rate, count, tweak, 0)>>
    BY <1>2 DEF NewFilter
  <2>3. BitWBloomFilterNew(rate, count, tweak, 0) \in Filters
    BY NewFilterType
  <2>4. inserted = {} /\ peer = <<>> /\ txs = <<>>
    BY <2>1 DEF FilterInv, BlockInv
  <2>5. FilterInv'
    BY <2>1, <2>2, <2>3, <2>4 DEF FilterInv, InFilter
  <2> QED
    BY <2>1, <2>4, <2>5 DEF ChainInv, BlockInv, OnlyGrows
<1>3. CASE Load
  <2>1. /\ filter # <<>> /\ peer = <<>> /\ UNCHANGED <<filter, inserted, chain, txs, block>>
        /\ peer' = <<[filter |-> BitWBloomFilterParse(BitWBloomFilterSerialize(filter[1]))[1],
                      elements |-> inserted]>>
    BY <1>3 DEF Load
  <2>2. PICK f \in Filters : filter = <<f>> /\ inserted \subseteq Element /\ InFilter(f, inserted)
    BY <2>1 DEF FilterInv
  <2> DEFINE g == BitWBloomFilterParse(BitWBloomFilterSerialize(f))[1]
  <2>3. g \in Filters /\ InFilter(g, inserted)
    BY <2>2, LoadedFilter DEF InFilter
  <2>4. peer' = <<[filter |-> g, elements |-> inserted]>>
    BY <2>1, <2>2
  <2> HIDE DEF g
  <2>5. txs = <<>>
    BY <2>1 DEF BlockInv
  <2>6. FilterInv'
    BY <2>1, <2>2, <2>3, <2>4 DEF FilterInv
  <2> QED
    BY <2>1, <2>5, <2>6 DEF ChainInv, BlockInv, OnlyGrows
<1>4. CASE ReceiveBlock
  <2>1. peer # <<>> /\ UNCHANGED <<filter, inserted, peer>>
    BY <1>4 DEF ReceiveBlock
  <2>2. PICK t \in Blocks, nonce \in Nonces :
          LET header == Header(TreeHash(t)[Height(t)][0], FirstTime + 1, DueTarget, nonce)
          IN /\ \E b \in Damaged(MerkleBlockOf(t, peer[1].filter, header)) : Receive(b)
             /\ txs' = t
    BY <1>4, Zenon DEF ReceiveBlock
  <2> DEFINE header == Header(TreeHash(t)[Height(t)][0], FirstTime + 1, DueTarget, nonce)
             m == MerkleBlockOf(t, peer[1].filter, header)
  <2>3. t \in Seq(Hash) /\ t # <<>> /\ Len(t) \in 1..(Span(W32) - 1)
    <3>1. t \in Seq(Hash) /\ t # <<>> /\ Len(t) < Span(W32)
      BY SPVAssumption
    <3>2. Span(W32) \in Nat
      BY WidthFacts
    <3> QED
      BY <3>1, <3>2
  <2>4. header \in SentBlocks
    <3>1. TreeHash(t)[Height(t)][0] \in Hash
      <4>1. Height(t) \in 0..Height(t) /\ 0 \in Positions(t, Height(t))
        BY <2>3, HeightFacts, NodeFacts
      <4>2. TreeHash(t)[Height(t)] \in [Positions(t, Height(t)) -> Hash]
        BY <2>3, <4>1, TreeFacts
      <4> QED
        BY <4>1, <4>2
    <3>2. FirstTime + 1 \in Nat /\ nonce \in Nat /\ DueTarget \in Nat
      <4>1. FirstTime \in Nat /\ nonce \in Nat
        BY SPVAssumption
      <4> QED
        BY <4>1, LastKnown
    <3> QED
      BY <3>1, <3>2, HeaderType
  <2> HIDE DEF header
  <2>5. PICK b \in Damaged(m) : Receive(b)
    BY <2>2 DEF header
  <2>6. m \in SentBlocks /\ m.flags \in Seq(Nat) /\ m.totalTx = Len(t)
    BY <2>3, <2>4, MerkleBlockType
  <2> HIDE DEF m
  <2>7. b \in SentBlocks /\ b.totalTx = Len(t)
    BY <2>5, <2>6, DamagedType
  <2>8. /\ ChainInv' /\ OnlyGrows
        /\ \E r : /\ block' = <<r>>
                  /\ {"totalTx", "hashes", "flags"} \subseteq DOMAIN r
                  /\ b.totalTx \in 1..(Span(W32) - 1) => r.totalTx = b.totalTx
    BY <2>5, <2>7, ReceiveFacts
  <2>9. txs' = t
    BY <2>2
  <2>10. BlockInv'
    <3>1. PICK r : /\ block' = <<r>>
                   /\ {"totalTx", "hashes", "flags"} \subseteq DOMAIN r
                   /\ b.totalTx \in 1..(Span(W32) - 1) => r.totalTx = b.totalTx
      BY <2>8
    <3>2. r.totalTx = Len(t)
      BY <2>3, <2>7, <3>1
    <3>3. block' # <<>> /\ block'[1] = r
      BY <3>1
    <3> QED
      BY <2>1, <2>9, <3>1, <3>2, <3>3 DEF BlockInv
  <2>11. FilterInv'
    BY <2>1 DEF FilterInv
  <2> QED
    BY <2>8, <2>10, <2>11
<1>5. ASSUME NEW e \in Element, Insert(e)  PROVE LightInv' /\ OnlyGrows
  <2>1. /\ filter # <<>> /\ UNCHANGED <<peer, chain, txs, block>>
        /\ filter' = <<BitWBloomFilterInsertData(filter[1], e)>> /\ inserted' = inserted \cup {e}
    BY <1>5 DEF Insert
  <2>2. PICK f \in Filters : filter = <<f>> /\ inserted \subseteq Element /\ InFilter(f, inserted)
    BY <2>1 DEF FilterInv
  <2> DEFINE g == BitWBloomFilterInsertData(f, e)
  <2>3. g \in Filters /\ InFilter(g, inserted \cup {e})
    BY <2>2, InsertFacts DEF InFilter
  <2>4. filter' = <<g>>
    BY <2>1, <2>2
  <2> HIDE DEF g
  <2>5. FilterInv'
    BY <2>1, <2>2, <2>3, <2>4 DEF FilterInv
  <2> QED
    BY <2>1, <2>5 DEF ChainInv, BlockInv, OnlyGrows
<1>6. CASE UNCHANGED vars
  BY <1>6 DEF vars, ChainInv, FilterInv, BlockInv, OnlyGrows
<1> QED
  BY <1>1, <1>2, <1>3, <1>4, <1>5, <1>6 DEF Next

(* In every reachable state the wallet and the peer agree on what it asked *)
(* for, and every block on the chain was checked: the inductive invariant  *)
(* of the light client.                                                    *)
THEOREM LightInvariance ==
  ASSUME HashesFit
  PROVE  Spec => []LightInv
<1>1. Init => LightInv
  BY LightInit
<1>2. LightInv /\ [Next]_vars => LightInv'
  BY LightNext
<1> QED
  BY <1>1, <1>2, PTL DEF Spec

(* What the wallet put into its filter before it sent it is matched by the *)
(* filter the peer read.                                                   *)
PeerMatches == peer # <<>> => \A e \in peer[1].elements :
                                BitWBloomFilterContainsData(peer[1].filter, e)

(* A filter never forgets what was inserted, on either side.               *)
THEOREM PeerAlwaysMatches ==
  ASSUME HashesFit
  PROVE  Spec => []PeerMatches
<1>1. LightInv => PeerMatches
  BY DEF LightInv, FilterInv, InFilter, PeerMatches
<1> QED
  BY <1>1, LightInvariance, PTL

(* The hash of every accepted block, taken as a number, is at most its     *)
(* target, which is at most the limit.                                     *)
THEOREM WorkAlwaysReal ==
  ASSUME HashesFit
  PROVE  Spec => []WorkIsReal
<1>1. ASSUME ChainInv  PROVE WorkIsReal
  <2> SUFFICES ASSUME NEW k \in 2..Len(chain)
               PROVE  /\ ValueLE(chain[k].blockHash) <= TargetValue(chain[k].target)
                      /\ TargetValue(chain[k].target) <= ProofOfWorkLimit
    BY DEF WorkIsReal
  <2> DEFINE h == chain[k].blockHash
             target == chain[k].target
             t == TargetBytes(target)
  <2>1. h \in Hash /\ target \in Nat
    <3>1. k \in 1..Len(chain)
      OBVIOUS
    <3> QED
      BY <1>1, <3>1 DEF ChainInv, BlockKnown
  <2>2. /\ MantissaOf(target) < Span(MANTISSA) \div 2
        /\ ~TooEasy(MantissaOf(target), SizeOf(target))
        /\ HashBelow(h, t)
    BY <1>1 DEF ChainInv, WorkShown
  <2> HIDE DEF h, target
  <2>3. t \in Seq(Byte) /\ Len(t) = HASH /\ ValueLE(t) <= TargetValue(target)
        /\ TargetValue(target) \in Nat
    BY <2>1, TargetBytesFacts
  <2> HIDE DEF t
  <2>4. h \in Seq(Byte) /\ Len(h) = HASH
    BY <2>1, HashSeq
  <2>5. ValueLE(h) <= ValueLE(t)
    BY <2>2, <2>3, <2>4, HashBelowValue
  <2>6. ValueLE(h) \in Nat /\ ValueLE(t) \in Nat
    <3>1. h \in Seq(Nat) /\ t \in Seq(Nat) /\ 0 \in Nat
      BY <2>3, <2>4, ByteSeq
    <3> QED
      BY <3>1, ValueAppend
  <2>7. TargetValue(target) <= ProofOfWorkLimit
    BY <2>1, <2>2, TargetParts, ValueLimit DEF TargetValue
  <2>8. ValueLE(h) <= TargetValue(target)
    BY <2>3, <2>5, <2>6
  <2> QED
    BY <2>7, <2>8 DEF h, target
<1>2. LightInv => WorkIsReal
  BY <1>1 DEF LightInv
<1> QED
  BY <1>2, LightInvariance, PTL

-----------------------------------------------------------------------------
(* The walk over the tree a peer sent finds the transactions.              *)
WalkStates(b) == [flagIdx : Nat, hashIdx : Nat, found : Seq(ToSet(b.hashes))]
Skip(s) == [s EXCEPT !.flagIdx = @ + 1]
TakeHash(b, s) ==
  [Skip(s) EXCEPT !.hashIdx = @ + 1,
                  !.found = IF Flag(b, s.flagIdx) THEN Append(@, b.hashes[s.hashIdx + 1]) ELSE @]
AtLeaf(b, s) == IF MoreNodes(b, s) THEN TakeHash(b, s) ELSE s
AtBranch(b, below, s) ==
  IF ~MoreNodes(b, s) THEN s
  ELSE IF ~Flag(b, s.flagIdx) THEN TakeHash(b, s)
  ELSE below[below[Skip(s)]]

LEMMA SkipFacts ==
  ASSUME NEW b, b.hashes \in Seq(Hash), NEW s \in WalkStates(b)
  PROVE  /\ s.flagIdx \in Nat /\ s.hashIdx \in Nat /\ s.found \in Seq(ToSet(b.hashes))
         /\ Skip(s) \in WalkStates(b)
         /\ Skip(s).flagIdx = s.flagIdx + 1 /\ Skip(s).hashIdx = s.hashIdx
         /\ Skip(s).found = s.found
<1> DEFINE T == Seq(ToSet(b.hashes))
           R == [flagIdx : Nat, hashIdx : Nat, found : T]
<1>1. s \in R
  BY DEF WalkStates
<1> HIDE DEF T
<1>2. s.flagIdx \in Nat /\ s.hashIdx \in Nat /\ s.found \in T
  BY <1>1
<1>3. /\ Skip(s) \in R
      /\ Skip(s).flagIdx = s.flagIdx + 1 /\ Skip(s).hashIdx = s.hashIdx
      /\ Skip(s).found = s.found
  BY <1>1 DEF Skip
<1> QED
  BY <1>2, <1>3 DEF T, WalkStates

LEMMA TakeFacts ==
  ASSUME NEW b, b.hashes \in Seq(Hash), NEW s \in WalkStates(b), MoreNodes(b, s)
  PROVE  /\ TakeHash(b, s) \in WalkStates(b)
         /\ TakeHash(b, s).flagIdx = s.flagIdx + 1
         /\ TakeHash(b, s).hashIdx = s.hashIdx + 1
         /\ ToSet(s.found) \subseteq ToSet(TakeHash(b, s).found)
         /\ Flag(b, s.flagIdx) => b.hashes[s.hashIdx + 1] \in ToSet(TakeHash(b, s).found)
<1> DEFINE T == Seq(ToSet(b.hashes))
           R == [flagIdx : Nat, hashIdx : Nat, found : T]
           next == Skip(s)
           h == b.hashes[s.hashIdx + 1]
           g == IF Flag(b, s.flagIdx) THEN Append(s.found, h) ELSE s.found
<1>1. next \in R /\ next.flagIdx = s.flagIdx + 1 /\ next.hashIdx = s.hashIdx
      /\ next.found = s.found /\ s.hashIdx \in Nat /\ s.found \in T
  BY SkipFacts DEF WalkStates
<1>2. h \in ToSet(b.hashes)
  <2>1. s.hashIdx + 1 \in 1..Len(b.hashes)
    BY <1>1 DEF MoreNodes
  <2> QED
    BY <2>1 DEF ToSet
<1> HIDE DEF h
<1>3. Append(s.found, h) \in T
  BY <1>1, <1>2
<1>4. ToSet(s.found) \subseteq ToSet(Append(s.found, h)) /\ h \in ToSet(Append(s.found, h))
  <2> DEFINE a == Append(s.found, h)
             n == Len(s.found)
  <2>1. n \in Nat /\ Len(a) = n + 1 /\ a[n + 1] = h /\ \A k \in 1..n : a[k] = s.found[k]
    BY <1>1
  <2>2. DOMAIN a = 1..(n + 1) /\ DOMAIN s.found = 1..n
    BY <1>1
  <2> HIDE DEF a, n
  <2>3. \A k \in 1..n : k \in 1..(n + 1)
    BY <2>1
  <2>4. n + 1 \in 1..(n + 1)
    BY <2>1
  <2>5. ToSet(s.found) \subseteq ToSet(a)
    BY <2>1, <2>2, <2>3 DEF ToSet
  <2>6. h \in ToSet(a)
    BY <2>1, <2>2, <2>4 DEF ToSet
  <2> QED
    BY <2>5, <2>6 DEF a
<1>5. g \in T /\ ToSet(s.found) \subseteq ToSet(g) /\ (Flag(b, s.flagIdx) => h \in ToSet(g))
  BY <1>1, <1>3, <1>4
<1>6. TakeHash(b, s) = [next EXCEPT !.hashIdx = s.hashIdx + 1, !.found = g]
  BY <1>1 DEF TakeHash, h
<1> HIDE DEF T, next, g
<1> DEFINE m == [next EXCEPT !.hashIdx = s.hashIdx + 1]
<1>7. /\ m \in R /\ m.flagIdx = next.flagIdx /\ m.hashIdx = s.hashIdx + 1
      /\ TakeHash(b, s) = [m EXCEPT !.found = g]
  BY <1>1, <1>6
<1> HIDE DEF m
<1>8. /\ TakeHash(b, s) \in R
      /\ TakeHash(b, s).flagIdx = m.flagIdx
      /\ TakeHash(b, s).hashIdx = m.hashIdx
      /\ TakeHash(b, s).found = g
  BY <1>5, <1>7
<1> QED
  BY <1>1, <1>5, <1>7, <1>8 DEF T, WalkStates, h

LEMMA WalkFacts ==
  ASSUME NEW b, b.hashes \in Seq(Hash), CeilLog2(b.totalTx) \in Nat
  PROVE  /\ \A d \in 0..CeilLog2(b.totalTx) :
              TxHashesR(b)[d] \in [WalkStates(b) -> WalkStates(b)]
         /\ \A s \in WalkStates(b) :
              TxHashesR(b)[CeilLog2(b.totalTx)][s] = AtLeaf(b, s)
         /\ \A d \in 0..(CeilLog2(b.totalTx) - 1) : \A s \in WalkStates(b) :
              TxHashesR(b)[d][s] = AtBranch(b, TxHashesR(b)[d + 1], s)
<1> DEFINE H == CeilLog2(b.totalTx)
           State == [flagIdx : Nat, hashIdx : Nat, found : Seq(ToSet(b.hashes))]
           E(walk, depth, s) ==
             LET flag == Flag(b, s.flagIdx)
                 next == [s EXCEPT !.flagIdx = @ + 1]
             IN IF ~MoreNodes(b, s) THEN s
                ELSE IF ~flag \/ depth = H
                THEN [next EXCEPT !.hashIdx = @ + 1,
                                  !.found = IF flag THEN Append(@, b.hashes[s.hashIdx + 1]) ELSE @]
                ELSE walk[depth + 1][walk[depth + 1][next]]
           P(w) == w = [depth \in 0..H |-> [s \in State |-> E(w, depth, s)]]
           U == [State -> State]
           X == [d \in 0..H |-> U]
           base == [s \in State |-> AtLeaf(b, s)]
           step == [d \in 0..(H - 1) |-> [g \in U |-> [s \in State |-> AtBranch(b, g, s)]]]
<1>1. TxHashesR(b) = CHOOSE w : P(w)
  BY DEF TxHashesR
<1>2. ASSUME NEW w, NEW s
      PROVE  /\ E(w, H, s) = AtLeaf(b, s)
             /\ \A d : d # H => E(w, d, s) = AtBranch(b, w[d + 1], s)
  BY DEF AtLeaf, AtBranch, TakeHash, Skip
<1>3. State = WalkStates(b)
  BY DEF WalkStates
<1> HIDE DEF State, E
<1>4. \A s \in State : AtLeaf(b, s) \in State
  BY <1>3, TakeFacts DEF AtLeaf
<1>5. \A g \in U : \A s \in State : AtBranch(b, g, s) \in State
  <2> SUFFICES ASSUME NEW g \in U, NEW s \in State  PROVE AtBranch(b, g, s) \in State
    OBVIOUS
  <2>1. Skip(s) \in State
    BY <1>3, SkipFacts
  <2>2. g[Skip(s)] \in State
    BY <2>1
  <2>3. g[g[Skip(s)]] \in State
    BY <2>2
  <2>4. MoreNodes(b, s) => TakeHash(b, s) \in State
    BY <1>3, TakeFacts
  <2> QED
    BY <2>3, <2>4 DEF AtBranch
<1>6. PICK w : RecursiveDown(w, H, U, X, base, step)
  <2>1. X \in [0..H -> SUBSET U]
    OBVIOUS
  <2>2. base \in U
    BY <1>4
  <2>3. base \in X[H]
    BY <2>2
  <2>4. GoesDown(H, X, step)
    <3> SUFFICES ASSUME NEW d \in 0..(H - 1), NEW g \in X[d + 1]  PROVE step[d][g] \in X[d]
      BY DEF GoesDown
    <3>1. d \in 0..H /\ d + 1 \in 0..H
      OBVIOUS
    <3>2. g \in U /\ X[d] = U
      BY <3>1
    <3>3. step[d][g] = [s \in State |-> AtBranch(b, g, s)]
      <4> HIDE DEF U
      <4> QED
        BY <3>2
    <3>4. [s \in State |-> AtBranch(b, g, s)] \in U
      BY <1>5, <3>2
    <3> QED
      BY <3>2, <3>3, <3>4
  <2> HIDE DEF U, X, base, step
  <2> QED
    BY <2>1, <2>3, <2>4, RecursionDown
<1>7. /\ \A d \in 0..H : w[d] \in U
      /\ w[H] = [s \in State |-> AtLeaf(b, s)]
      /\ \A d \in 0..(H - 1) : w[d] = [s \in State |-> AtBranch(b, w[d + 1], s)]
  <2>1. \A d \in 0..H : w[d] \in U
    <3> HIDE DEF U, base, step
    <3>1. \A d \in 0..H : X[d] = U
      OBVIOUS
    <3> HIDE DEF X
    <3> QED
      BY <1>6, <3>1 DEF RecursiveDown
  <2>2. w[H] = [s \in State |-> AtLeaf(b, s)]
    BY <1>6 DEF RecursiveDown, base
  <2>3. ASSUME NEW d \in 0..(H - 1)
        PROVE  w[d] = [s \in State |-> AtBranch(b, w[d + 1], s)]
    <3>1. d + 1 \in 0..H
      OBVIOUS
    <3>2. w[d] = step[d][w[d + 1]]
      BY <1>6 DEF RecursiveDown
    <3>3. w[d + 1] \in U
      BY <2>1, <3>1
    <3> HIDE DEF U
    <3> QED
      BY <3>2, <3>3 DEF step
  <2> QED
    BY <2>1, <2>2, <2>3
<1>8. P(w)
  <2>1. ASSUME NEW d \in 0..H  PROVE w[d] = [s \in State |-> E(w, d, s)]
    <3>1. CASE d = H
      <4>1. \A s \in State : AtLeaf(b, s) = E(w, d, s)
        BY <1>2, <3>1
      <4> QED
        BY <1>7, <3>1, <4>1
    <3>2. CASE d # H
      <4>1. d \in 0..(H - 1)
        BY <3>2
      <4>2. \A s \in State : AtBranch(b, w[d + 1], s) = E(w, d, s)
        BY <1>2, <3>2
      <4> QED
        BY <1>7, <4>1, <4>2
    <3> QED
      BY <3>1, <3>2
  <2>2. w = [d \in 0..H |-> w[d]]
    BY <1>6 DEF RecursiveDown
  <2> QED
    BY <2>1, <2>2, Zenon
<1> HIDE DEF P
<1>9. PICK v : P(v) /\ TxHashesR(b) = v
  BY <1>1, <1>8
<1>10. \A d \in 0..H : v[d] = [s \in State |-> E(v, d, s)]
  <2>1. v = [depth \in 0..H |-> [s \in State |-> E(v, depth, s)]]
    BY <1>9 DEF P
  <2> QED
    BY <2>1, Zenon
<1>11. v[H] = [s \in State |-> AtLeaf(b, s)]
  <2>1. H \in 0..H
    OBVIOUS
  <2>2. \A s \in State : AtLeaf(b, s) = E(v, H, s)
    BY <1>2
  <2> QED
    BY <1>10, <2>1, <2>2
<1>12. \A d \in 0..(H - 1) : v[d] = [s \in State |-> AtBranch(b, v[d + 1], s)]
  <2> TAKE d \in 0..(H - 1)
  <2>1. d \in 0..H /\ d # H
    OBVIOUS
  <2>2. \A s \in State : AtBranch(b, v[d + 1], s) = E(v, d, s)
    BY <1>2, <2>1
  <2> QED
    BY <1>10, <2>1, <2>2
<1> DEFINE Good == {d \in 0..H : v[H - d] \in U}
<1>13. \A d \in 0..H : d \in Good
  <2>1. 0 \in Good
    <3>1. v[H] \in U
      BY <1>4, <1>11
    <3> HIDE DEF U
    <3>2. H - 0 = H /\ 0 \in 0..H
      OBVIOUS
    <3> QED
      BY <3>1, <3>2
  <2>2. ASSUME NEW d \in 1..H, d - 1 \in Good  PROVE d \in Good
    <3>1. H - d \in 0..(H - 1) /\ H - (d - 1) = (H - d) + 1 /\ d \in 0..H
      OBVIOUS
    <3>2. v[(H - d) + 1] \in U
      BY <2>2, <3>1
    <3>3. v[H - d] = [s \in State |-> AtBranch(b, v[(H - d) + 1], s)]
      BY <1>12, <3>1
    <3>4. [s \in State |-> AtBranch(b, v[(H - d) + 1], s)] \in U
      BY <1>5, <3>2
    <3> HIDE DEF U
    <3> QED
      BY <3>1, <3>3, <3>4
  <2> HIDE DEF Good
  <2> QED
    BY <2>1, <2>2, AllUpTo
<1>14. \A d \in 0..H : v[d] \in U
  <2> TAKE d \in 0..H
  <2>1. H - d \in 0..H /\ H - (H - d) = d
    OBVIOUS
  <2> HIDE DEF U
  <2> QED
    BY <1>13, <2>1
<1>15. \A s \in State : v[H][s] = AtLeaf(b, s)
  BY <1>11
<1>16. \A d \in 0..(H - 1) : \A s \in State : v[d][s] = AtBranch(b, v[d + 1], s)
  BY <1>12
<1>17. TxHashesR(b) = v
  BY <1>9
<1> HIDE DEF H
<1> QED
  BY <1>3, <1>14, <1>15, <1>16, <1>17, Zenon DEF H

(* A sequence comes next in another, behind its first n elements.          *)
ComesAt(seq, n, part) == \A i \in 1..Len(part) : n + i \in 1..Len(seq) /\ seq[n + i] = part[i]

LEMMA ComesApart ==
  ASSUME NEW S, NEW seq \in Seq(S), NEW n \in Nat, NEW p \in Seq(S), NEW q \in Seq(S),
         ComesAt(seq, n, p \o q)
  PROVE  ComesAt(seq, n, p) /\ ComesAt(seq, n + Len(p), q)
<1> DEFINE pq == p \o q
           a == Len(p)
           c == Len(q)
<1>1. /\ a \in Nat /\ c \in Nat /\ Len(pq) = a + c
      /\ (\A k \in 1..a : pq[k] = p[k]) /\ (\A k \in 1..c : pq[a + k] = q[k])
  BY ConcatType
<1>2. \A i \in 1..Len(pq) : n + i \in 1..Len(seq) /\ seq[n + i] = pq[i]
  BY DEF ComesAt
<1> HIDE DEF pq, a, c
<1>3. ASSUME NEW i \in 1..a  PROVE n + i \in 1..Len(seq) /\ seq[n + i] = p[i]
  <2>1. i \in 1..Len(pq)
    BY <1>1
  <2> QED
    BY <1>1, <1>2, <2>1
<1>4. ASSUME NEW i \in 1..c  PROVE (n + a) + i \in 1..Len(seq) /\ seq[(n + a) + i] = q[i]
  <2>1. a + i \in 1..Len(pq) /\ n + (a + i) = (n + a) + i
    BY <1>1
  <2>2. n + (a + i) \in 1..Len(seq) /\ seq[n + (a + i)] = pq[a + i]
    BY <1>2, <2>1
  <2> QED
    BY <1>1, <2>1, <2>2
<1> QED
  BY <1>3, <1>4 DEF ComesAt, a, c

LEMMA ComesHere ==
  ASSUME NEW S, NEW seq \in Seq(S), NEW n \in Nat, NEW e, ComesAt(seq, n, <<e>>)
  PROVE  n < Len(seq) /\ n + 1 \in 1..Len(seq) /\ seq[n + 1] = e
<1>1. Len(<<e>>) = 1 /\ <<e>>[1] = e /\ 1 \in 1..1
  OBVIOUS
<1>2. n + 1 \in 1..Len(seq) /\ seq[n + 1] = e
  BY <1>1 DEF ComesAt
<1> QED
  BY <1>2

(* The merkle block whose hashes and flags are those of the tree.          *)
Carries(b, t, f) ==
  /\ b.totalTx = Len(t)
  /\ b.hashes = Partial(t, f)[Height(t)][0].hashes
  /\ b.flags = Packed(Partial(t, f)[Height(t)][0].bits)
Bits(t, f) == Partial(t, f)[Height(t)][0].bits

LEMMA FlagFacts ==
  ASSUME HashesFit, NEW t \in Seq(Hash), t # <<>>, NEW f, NEW b, Carries(b, t, f)
  PROVE  /\ Bits(t, f) \in Seq({0, 1}) /\ b.hashes \in Seq(Hash)
         /\ \A i \in 0..(Len(Bits(t, f)) - 1) :
              /\ i \div BITS < Len(b.flags)
              /\ Flag(b, i) <=> Bits(t, f)[i + 1] = 1
<1> DEFINE p == Partial(t, f)[Height(t)][0]
           bits == Bits(t, f)
<1>1. p \in Part
  <2>1. Height(t) \in 0..Height(t)
    BY HeightFacts
  <2>2. Partial(t, f)[Height(t)] \in [Positions(t, Height(t)) -> Part]
    BY <2>1, PartialFacts
  <2> QED
    BY <2>2, NodeFacts
<1>2. p.bits \in Seq({0, 1}) /\ p.hashes \in Seq(Hash)
  BY <1>1 DEF Part
<1>3. bits \in Seq({0, 1}) /\ b.hashes \in Seq(Hash) /\ b.flags = Packed(bits)
  BY <1>2 DEF Carries, Bits
<1> HIDE DEF bits
<1>4. ASSUME NEW i \in 0..(Len(bits) - 1)
      PROVE  i \div BITS < Len(b.flags) /\ (Flag(b, i) <=> bits[i + 1] = 1)
  <2>1. i \in Indices(Len(b.flags)) /\ Bit(b.flags, i) = bits[i + 1] /\ b.flags \in Seq(Nat)
    BY <1>3, PackedFacts
  <2>2. Len(b.flags) \in Nat
    BY <2>1
  <2>3. ByteOf(i) \in 1..Len(b.flags)
    BY <2>1, <2>2, IndexFacts
  <2>4. i \div BITS \in Int
    <3>1. BITS \in Nat /\ BITS > 0 /\ i \in Int
      BY BitsFacts
    <3> QED
      BY <3>1, ModFacts
  <2>5. i \div BITS < Len(b.flags)
    BY <2>2, <2>3, <2>4 DEF ByteOf
  <2>6. Flag(b, i) <=> Bit(b.flags, i) = 1
    BY DEF Flag, Bit
  <2> QED
    BY <2>1, <2>5, <2>6
<1> QED
  BY <1>3, <1>4 DEF bits

(* The leaves below a node are those below its branches; a node without a  *)
(* right branch is the last one of its height.                             *)
LEMMA LeafFacts ==
  ASSUME NEW t \in Seq(Hash), t # <<>>, NEW h \in Nat, h > 0, NEW pos \in Positions(t, h)
  PROVE  /\ \A k \in Leaves(t, h, pos) :
              \/ k \in Leaves(t, h - 1, 2 * pos)
              \/ 2 * pos + 1 \in Positions(t, h - 1) /\ k \in Leaves(t, h - 1, 2 * pos + 1)
         /\ (2 * pos) + 1 \notin Positions(t, h - 1) => pos + 1 \notin Positions(t, h)
         /\ (2 * pos + 1) + 1 \notin Positions(t, h - 1) => pos + 1 \notin Positions(t, h)
<1> DEFINE n == Len(t)
           p == Power(h - 1)
           a == pos * p
<1>1. n \in Nat /\ pos \in Nat /\ h - 1 \in Nat
  BY PositionFacts
<1>2. p \in Nat /\ p > 0 /\ Power(h) = 2 * p
  <2>1. (h - 1) + 1 = h
    OBVIOUS
  <2>2. Power(h - 1) \in Nat /\ Power((h - 1) + 1) = 2 * Power(h - 1)
    BY <1>1, PowerStep
  <2>3. Power(h - 1) > h - 1
    BY <1>1, PowerLarge
  <2> QED
    BY <1>1, <2>1, <2>2, <2>3
<1>3. \A q \in Nat : q \in Positions(t, h - 1) <=> q * p < n
  BY <1>1, PositionFacts
<1>4. \A q \in Nat : q \in Positions(t, h) <=> q * (2 * p) < n
  BY <1>2, PositionFacts
<1>5. Leaves(t, h, pos) = (pos * (2 * p) + 1)..Min2((pos + 1) * (2 * p), n)
  BY <1>2 DEF Leaves, Power
<1>6. /\ Leaves(t, h - 1, 2 * pos) = ((2 * pos) * p + 1)..Min2((2 * pos + 1) * p, n)
      /\ Leaves(t, h - 1, 2 * pos + 1) = ((2 * pos + 1) * p + 1)..Min2((2 * pos + 1 + 1) * p, n)
  BY DEF Leaves, Power
<1> HIDE DEF n, p
<1>7. /\ a \in Nat
      /\ pos * (2 * p) = 2 * a /\ (pos + 1) * (2 * p) = 2 * a + 2 * p
      /\ (2 * pos) * p = 2 * a /\ (2 * pos + 1) * p = 2 * a + p
      /\ (2 * pos + 1 + 1) * p = 2 * a + 2 * p
  BY <1>1, <1>2
<1> HIDE DEF a
<1>8. ASSUME NEW k \in Leaves(t, h, pos)
      PROVE  \/ k \in Leaves(t, h - 1, 2 * pos)
             \/ 2 * pos + 1 \in Positions(t, h - 1) /\ k \in Leaves(t, h - 1, 2 * pos + 1)
  <2>1. k \in (2 * a + 1)..Min2(2 * a + 2 * p, n)
    BY <1>5, <1>7
  <2>2. k \in Int /\ 2 * a + 1 <= k /\ k <= 2 * a + 2 * p /\ k <= n
    BY <1>1, <1>2, <1>7, <2>1 DEF Min2
  <2>3. CASE k <= 2 * a + p
    <3>1. k \in (2 * a + 1)..Min2(2 * a + p, n)
      BY <1>1, <1>2, <1>7, <2>2, <2>3 DEF Min2
    <3> QED
      BY <1>6, <1>7, <3>1
  <2>4. CASE ~(k <= 2 * a + p)
    <3>1. k \in (2 * a + p + 1)..Min2(2 * a + 2 * p, n)
      BY <1>1, <1>2, <1>7, <2>2, <2>4 DEF Min2
    <3>2. 2 * a + p < n
      BY <1>1, <1>2, <1>7, <2>2, <2>4
    <3>3. 2 * pos + 1 \in Nat /\ (2 * pos + 1) * p < n
      BY <1>1, <1>7, <3>2
    <3> QED
      BY <1>3, <1>6, <1>7, <3>1, <3>3
  <2> QED
    BY <2>3, <2>4
<1>9. /\ 2 * pos + 1 \in Positions(t, h - 1) <=> 2 * a + p < n
      /\ (2 * pos + 1) + 1 \in Positions(t, h - 1) <=> 2 * a + 2 * p < n
      /\ pos + 1 \in Positions(t, h) <=> 2 * a + 2 * p < n
  <2>1. 2 * pos + 1 \in Nat /\ 2 * pos + 1 + 1 \in Nat /\ pos + 1 \in Nat
    BY <1>1
  <2> QED
    BY <1>3, <1>4, <1>7, <2>1
<1>10. 2 * a + 2 * p < n => 2 * a + p < n
  BY <1>1, <1>2, <1>7
<1> QED
  BY <1>8, <1>9, <1>10

(* What a node sent comes next, and what has become of the state when the  *)
(* walk is through with it.                                                *)
Ready(b, t, f, h, pos, s) ==
  LET part == Partial(t, f)[h][pos]
  IN /\ ComesAt(Bits(t, f), s.flagIdx, part.bits)
     /\ ComesAt(b.hashes, s.hashIdx, part.hashes)
     /\ pos + 1 \notin Positions(t, h) => s.hashIdx + Len(part.hashes) = Len(b.hashes)
Passed(b, t, f, h, pos, s, r) ==
  LET part == Partial(t, f)[h][pos]
  IN /\ r \in WalkStates(b)
     /\ r.flagIdx = s.flagIdx + Len(part.bits)
     /\ r.hashIdx = s.hashIdx + Len(part.hashes)
     /\ ToSet(s.found) \subseteq ToSet(r.found)
     /\ \A k \in Leaves(t, h, pos) :
          BitWBloomFilterContainsData(f, t[k]) => t[k] \in ToSet(r.found)

LEMMA LeafPassed ==
  ASSUME HashesFit, NEW t \in Seq(Hash), t # <<>>, NEW f, NEW b, Carries(b, t, f),
         NEW h \in 0..Height(t), NEW pos \in Positions(t, h), NEW s \in WalkStates(b),
         Ready(b, t, f, h, pos, s), h = 0 \/ ~Matched(t, f, h, pos)
  PROVE  /\ MoreNodes(b, s) /\ (Flag(b, s.flagIdx) => h = 0)
         /\ Passed(b, t, f, h, pos, s, TakeHash(b, s))
<1> DEFINE part == Partial(t, f)[h][pos]
           bits == Bits(t, f)
           flag == IF Matched(t, f, h, pos) THEN 1 ELSE 0
           hash == TreeHash(t)[h][pos]
           r == TakeHash(b, s)
<1>1. part.bits = <<flag>> /\ part.hashes = <<hash>>
  <2>1. part = PartOf(t, f, Partial(t, f), h, pos)
    BY PartialFacts
  <2>2. part = [bits |-> <<flag>>, hashes |-> <<hash>>]
    BY <2>1 DEF PartOf
  <2> HIDE DEF part, flag, hash
  <2> QED
    BY <2>2
<1>2. /\ bits \in Seq({0, 1}) /\ b.hashes \in Seq(Hash)
      /\ \A i \in 0..(Len(bits) - 1) :
           i \div BITS < Len(b.flags) /\ (Flag(b, i) <=> bits[i + 1] = 1)
  BY FlagFacts
<1>3. s.flagIdx \in Nat /\ s.hashIdx \in Nat
  BY <1>2, SkipFacts
<1>4. ComesAt(bits, s.flagIdx, <<flag>>) /\ ComesAt(b.hashes, s.hashIdx, <<hash>>)
  BY <1>1 DEF Ready
<1> HIDE DEF flag, hash, part, bits
<1>5. s.flagIdx < Len(bits) /\ bits[s.flagIdx + 1] = flag
  BY <1>2, <1>3, <1>4, ComesHere
<1>6. s.hashIdx < Len(b.hashes) /\ b.hashes[s.hashIdx + 1] = hash
  BY <1>2, <1>3, <1>4, ComesHere
<1>7. s.flagIdx \in 0..(Len(bits) - 1)
  BY <1>2, <1>3, <1>5
<1>8. s.flagIdx \div BITS < Len(b.flags) /\ (Flag(b, s.flagIdx) <=> flag = 1)
  BY <1>2, <1>5, <1>7
<1>9. MoreNodes(b, s)
  BY <1>6, <1>8 DEF MoreNodes
<1>10. Flag(b, s.flagIdx) <=> Matched(t, f, h, pos)
  BY <1>8 DEF flag
<1>11. /\ r \in WalkStates(b) /\ r.flagIdx = s.flagIdx + 1 /\ r.hashIdx = s.hashIdx + 1
       /\ ToSet(s.found) \subseteq ToSet(r.found)
       /\ Flag(b, s.flagIdx) => hash \in ToSet(r.found)
  BY <1>2, <1>6, <1>9, TakeFacts
<1> HIDE DEF r
<1>12. ASSUME NEW k \in Leaves(t, h, pos), BitWBloomFilterContainsData(f, t[k])
       PROVE  t[k] \in ToSet(r.found)
  <2>1. Matched(t, f, h, pos)
    BY <1>12 DEF Matched
  <2>2. h = 0 /\ hash \in ToSet(r.found)
    BY <1>10, <1>11, <2>1
  <2>3. hash = t[pos + 1]
    BY <2>2, TreeFacts DEF hash
  <2>4. k = pos + 1
    <3>1. Power(0) = 1 /\ pos \in Nat /\ Len(t) \in Nat
      BY PowerStep, PositionFacts, <2>2
    <3>2. Leaves(t, 0, pos) = (pos * 1 + 1)..Min2((pos + 1) * 1, Len(t))
      BY <3>1 DEF Leaves, Power
    <3>3. k \in (pos * 1 + 1)..Min2((pos + 1) * 1, Len(t))
      BY <2>2, <3>2
    <3>4. pos * 1 = pos /\ (pos + 1) * 1 = pos + 1
      BY <3>1
    <3> QED
      BY <3>1, <3>3, <3>4 DEF Min2
  <2> QED
    BY <2>2, <2>3, <2>4
<1>13. Len(part.bits) = 1 /\ Len(part.hashes) = 1
  BY <1>1
<1>14. Passed(b, t, f, h, pos, s, r)
  BY <1>11, <1>12, <1>13 DEF Passed, part
<1> QED
  BY <1>9, <1>10, <1>14 DEF r

(* Every node sends a hash.                                                *)
LEMMA PartHashes ==
  ASSUME HashesFit, NEW t \in Seq(Hash), t # <<>>, NEW f
  PROVE  \A h \in 0..Height(t) : \A pos \in Positions(t, h) :
           Len(Partial(t, f)[h][pos].hashes) > 0
<1> DEFINE H == Height(t)
           p == Partial(t, f)
           S == {h \in 0..H : \A pos \in Positions(t, h) : Len(p[h][pos].hashes) > 0}
<1>1. H \in Nat
  BY HeightFacts
<1>2. \A h \in 0..H : \A pos \in Positions(t, h) :
        p[h][pos] \in Part /\ p[h][pos] = PartOf(t, f, p, h, pos)
  BY PartialFacts
<1> HIDE DEF p
<1>3. ASSUME NEW h \in 0..H, NEW pos \in Positions(t, h), h = 0 \/ ~Matched(t, f, h, pos)
      PROVE  Len(p[h][pos].hashes) > 0
  <2>1. p[h][pos] = PartOf(t, f, p, h, pos)
    BY <1>2
  <2>2. PartOf(t, f, p, h, pos).hashes = <<TreeHash(t)[h][pos]>>
    BY <1>3 DEF PartOf
  <2> QED
    BY <2>1, <2>2
<1>4. 0 \in S
  BY <1>1, <1>3
<1>5. ASSUME NEW h \in 1..H, h - 1 \in S  PROVE h \in S
  <2>1. h \in 0..H /\ h - 1 \in 0..H /\ h \in Nat /\ h > 0
    BY <1>1
  <2>2. ASSUME NEW pos \in Positions(t, h)  PROVE Len(p[h][pos].hashes) > 0
    <3>1. CASE ~Matched(t, f, h, pos)
      BY <1>3, <2>1, <3>1
    <3>2. CASE Matched(t, f, h, pos)
      <4> DEFINE x == p[h - 1][2 * pos].hashes
                 y == Right(t, p, h, pos).hashes
      <4>1. 2 * pos \in Positions(t, h - 1)
        BY <2>1, NodeFacts
      <4>2. x \in Seq(Hash) /\ Len(x) > 0
        BY <1>2, <1>5, <2>1, <4>1 DEF Part
      <4>3. y \in Seq(Hash)
        <5>1. CASE 2 * pos + 1 \in Positions(t, h - 1)
          BY <1>2, <2>1, <5>1 DEF Right, Part
        <5>2. CASE 2 * pos + 1 \notin Positions(t, h - 1)
          <6>1. y = <<>>
            BY <5>2 DEF Right, NoPart
          <6> QED
            BY <6>1
        <5> QED
          BY <5>1, <5>2
      <4>4. p[h][pos].hashes = x \o y
        <5> DEFINE bits == <<1>> \o Left(p, h, pos).bits \o Right(t, p, h, pos).bits
        <5>1. p[h][pos] = PartOf(t, f, p, h, pos)
          BY <1>2, <2>1
        <5>2. PartOf(t, f, p, h, pos) = [bits |-> bits, hashes |-> x \o y]
          BY <2>1, <3>2 DEF PartOf, Left
        <5> HIDE DEF bits, x, y
        <5> QED
          BY <5>1, <5>2
      <4> HIDE DEF x, y
      <4>5. Len(x \o y) = Len(x) + Len(y) /\ Len(x) \in Nat /\ Len(y) \in Nat
        BY <4>2, <4>3
      <4> QED
        BY <4>2, <4>4, <4>5
    <3> QED
      BY <3>1, <3>2
  <2> QED
    BY <2>1, <2>2
<1>6. \A h \in 0..H : h \in S
  <2> HIDE DEF S
  <2> QED
    BY <1>1, <1>4, <1>5, AllUpTo
<1> QED
  BY <1>6 DEF p

LEMMA BranchReady ==
  ASSUME HashesFit, NEW t \in Seq(Hash), t # <<>>, NEW f, NEW b, Carries(b, t, f),
         NEW h \in 1..Height(t), NEW pos \in Positions(t, h), NEW s \in WalkStates(b),
         Ready(b, t, f, h, pos, s), Matched(t, f, h, pos)
  PROVE  /\ MoreNodes(b, s) /\ Flag(b, s.flagIdx)
         /\ Ready(b, t, f, h - 1, 2 * pos, Skip(s))
         /\ \A r : Passed(b, t, f, h - 1, 2 * pos, Skip(s), r) =>
              IF 2 * pos + 1 \in Positions(t, h - 1)
              THEN /\ Ready(b, t, f, h - 1, 2 * pos + 1, r)
                   /\ \A q : Passed(b, t, f, h - 1, 2 * pos + 1, r, q) =>
                               Passed(b, t, f, h, pos, s, q)
              ELSE ~MoreNodes(b, r) /\ Passed(b, t, f, h, pos, s, r)
<1> DEFINE part == Partial(t, f)[h][pos]
           left == Partial(t, f)[h - 1][2 * pos]
           right == Right(t, Partial(t, f), h, pos)
           bits == Bits(t, f)
           next == Skip(s)
<1>1. h \in Nat /\ h > 0 /\ h - 1 \in 0..Height(t) /\ h \in 0..Height(t) /\ h - 1 \in Nat
  BY HeightFacts
<1>2. 2 * pos \in Positions(t, h - 1)
  BY <1>1, NodeFacts
<1>3. left \in Part /\ (2 * pos + 1 \in Positions(t, h - 1) => right \in Part)
  BY <1>1, <1>2, PartialFacts DEF Right
<1>4. right \in Part
  <2>1. NoPart \in Part
    <3>1. <<>> \in Seq({0, 1}) /\ <<>> \in Seq(Hash)
      OBVIOUS
    <3> QED
      BY <3>1 DEF Part, NoPart
  <2>2. 2 * pos + 1 \notin Positions(t, h - 1) => right = NoPart
    BY DEF Right
  <2> QED
    BY <1>3, <2>1, <2>2
<1>5. part.bits = (<<1>> \o left.bits) \o right.bits /\ part.hashes = left.hashes \o right.hashes
  <2>1. part = PartOf(t, f, Partial(t, f), h, pos)
    BY <1>1, PartialFacts
  <2>2. part = [bits |-> (<<1>> \o left.bits) \o right.bits,
                hashes |-> left.hashes \o right.hashes]
    BY <1>1, <2>1 DEF PartOf, Left
  <2> HIDE DEF part, left, right
  <2> QED
    BY <2>2
<1>6. /\ bits \in Seq({0, 1}) /\ b.hashes \in Seq(Hash)
      /\ \A i \in 0..(Len(bits) - 1) :
           i \div BITS < Len(b.flags) /\ (Flag(b, i) <=> bits[i + 1] = 1)
  BY FlagFacts
<1>7. /\ s.flagIdx \in Nat /\ s.hashIdx \in Nat
      /\ next \in WalkStates(b) /\ next.flagIdx = s.flagIdx + 1
      /\ next.hashIdx = s.hashIdx /\ next.found = s.found
  BY <1>6, SkipFacts
<1>8. /\ ComesAt(bits, s.flagIdx, part.bits) /\ ComesAt(b.hashes, s.hashIdx, part.hashes)
      /\ pos + 1 \notin Positions(t, h) => s.hashIdx + Len(part.hashes) = Len(b.hashes)
  BY DEF Ready
<1>9. /\ left.bits \in Seq({0, 1}) /\ right.bits \in Seq({0, 1})
      /\ left.hashes \in Seq(Hash) /\ right.hashes \in Seq(Hash)
  BY <1>3, <1>4 DEF Part
<1>10. /\ 2 * pos + 1 \notin Positions(t, h - 1) => right.bits = <<>> /\ right.hashes = <<>>
       /\ 2 * pos + 1 \in Positions(t, h - 1) => right = Partial(t, f)[h - 1][2 * pos + 1]
  BY DEF Right, NoPart
<1> HIDE DEF part, left, right, bits, next
<1> DEFINE a == left.bits
           c == right.bits
           x == left.hashes
           y == right.hashes
           head == <<1>> \o a
<1>11. /\ head \in Seq({0, 1}) /\ Len(head) = 1 + Len(a)
       /\ Len(part.bits) = 1 + Len(a) + Len(c)
       /\ Len(part.hashes) = Len(x) + Len(y)
       /\ Len(a) \in Nat /\ Len(c) \in Nat /\ Len(x) \in Nat /\ Len(y) \in Nat
  <2>1. <<1>> \in Seq({0, 1}) /\ Len(<<1>>) = 1
    OBVIOUS
  <2> HIDE DEF a, c, x, y
  <2>2. a \in Seq({0, 1}) /\ c \in Seq({0, 1}) /\ x \in Seq(Hash) /\ y \in Seq(Hash)
    BY <1>9 DEF a, c, x, y
  <2>3. head \in Seq({0, 1}) /\ Len(head) = 1 + Len(a)
    BY <2>1, <2>2, ConcatType
  <2> HIDE DEF head
  <2>4. Len(head \o c) = Len(head) + Len(c) /\ Len(x \o y) = Len(x) + Len(y)
    BY <2>2, <2>3, ConcatType
  <2>5. part.bits = head \o c /\ part.hashes = x \o y
    BY <1>5 DEF a, c, x, y, head
  <2> QED
    BY <2>2, <2>3, <2>4, <2>5
<1>12. ComesAt(bits, s.flagIdx, head) /\ ComesAt(bits, s.flagIdx + (1 + Len(a)), c)
  <2> HIDE DEF head
  <2>1. ComesAt(bits, s.flagIdx, head \o c)
    BY <1>5, <1>8 DEF head
  <2> HIDE DEF a, c
  <2>2. c \in Seq({0, 1})
    BY <1>9 DEF c
  <2> QED
    BY <1>6, <1>7, <1>11, <2>1, <2>2, ComesApart
<1>13. ComesAt(bits, s.flagIdx, <<1>>) /\ ComesAt(bits, s.flagIdx + 1, a)
  <2>1. <<1>> \in Seq({0, 1}) /\ Len(<<1>>) = 1
    OBVIOUS
  <2> HIDE DEF a
  <2>2. a \in Seq({0, 1})
    BY <1>9 DEF a
  <2> QED
    BY <1>6, <1>7, <1>12, <2>1, <2>2, ComesApart
<1>14. ComesAt(b.hashes, s.hashIdx, x) /\ ComesAt(b.hashes, s.hashIdx + Len(x), y)
  <2>1. ComesAt(b.hashes, s.hashIdx, x \o y)
    BY <1>5, <1>8
  <2> HIDE DEF x, y
  <2>2. x \in Seq(Hash) /\ y \in Seq(Hash)
    BY <1>9 DEF x, y
  <2> QED
    BY <1>6, <1>7, <2>1, <2>2, ComesApart
<1> HIDE DEF a, c, x, y, head
<1>15. Flag(b, s.flagIdx) /\ s.flagIdx \div BITS < Len(b.flags)
  <2>1. s.flagIdx < Len(bits) /\ bits[s.flagIdx + 1] = 1
    BY <1>6, <1>7, <1>13, ComesHere
  <2>2. s.flagIdx \in 0..(Len(bits) - 1)
    BY <1>6, <1>7, <2>1
  <2> QED
    BY <1>6, <2>1, <2>2
<1>16. MoreNodes(b, s)
  <2>1. Len(part.hashes) > 0
    BY <1>1, PartHashes DEF part
  <2>2. s.hashIdx + 1 \in 1..Len(b.hashes)
    BY <1>8, <1>11, <2>1 DEF ComesAt
  <2> QED
    BY <1>7, <1>15, <2>2 DEF MoreNodes
<1>17. Ready(b, t, f, h - 1, 2 * pos, next)
  <2>1. 2 * pos + 1 \notin Positions(t, h - 1) => s.hashIdx + Len(x) = Len(b.hashes)
    <3>1. 2 * pos + 1 \notin Positions(t, h - 1) => pos + 1 \notin Positions(t, h)
      BY <1>1, LeafFacts
    <3>2. 2 * pos + 1 \notin Positions(t, h - 1) => Len(y) = 0
      BY <1>10 DEF y
    <3> QED
      BY <1>7, <1>8, <1>11, <3>1, <3>2
  <2> QED
    BY <1>7, <1>13, <1>14, <2>1 DEF Ready, left, a, x, bits
<1>18. ASSUME NEW r, Passed(b, t, f, h - 1, 2 * pos, next, r)
       PROVE  /\ r \in WalkStates(b) /\ r.flagIdx = s.flagIdx + (1 + Len(a))
              /\ r.hashIdx = s.hashIdx + Len(x)
              /\ ToSet(s.found) \subseteq ToSet(r.found)
              /\ \A k \in Leaves(t, h - 1, 2 * pos) :
                   BitWBloomFilterContainsData(f, t[k]) => t[k] \in ToSet(r.found)
  <2>1. /\ r \in WalkStates(b) /\ r.flagIdx = (s.flagIdx + 1) + Len(a)
        /\ r.hashIdx = s.hashIdx + Len(x)
        /\ ToSet(s.found) \subseteq ToSet(r.found)
        /\ \A k \in Leaves(t, h - 1, 2 * pos) :
             BitWBloomFilterContainsData(f, t[k]) => t[k] \in ToSet(r.found)
    BY <1>7, <1>18 DEF Passed, left, a, x
  <2>2. \A i, j \in Nat : (i + 1) + j = i + (1 + j)
    OBVIOUS
  <2>3. s.flagIdx \in Nat /\ Len(a) \in Nat
    BY <1>7, <1>11
  <2>4. (s.flagIdx + 1) + Len(a) = s.flagIdx + (1 + Len(a))
    BY <2>2, <2>3, Zenon
  <2> QED
    BY <2>1, <2>4
<1>19. ASSUME NEW r, Passed(b, t, f, h - 1, 2 * pos, next, r),
              2 * pos + 1 \notin Positions(t, h - 1)
       PROVE  ~MoreNodes(b, r) /\ Passed(b, t, f, h, pos, s, r)
  <2>1. pos + 1 \notin Positions(t, h)
    BY <1>1, <1>19, LeafFacts
  <2>2. Len(c) = 0 /\ Len(y) = 0
    BY <1>10, <1>19 DEF c, y
  <2>3. r.hashIdx = s.hashIdx + Len(part.hashes) /\ r.flagIdx = s.flagIdx + Len(part.bits)
    BY <1>7, <1>11, <1>18, <1>19, <2>2
  <2>4. ~(r.hashIdx < Len(b.hashes))
    BY <1>6, <1>8, <2>1, <2>3
  <2>5. \A k \in Leaves(t, h, pos) :
          BitWBloomFilterContainsData(f, t[k]) => t[k] \in ToSet(r.found)
    BY <1>1, <1>18, <1>19, LeafFacts
  <2>6. Passed(b, t, f, h, pos, s, r)
    BY <1>18, <1>19, <2>3, <2>5 DEF Passed, part
  <2> QED
    BY <2>4, <2>6 DEF MoreNodes
<1>20. ASSUME NEW r, Passed(b, t, f, h - 1, 2 * pos, next, r),
              2 * pos + 1 \in Positions(t, h - 1)
       PROVE  /\ Ready(b, t, f, h - 1, 2 * pos + 1, r)
              /\ \A q : Passed(b, t, f, h - 1, 2 * pos + 1, r, q) => Passed(b, t, f, h, pos, s, q)
  <2>1. /\ r.flagIdx = s.flagIdx + (1 + Len(a)) /\ r.hashIdx = s.hashIdx + Len(x)
        /\ ToSet(s.found) \subseteq ToSet(r.found)
        /\ \A k \in Leaves(t, h - 1, 2 * pos) :
             BitWBloomFilterContainsData(f, t[k]) => t[k] \in ToSet(r.found)
    BY <1>18, <1>20
  <2>2. /\ Partial(t, f)[h - 1][2 * pos + 1].bits = c
        /\ Partial(t, f)[h - 1][2 * pos + 1].hashes = y
    BY <1>10, <1>20 DEF c, y
  <2>3. ComesAt(bits, r.flagIdx, c) /\ ComesAt(b.hashes, r.hashIdx, y)
    BY <1>12, <1>14, <2>1
  <2>4. (2 * pos + 1) + 1 \notin Positions(t, h - 1) => r.hashIdx + Len(y) = Len(b.hashes)
    <3>1. (2 * pos + 1) + 1 \notin Positions(t, h - 1) => pos + 1 \notin Positions(t, h)
      BY <1>1, LeafFacts
    <3> QED
      BY <1>7, <1>8, <1>11, <2>1, <3>1
  <2>5. Ready(b, t, f, h - 1, 2 * pos + 1, r)
    BY <2>2, <2>3, <2>4 DEF Ready, bits
  <2>6. ASSUME NEW q, Passed(b, t, f, h - 1, 2 * pos + 1, r, q)
        PROVE  Passed(b, t, f, h, pos, s, q)
    <3>1. /\ q \in WalkStates(b)
          /\ q.flagIdx = r.flagIdx + Len(c) /\ q.hashIdx = r.hashIdx + Len(y)
          /\ ToSet(r.found) \subseteq ToSet(q.found)
          /\ \A k \in Leaves(t, h - 1, 2 * pos + 1) :
               BitWBloomFilterContainsData(f, t[k]) => t[k] \in ToSet(q.found)
      BY <2>2, <2>6 DEF Passed
    <3>2. q.flagIdx = s.flagIdx + Len(part.bits) /\ q.hashIdx = s.hashIdx + Len(part.hashes)
      <4>1. q.flagIdx = (s.flagIdx + (1 + Len(a))) + Len(c)
            /\ q.hashIdx = (s.hashIdx + Len(x)) + Len(y)
        BY <2>1, <3>1
      <4>2. (s.flagIdx + (1 + Len(a))) + Len(c) = s.flagIdx + (1 + Len(a) + Len(c))
            /\ (s.hashIdx + Len(x)) + Len(y) = s.hashIdx + (Len(x) + Len(y))
        <5> DEFINE fi == s.flagIdx
                   hi == s.hashIdx
                   na == Len(a)
                   nc == Len(c)
                   nx == Len(x)
                   ny == Len(y)
        <5>1. fi \in Nat /\ hi \in Nat /\ na \in Nat /\ nc \in Nat /\ nx \in Nat /\ ny \in Nat
          BY <1>7, <1>11
        <5> HIDE DEF fi, hi, na, nc, nx, ny
        <5>2. (fi + (1 + na)) + nc = fi + (1 + na + nc) /\ (hi + nx) + ny = hi + (nx + ny)
          BY <5>1
        <5> QED
          BY <5>2 DEF fi, hi, na, nc, nx, ny
      <4> QED
        BY <1>11, <4>1, <4>2
    <3>3. \A k \in Leaves(t, h, pos) :
            BitWBloomFilterContainsData(f, t[k]) => t[k] \in ToSet(q.found)
      <4> SUFFICES ASSUME NEW k \in Leaves(t, h, pos), BitWBloomFilterContainsData(f, t[k])
                   PROVE  t[k] \in ToSet(q.found)
        OBVIOUS
      <4>1. k \in Leaves(t, h - 1, 2 * pos) \/ k \in Leaves(t, h - 1, 2 * pos + 1)
        BY <1>1, LeafFacts
      <4> QED
        BY <2>1, <3>1, <4>1
    <3> QED
      BY <2>1, <3>1, <3>2, <3>3 DEF Passed, part
  <2> QED
    BY <2>5, <2>6
<1> QED
  BY <1>15, <1>16, <1>17, <1>19, <1>20 DEF next

LEMMA WalkPart ==
  ASSUME HashesFit, NEW t \in Seq(Hash), t # <<>>, NEW f, NEW b, Carries(b, t, f),
         NEW s \in WalkStates(b), Ready(b, t, f, Height(t), 0, s)
  PROVE  Passed(b, t, f, Height(t), 0, s, TxHashesR(b)[0][s])
<1> DEFINE H == Height(t)
           w == TxHashesR(b)
           Walked(h, pos, u) == Ready(b, t, f, h, pos, u) => Passed(b, t, f, h, pos, u, w[H - h][u])
           S == {h \in 0..H : \A pos \in Positions(t, h) : \A u \in WalkStates(b) : Walked(h, pos, u)}
<1>1. H \in Nat /\ b.hashes \in Seq(Hash) /\ CeilLog2(b.totalTx) = H
  BY HeightFacts, FlagFacts DEF Carries, Height
<1>2. /\ \A d \in 0..H : w[d] \in [WalkStates(b) -> WalkStates(b)]
      /\ \A u \in WalkStates(b) : w[H][u] = AtLeaf(b, u)
      /\ \A d \in 0..(H - 1) : \A u \in WalkStates(b) : w[d][u] = AtBranch(b, w[d + 1], u)
  BY <1>1, WalkFacts
<1> HIDE DEF w, H
<1>3. 0 \in S
  <2>1. ASSUME NEW pos \in Positions(t, 0), NEW u \in WalkStates(b), Ready(b, t, f, 0, pos, u)
        PROVE  Passed(b, t, f, 0, pos, u, w[H - 0][u])
    <3>1. 0 \in 0..Height(t)
      BY <1>1 DEF H
    <3>2. MoreNodes(b, u) /\ Passed(b, t, f, 0, pos, u, TakeHash(b, u))
      BY <2>1, <3>1, LeafPassed
    <3>3. w[H - 0][u] = TakeHash(b, u)
      <4>1. H - 0 = H
        BY <1>1
      <4> QED
        BY <1>2, <3>2, <4>1 DEF AtLeaf
    <3> QED
      BY <3>2, <3>3
  <2> QED
    BY <1>1, <2>1
<1>4. ASSUME NEW h \in 1..H, h - 1 \in S  PROVE h \in S
  <2> DEFINE d == H - h
  <2>1. h \in 0..H /\ d \in 0..(H - 1) /\ d + 1 \in 0..H /\ H - (h - 1) = d + 1 /\ h # 0
    BY <1>1
  <2>2. \A pos \in Positions(t, h - 1) : \A u \in WalkStates(b) :
          Ready(b, t, f, h - 1, pos, u) => Passed(b, t, f, h - 1, pos, u, w[d + 1][u])
    BY <1>4, <2>1
  <2> HIDE DEF d
  <2>3. ASSUME NEW pos \in Positions(t, h), NEW u \in WalkStates(b), Ready(b, t, f, h, pos, u)
        PROVE  Passed(b, t, f, h, pos, u, w[d][u])
    <3>1. w[d][u] = AtBranch(b, w[d + 1], u)
      BY <1>2, <2>1
    <3>2. CASE ~Matched(t, f, h, pos)
      <4>1. /\ MoreNodes(b, u) /\ ~Flag(b, u.flagIdx)
            /\ Passed(b, t, f, h, pos, u, TakeHash(b, u))
        BY <2>1, <2>3, <3>2, LeafPassed DEF H
      <4> QED
        BY <3>1, <4>1 DEF AtBranch
    <3>3. CASE Matched(t, f, h, pos)
      <4> DEFINE n == Skip(u)
                 r == w[d + 1][n]
                 q == w[d + 1][r]
      <4>1. /\ MoreNodes(b, u) /\ Flag(b, u.flagIdx)
            /\ Ready(b, t, f, h - 1, 2 * pos, n)
            /\ \A v : Passed(b, t, f, h - 1, 2 * pos, n, v) =>
                 IF 2 * pos + 1 \in Positions(t, h - 1)
                 THEN /\ Ready(b, t, f, h - 1, 2 * pos + 1, v)
                      /\ \A z : Passed(b, t, f, h - 1, 2 * pos + 1, v, z) =>
                                  Passed(b, t, f, h, pos, u, z)
                 ELSE ~MoreNodes(b, v) /\ Passed(b, t, f, h, pos, u, v)
        BY <2>3, <3>3, BranchReady DEF H
      <4>2. w[d][u] = q
        BY <3>1, <4>1 DEF AtBranch
      <4>3. n \in WalkStates(b) /\ 2 * pos \in Positions(t, h - 1)
        BY <1>1, SkipFacts, NodeFacts
      <4> HIDE DEF n
      <4>4. Passed(b, t, f, h - 1, 2 * pos, n, r)
        BY <2>2, <4>1, <4>3
      <4>5. r \in WalkStates(b)
        BY <4>4 DEF Passed
      <4> HIDE DEF r
      <4>6. CASE 2 * pos + 1 \in Positions(t, h - 1)
        <5>1. Ready(b, t, f, h - 1, 2 * pos + 1, r)
          BY <4>1, <4>4, <4>6
        <5>2. Passed(b, t, f, h - 1, 2 * pos + 1, r, q)
          BY <2>2, <4>5, <4>6, <5>1
        <5> QED
          BY <4>1, <4>2, <4>4, <4>6, <5>2
      <4>7. CASE 2 * pos + 1 \notin Positions(t, h - 1)
        <5>1. ~MoreNodes(b, r) /\ Passed(b, t, f, h, pos, u, r)
          BY <4>1, <4>4, <4>7
        <5>2. q = r
          <6>1. CASE d + 1 = H
            BY <1>2, <4>5, <5>1, <6>1 DEF AtLeaf
          <6>2. CASE d + 1 # H
            <7>1. d + 1 \in 0..(H - 1)
              BY <1>1, <2>1, <6>2
            <7>2. w[d + 1][r] = AtBranch(b, w[(d + 1) + 1], r)
              BY <1>2, <4>5, <7>1
            <7> QED
              BY <5>1, <7>2 DEF AtBranch
          <6> QED
            BY <6>1, <6>2
        <5> QED
          BY <4>2, <5>1, <5>2
      <4> QED
        BY <4>6, <4>7
    <3> QED
      BY <3>2, <3>3
  <2> QED
    BY <2>1, <2>3 DEF d
<1>5. \A h \in 0..H : h \in S
  <2> HIDE DEF S
  <2> QED
    BY <1>1, <1>3, <1>4, AllUpTo
<1>6. H \in S /\ H - H = 0 /\ 0 \in Positions(t, H)
  BY <1>1, <1>5, NodeFacts DEF H
<1>7. Walked(H, 0, s)
  BY <1>6
<1> QED
  BY <1>6, <1>7 DEF w, H

LEMMA FoundHere ==
  ASSUME HashesFit, NEW t \in Seq(Hash), t # <<>>, NEW f, NEW b, Carries(b, t, f),
         NEW k \in 1..Len(t), BitWBloomFilterContainsData(f, t[k])
  PROVE  /\ t[k] \in ToSet(BitWMerkleBlockTxHashes(b))
         /\ BitWMerkleBlockContainsTxHash(b, t[k])
<1> DEFINE H == Height(t)
           r == TxHashesR(b)[0][Start]
           bits == Bits(t, f)
<1>1. bits \in Seq({0, 1}) /\ b.hashes \in Seq(Hash)
  BY FlagFacts
<1>2. Start \in WalkStates(b)
  <2>1. <<>> \in Seq(ToSet(b.hashes))
    OBVIOUS
  <2> HIDE DEF WalkStates
  <2> DEFINE T == Seq(ToSet(b.hashes))
  <2>2. WalkStates(b) = [flagIdx : Nat, hashIdx : Nat, found : T]
    BY DEF WalkStates
  <2> HIDE DEF T
  <2>3. <<>> \in T
    BY <2>1 DEF T
  <2> QED
    BY <2>2, <2>3 DEF Start
<1>3. Ready(b, t, f, H, 0, Start)
  <2>1. Partial(t, f)[H][0].bits = bits /\ Partial(t, f)[H][0].hashes = b.hashes
    BY DEF Bits, Carries
  <2>2. Start.flagIdx = 0 /\ Start.hashIdx = 0
    BY DEF Start
  <2> HIDE DEF bits
  <2>3. ComesAt(bits, 0, bits) /\ ComesAt(b.hashes, 0, b.hashes) /\ 0 + Len(b.hashes) = Len(b.hashes)
    BY <1>1 DEF ComesAt
  <2> QED
    BY <2>1, <2>2, <2>3 DEF Ready, bits
<1>4. Passed(b, t, f, H, 0, Start, r)
  BY <1>2, <1>3, WalkPart
<1>5. k \in Leaves(t, H, 0)
  <2> DEFINE p == Power(H)
             n == Len(t)
  <2>1. n \in Nat /\ p \in Nat /\ p >= n /\ k \in 1..n
    BY HeightFacts, PowerStep
  <2>2. Leaves(t, H, 0) = (0 * p + 1)..Min2((0 + 1) * p, n)
    BY DEF Leaves, Power
  <2> HIDE DEF n, p
  <2>3. 0 * p = 0 /\ (0 + 1) * p = p
    BY <2>1
  <2> QED
    BY <2>1, <2>2, <2>3 DEF Min2
<1>6. r \in WalkStates(b) /\ t[k] \in ToSet(r.found)
  BY <1>4, <1>5 DEF Passed
<1>7. t[k] \in ToSet(BitWMerkleBlockTxHashes(b))
  BY <1>6 DEF BitWMerkleBlockTxHashes
<1>8. t[k] \in ToSet(b.hashes)
  <2>1. r.found \in Seq(ToSet(b.hashes))
    BY <1>1, <1>6, SkipFacts
  <2> HIDE DEF r
  <2> QED
    BY <1>6, <2>1 DEF ToSet
<1> QED
  BY <1>7, <1>8 DEF BitWMerkleBlockContainsTxHash, ToSet

(* A wallet misses nothing: whatever it put into its filter before it sent *)
(* it is found in the merkle block that comes back undamaged.              *)
THEOREM NothingIsMissed ==
  ASSUME HashesFit
  PROVE  Spec => []FoundAll
<1>1. ASSUME LightInv  PROVE FoundAll
  <2> SUFFICES ASSUME txs # <<>>, Undamaged, NEW k \in DOMAIN txs, txs[k] \in peer[1].elements
               PROVE  /\ txs[k] \in ToSet(BitWMerkleBlockTxHashes(block[1]))
                      /\ BitWMerkleBlockContainsTxHash(block[1], txs[k])
    BY DEF FoundAll
  <2> DEFINE f == peer[1].filter
             b == block[1]
             p == Partial(txs, f)[Height(txs)][0]
  <2>1. /\ txs \in Blocks /\ peer # <<>>
        /\ b.totalTx = Len(txs) /\ {"totalTx", "hashes", "flags"} \subseteq DOMAIN b
    BY <1>1 DEF LightInv, BlockInv
  <2>2. txs \in Seq(Hash)
    BY <2>1, SPVAssumption
  <2>3. k \in 1..Len(txs)
    BY <2>2
  <2>4. BitWBloomFilterContainsData(f, txs[k])
    BY <1>1, <2>1 DEF LightInv, FilterInv, InFilter
  <2>5. b.hashes = p.hashes /\ b.flags = Packed(p.bits)
    <3> DEFINE m == MerkleBlockOf(txs, f, b)
    <3>1. m = [b EXCEPT !.totalTx = Len(txs), !.hashes = p.hashes, !.flags = Packed(p.bits)]
      BY DEF MerkleBlockOf
    <3>2. b.hashes = m.hashes /\ b.flags = m.flags
      BY DEF Undamaged
    <3> HIDE DEF m, p, b
    <3>3. m.hashes = p.hashes /\ m.flags = Packed(p.bits)
      BY <2>1, <3>1
    <3> QED
      BY <3>2, <3>3
  <2>6. Carries(b, txs, f)
    BY <2>1, <2>5 DEF Carries
  <2> HIDE DEF f, b
  <2> QED
    BY <2>2, <2>3, <2>4, <2>6, FoundHere DEF b
<1>2. LightInv => FoundAll
  BY <1>1
<1> QED
  BY <1>2, LightInvariance, PTL

-----------------------------------------------------------------------------
(* The target of a transition is the one that is due.                      *)

Normal(target) ==
  /\ MantissaOf(target) < Span(MANTISSA) \div 2
  /\ ~TooEasy(MantissaOf(target), SizeOf(target))

(* A time an int holds is kept as it is.                                   *)
LEMMA IntTime ==
  ASSUME NEW time \in Int, -(Span(W32) \div 2) <= time, time < Span(W32) \div 2
  PROVE  Int32(time) = time
<1> DEFINE n == Span(W32)
           h == n \div 2
<1>1. n \in Nat /\ n > 0
  BY WidthFacts
<1> HIDE DEF n
<1>2. h \in Nat /\ 2 * h <= n
  BY <1>1
<1> HIDE DEF h
<1>3. time + h \in Nat /\ time + h < n
  BY <1>1, <1>2 DEF h, n
<1>4. (time + h) % n = time + h
  BY <1>1, <1>3, SmallMod
<1> QED
  BY <1>2, <1>4 DEF Int32, h, n

(* Dividing by u and by Q, and then multiplying by R, loses less than R of *)
(* what dividing by B * u, and not by P, gives.                            *)
LEMMA Band ==
  ASSUME NEW w \in Nat, NEW u \in Nat, u > 0, NEW P \in Nat, P > 0, NEW Q \in Nat, Q > 0,
         NEW B \in Nat, B > 0, NEW R \in Nat, B * R = P * Q
  PROVE  LET y == (w \div u) \div Q
             due == (w * P) \div (B * u)
         IN y * R <= due /\ due < (y + 1) * R
<1> DEFINE x == w \div u
           y == x \div Q
           a == y * R
           b == (y + 1) * R
           d == B * u
           n == w * P
<1>1. x \in Nat /\ w % u \in 0..(u - 1) /\ w = u * x + (w % u)
  BY ModFacts
<1>2. u * x <= w /\ w < u * (x + 1) /\ x \in Nat
  <2> DEFINE r == w % u
             ux == u * x
  <2>1. r \in 0..(u - 1) /\ w = ux + r /\ ux \in Nat /\ u * (x + 1) = ux + u
    <3> HIDE DEF x
    <3> QED
      BY <1>1
  <2> HIDE DEF r, ux
  <2> QED
    BY <1>1, <2>1 DEF ux
<1> HIDE DEF x
<1>3. y \in Nat /\ Q * y <= x /\ x + 1 <= Q * (y + 1)
  <2> DEFINE r == x % Q
             qy == Q * y
  <2>1. y \in Nat /\ r \in 0..(Q - 1) /\ x = Q * y + r
    BY <1>2, ModFacts
  <2>2. qy \in Nat /\ Q * (y + 1) = qy + Q /\ qy = Q * y
    <3> HIDE DEF y
    <3> QED
      BY <2>1
  <2> HIDE DEF r, qy, y
  <2> QED
    BY <1>2, <2>1, <2>2
<1> HIDE DEF y
<1>4. \A k \in Nat : (k * R) * d = ((Q * k) * u) * P
  <2> TAKE k \in Nat
  <2>1. (k * R) * d = (k * u) * (B * R)
    OBVIOUS
  <2>2. (k * u) * (P * Q) = ((Q * k) * u) * P
    OBVIOUS
  <2> QED
    BY <2>1, <2>2
<1>5. a * d <= n
  <2>1. (Q * y) * u <= x * u /\ (Q * y) * u \in Nat /\ x * u \in Nat
    BY <1>2, <1>3, ProductMono
  <2>2. (Q * y) * u <= w
    BY <1>2, <2>1
  <2>3. ((Q * y) * u) * P <= n
    BY <2>1, <2>2, ProductMono
  <2> QED
    BY <1>3, <1>4, <2>3
<1>6. n < b * d
  <2>1. (x + 1) * u <= (Q * (y + 1)) * u /\ (Q * (y + 1)) * u \in Nat
    BY <1>2, <1>3, ProductMono
  <2>2. w + 1 <= (Q * (y + 1)) * u
    BY <1>2, <2>1
  <2>3. (w + 1) * P <= ((Q * (y + 1)) * u) * P
    BY <2>1, <2>2, ProductMono
  <2>4. (w + 1) * P = n + P /\ n \in Nat
    OBVIOUS
  <2> DEFINE e == ((Q * (y + 1)) * u) * P
             f == (w + 1) * P
             g == b * d
  <2>5. g = e
    BY <1>3, <1>4
  <2>6. f <= e /\ f = n + P /\ n \in Nat /\ e \in Nat
    BY <2>1, <2>3, <2>4, ProductMono
  <2> HIDE DEF e, f, g, n
  <2>7. n < g
    BY <2>5, <2>6
  <2> QED
    BY <2>7 DEF g
<1>7. a \in Nat /\ b \in Nat /\ d \in Nat /\ d > 0 /\ n \in Nat
  BY <1>3
<1> HIDE DEF a, b, d, n
<1>8. a <= n \div d /\ n \div d < b
  BY <1>5, <1>6, <1>7, DivBounds
<1> QED
  BY <1>8 DEF a, b, d, n, y, x

(* What a target is multiplied to, in units of 1 / Span(MANTISSA).         *)
Due(target, elapsed) ==
  (ScaledTarget(target) * Limited(elapsed)) \div TARGET_TIMESPAN

(* However far the multiplied target is shifted, less than a unit of its   *)
(* last place is lost.                                                     *)
LEMMA DueBand ==
  ASSUME NEW target \in Nat, NEW elapsed \in Int, NEW n \in Nat, SizeOf(target) - 1 + n >= 0
  PROVE  LET y == Multiplied(target, elapsed) \div Span(n)
             size == SizeOf(target) - 1 + n
         IN /\ y \in Nat /\ Due(target, elapsed) \in Nat
            /\ Scaled(y, size) <= Due(target, elapsed)
            /\ Due(target, elapsed) < Scaled(y + 1, size)
<1> DEFINE s == SizeOf(target)
           m == MantissaOf(target)
           l == Limited(elapsed)
           u == TARGET_TIMESPAN \div BYTE
           w == m * l
           P == Span(s)
           Q == Span(n)
           size == s - 1 + n
           R == Span(size)
           y == (w \div u) \div Q
           due == (w * P) \div (BYTE * u)
<1>1. s \in Nat /\ m \in Nat /\ l \in Nat
  BY TargetParts, LimitedType
<1>2. u \in Nat /\ u > 0 /\ TARGET_TIMESPAN = BYTE * u /\ BYTE \in Nat /\ BYTE > 0
  BY TimespanFacts, BitsFacts
<1> HIDE DEF s, m, l, u
<1>3. size \in Nat /\ size + 1 = s + n
  BY <1>1 DEF s
<1>4. /\ P \in Nat /\ P > 0 /\ Q \in Nat /\ Q > 0 /\ R \in Nat /\ BYTE * R = P * Q
  <2>1. Span(size + 1) = BYTE * Span(size) /\ Span(size) \in Nat
    BY <1>3, SpanStep
  <2>2. Span(s + n) = Span(s) * Span(n)
    BY <1>1, SpanAdd
  <2> QED
    BY <1>1, <1>3, <2>1, <2>2, SpanStep
<1>5. w \in Nat
  BY <1>1
<1> HIDE DEF P, Q, R, w, size
<1>6. y * R <= due /\ due < (y + 1) * R
  BY <1>2, <1>4, <1>5, Band
<1>7. y \in Nat /\ due \in Nat
  <2>1. w \div u \in Nat
    BY <1>2, <1>5, ModFacts
  <2>2. w * P \in Nat /\ BYTE * u \in Nat /\ BYTE * u > 0
    BY <1>2, <1>4, <1>5
  <2> QED
    BY <1>4, <2>1, <2>2, ModFacts
<1>8. Due(target, elapsed) = due
  <2>1. (m * P) * l = w * P
    BY <1>1, <1>4 DEF w
  <2> QED
    BY <1>2, <2>1 DEF Due, ScaledTarget, Scaled, m, P, s, l
<1>9. Multiplied(target, elapsed) \div Span(n) = y
  BY DEF Multiplied, w, m, l, u, Q
<1> HIDE DEF y, due
<1> QED
  BY <1>6, <1>7, <1>8, <1>9 DEF Scaled, R, size, s

LEMMA ScaledFacts ==
  ASSUME NEW a \in Nat, NEW j \in Nat
  PROVE  /\ Scaled(a, j) \in Nat
         /\ Scaled(a, j + 1) = Scaled(BYTE * a, j)
         /\ Scaled(a + 1, j) = Scaled(a, j) + Span(j)
<1> DEFINE p == Span(j)
<1>1. p \in Nat /\ Span(j + 1) = BYTE * p /\ BYTE \in Nat
  BY SpanStep, BitsFacts
<1> HIDE DEF p
<1>2. a * (BYTE * p) = (BYTE * a) * p /\ (a + 1) * p = a * p + p /\ a * p \in Nat
  BY <1>1
<1> QED
  BY <1>1, <1>2 DEF Scaled, p

LEMMA ScaledMono ==
  ASSUME NEW a \in Nat, NEW b \in Nat, a <= b, NEW j \in Nat, NEW k \in Nat, j <= k
  PROVE  Scaled(a, j) <= Scaled(b, k)
<1> DEFINE p == Span(j)
           q == Span(k)
<1>1. p \in Nat /\ q \in Nat
  BY SpanStep
<1>2. p <= q
  <2>1. j < k => 2 * p <= q
    BY SpanMonotone
  <2>2. j = k => p = q
    OBVIOUS
  <2> HIDE DEF p, q
  <2> QED
    BY <1>1, <2>1, <2>2
<1> HIDE DEF p, q
<1>3. a * p <= b * p /\ p * b <= q * b /\ a * p \in Nat /\ b * p \in Nat /\ b * q \in Nat
  BY <1>1, <1>2, ProductMono
<1>4. p * b = b * p /\ q * b = b * q
  BY <1>1
<1>5. a * p <= b * q
  BY <1>3, <1>4
<1> QED
  BY <1>5 DEF Scaled, p, q

Limit == Scaled(MAX_TARGET, MAX_SIZE)

(* A shifted target is above the limit only if what it is made of is.      *)
LEMMA AboveLimit ==
  ASSUME NEW target \in Nat, Normal(target), NEW elapsed \in Int, NEW n \in Nat,
         Shifts(Multiplied(target, elapsed), SizeOf(target) - 1, n),
         TooEasy(Multiplied(target, elapsed) \div Span(n), SizeOf(target) - 1 + n)
  PROVE  Limit <= Due(target, elapsed)
<1> DEFINE s == SizeOf(target) - 1
           x == Multiplied(target, elapsed)
           due == Due(target, elapsed)
           Y(i) == x \div Span(i)
<1>1. /\ MAX_TARGET \in Nat /\ MAX_TARGET < Span(MANTISSA) \div 2 /\ MAX_SIZE \in Nat /\ MAX_SIZE >= 3
      /\ Span(MANTISSA) \div 2 \in Nat
  BY TimespanFacts, TargetFacts
<1>2. s \in Int /\ ~(SizeOf(target) > MAX_SIZE) /\ SizeOf(target) \in Nat
  BY TargetParts DEF Normal, TooEasy
<1>3. s + n >= 1
  BY DEF Shifts, Fits
<1>4. ASSUME NEW i \in Nat, s + i >= 0
      PROVE  /\ Y(i) \in Nat /\ due \in Nat /\ Scaled(Y(i), s + i) <= due
  BY <1>4, DueBand
<1>5. CASE s + n = MAX_SIZE /\ Y(n) > MAX_TARGET
  <2>1. Y(n) \in Nat /\ due \in Nat /\ Scaled(Y(n), s + n) <= due
    <3>1. s + n >= 0
      BY <1>1, <1>5
    <3> HIDE DEF s, due, Y
    <3> QED
      BY <1>4, <3>1
  <2> DEFINE y == Y(n)
  <2> HIDE DEF y
  <2>2. Limit <= Scaled(y, MAX_SIZE) /\ Scaled(y, MAX_SIZE) \in Nat /\ Limit \in Nat
    BY <1>1, <1>5, <2>1, ScaledMono, ScaledFacts DEF Limit, y
  <2>3. Scaled(y, MAX_SIZE) <= due
    BY <1>5, <2>1 DEF y
  <2> HIDE DEF due
  <2> QED
    BY <2>1, <2>2, <2>3 DEF due
<1>6. CASE s + n > MAX_SIZE
  <2> DEFINE i == n - 1
             y == Y(i)
  <2>1. i \in 0..(n - 1) /\ i \in Nat /\ s + i >= MAX_SIZE /\ s + i \in Nat
    BY <1>1, <1>2, <1>6
  <2>2. ~Fits(x, s, i)
    BY <2>1 DEF Shifts
  <2>3. y >= Span(MANTISSA) \div 2 /\ y \in Nat /\ due \in Nat /\ Scaled(y, s + i) <= due
    <3>1. y \in Nat /\ due \in Nat /\ Scaled(y, s + i) <= due
      <4> HIDE DEF due, i
      <4> QED
        BY <1>1, <1>4, <2>1
    <3>2. ~(y < Span(MANTISSA) \div 2)
      BY <1>1, <2>1, <2>2 DEF Fits
    <3> HIDE DEF y, due
    <3> QED
      BY <1>1, <3>1, <3>2
  <2> HIDE DEF y, i, s, x, due
  <2>4. MAX_TARGET <= y
    BY <1>1, <2>3
  <2>5. Limit <= Scaled(y, s + i) /\ Limit \in Nat /\ Scaled(y, s + i) \in Nat
    BY <1>1, <2>1, <2>3, <2>4, ScaledMono, ScaledFacts DEF Limit
  <2>6. Limit <= due
    BY <2>3, <2>5
  <2> QED
    BY <2>6 DEF due
<1>7. s + n > MAX_SIZE \/ (s + n = MAX_SIZE /\ Y(n) > MAX_TARGET)
  BY DEF TooEasy
<1> QED
  BY <1>5, <1>6, <1>7

LEMMA BelowLimit ==
  ASSUME NEW y \in Nat, y < Span(MANTISSA) \div 2, NEW size \in Nat, ~TooEasy(y, size)
  PROVE  Scaled(y, size) <= Limit
<1>1. /\ MAX_TARGET \in Nat /\ MAX_SIZE \in Nat /\ BYTE \in Nat
      /\ Span(MANTISSA) \div 2 \in Nat /\ Span(MANTISSA) \div 2 <= BYTE * MAX_TARGET
  BY TimespanFacts, TargetFacts, BitsFacts, MerkleAssumption
<1>2. ~(size > MAX_SIZE) /\ ~(size = MAX_SIZE /\ y > MAX_TARGET)
  BY DEF TooEasy
<1>3. CASE size = MAX_SIZE
  <2>1. y <= MAX_TARGET
    BY <1>1, <1>2, <1>3
  <2> QED
    BY <1>1, <1>3, <2>1, ScaledMono DEF Limit
<1>4. CASE size # MAX_SIZE
  <2>1. size + 1 \in Nat /\ size + 1 <= MAX_SIZE
    BY <1>1, <1>2, <1>4
  <2>2. y <= BYTE * MAX_TARGET /\ BYTE * MAX_TARGET \in Nat
    BY <1>1
  <2>3. Scaled(y, size) <= Scaled(BYTE * MAX_TARGET, size)
    BY <2>2, ScaledMono
  <2>4. Scaled(BYTE * MAX_TARGET, size) = Scaled(MAX_TARGET, size + 1)
    BY <1>1, ScaledFacts
  <2>5. Scaled(MAX_TARGET, size + 1) <= Limit
    BY <1>1, <2>1, ScaledMono DEF Limit
  <2>6. {Scaled(y, size), Scaled(BYTE * MAX_TARGET, size), Limit} \subseteq Nat
    BY <1>1, <2>2, ScaledFacts DEF Limit
  <2> QED
    BY <2>3, <2>4, <2>5, <2>6
<1> QED
  BY <1>3, <1>4

LEMMA CompactParts ==
  ASSUME NEW m \in Nat, m < Span(MANTISSA) \div 2, NEW size \in Nat
  PROVE  SizeOf(Compact(m, size)) = size /\ MantissaOf(Compact(m, size)) = m
<1> DEFINE n == Span(MANTISSA)
           c == m + size * n
<1>1. n \in Nat /\ n > 0 /\ m < n
  <2>1. n \in Nat /\ n >= 4 /\ n \div 2 \in Nat
    BY TargetFacts
  <2> HIDE DEF n
  <2>2. n \div 2 <= n
    BY <2>1
  <2> QED
    BY <2>1, <2>2 DEF n
<1> HIDE DEF n
<1>2. c \in Nat /\ n * size + m = c
  BY <1>1
<1> HIDE DEF c
<1>3. c \div n \in Nat /\ c % n \in 0..(n - 1) /\ c = n * (c \div n) + (c % n)
  BY <1>1, <1>2, ModFacts
<1>4. size = c \div n /\ m = c % n
  <2> DEFINE q == c \div n
             r == c % n
  <2>1. q \in Int /\ r \in 0..(n - 1) /\ m \in 0..(n - 1) /\ n * size + m = n * q + r
    BY <1>1, <1>2, <1>3
  <2> HIDE DEF q, r
  <2>2. size = q /\ m = r
    BY <1>1, <2>1, DivUnique
  <2> QED
    BY <2>2 DEF q, r
<1> QED
  BY <1>4 DEF SizeOf, MantissaOf, Compact, c, n

(* The target of a transition is the one the time since the last one makes *)
(* due.                                                                    *)
LEMMA TransitionDue ==
  ASSUME NEW target \in Nat, Normal(target), NEW time \in Int, Int32(time) = time
  PROVE  LET new == TransitionTarget(target, time)
         IN /\ ScaledTarget(new) <= Changed(target, time)
            /\ Changed(target, time) < ScaledTarget(new) + Span(SizeOf(new))
<1> DEFINE new == TransitionTarget(target, time)
           changed == Changed(target, time)
           due == Due(target, time)
           x == Multiplied(target, time)
           s == SizeOf(target) - 1
<1>1. s \in Int /\ s >= -1 /\ x \in Nat
  <2>1. MantissaOf(target) * Limited(time) \in Nat
    BY TargetParts, LimitedType
  <2>2. x \in Nat
    BY <2>1, TimespanFacts, ModFacts DEF Multiplied
  <2> QED
    BY <2>2, TargetParts
<1> HIDE DEF x, s
<1>2. PICK n \in Nat : Shifts(x, s, n)
  BY <1>1, NormalizeFacts
<1> DEFINE y == x \div Span(n)
           size == s + n
<1>3. /\ y \in Nat /\ y < Span(MANTISSA) \div 2 /\ size \in Nat
      /\ new = IF TooEasy(y, size) THEN Compact(MAX_TARGET, MAX_SIZE) ELSE Compact(y, size)
  <2>1. Normalize(x, s) = [mantissa |-> y, size |-> size]
    BY <1>2 DEF Shifts
  <2>2. y < Span(MANTISSA) \div 2 /\ size >= 1
    BY <1>2 DEF Shifts, Fits
  <2>3. y \in Nat
    BY <1>1, SpanStep, ModFacts
  <2>4. new = IF TooEasy(Normalize(x, s).mantissa, Normalize(x, s).size)
              THEN Compact(MAX_TARGET, MAX_SIZE)
              ELSE Compact(Normalize(x, s).mantissa, Normalize(x, s).size)
    BY DEF TransitionTarget, x, s, Multiplied
  <2>5. Normalize(x, s).mantissa = y /\ Normalize(x, s).size = size
    BY <2>1
  <2> HIDE DEF y, new
  <2> QED
    BY <1>1, <2>2, <2>3, <2>4, <2>5
<1>4. due \in Nat /\ Scaled(y, size) <= due /\ due < Scaled(y + 1, size)
  <2>1. size >= 0
    BY <1>3
  <2> HIDE DEF due
  <2> QED
    BY <2>1, DueBand DEF x, s, due
<1>5. changed = Min2(due, Limit) /\ Limit \in Nat
  <2> DEFINE quarter == TARGET_TIMESPAN \div 4
             span == IF time < quarter THEN quarter ELSE Min2(time, 4 * TARGET_TIMESPAN)
  <2>1. TARGET_TIMESPAN \in Nat /\ quarter \in Nat /\ quarter <= TARGET_TIMESPAN * 4
    BY TimespanFacts
  <2>2. Limited(time) = span
    BY <2>1 DEF Limited, Min2
  <2>3. changed = Min2((ScaledTarget(target) * span) \div TARGET_TIMESPAN, Limit)
    BY DEF Changed, Limit
  <2>4. Limit \in Nat
    BY TimespanFacts, ScaledFacts DEF Limit
  <2> QED
    BY <2>2, <2>3, <2>4 DEF Due
<1> HIDE DEF y, size, changed, due
<1>6. CASE TooEasy(y, size)
  <2>1. Limit <= due
    BY <1>2, <1>6, AboveLimit DEF x, s, y, size, due
  <2>2. changed = Limit
    BY <1>4, <1>5, <2>1 DEF Min2
  <2>3. MAX_TARGET \in Nat /\ MAX_TARGET < Span(MANTISSA) \div 2 /\ MAX_SIZE \in Nat
    BY TimespanFacts
  <2>4. ScaledTarget(new) = Limit /\ SizeOf(new) = MAX_SIZE
    BY <1>3, <1>6, <2>3, CompactParts DEF ScaledTarget, Limit
  <2>5. Span(SizeOf(new)) \in Nat /\ Span(SizeOf(new)) > 0
    BY <2>3, <2>4, SpanStep
  <2> HIDE DEF new
  <2> QED
    BY <1>5, <2>2, <2>4, <2>5 DEF changed, new
<1>7. CASE ~TooEasy(y, size)
  <2>1. ScaledTarget(new) = Scaled(y, size) /\ SizeOf(new) = size
    BY <1>3, <1>7, CompactParts DEF ScaledTarget
  <2>2. Scaled(y, size) <= Limit
    BY <1>3, <1>7, BelowLimit
  <2>3. Scaled(y + 1, size) = Scaled(y, size) + Span(size) /\ Scaled(y, size) \in Nat
        /\ Span(size) \in Nat
    BY <1>3, ScaledFacts, SpanStep
  <2>4. Scaled(y, size) <= changed /\ changed < Scaled(y, size) + Span(size)
    BY <1>4, <1>5, <2>2, <2>3 DEF Min2
  <2> QED
    BY <2>1, <2>4 DEF changed
<1> QED
  BY <1>6, <1>7

(* Every block has the height of its place and a normal target, and that   *)
(* of every block but the first follows from the blocks before.            *)
Followed(c, k) ==
  c[k].target =
    IF (k - 1) % BLOCK_DIFFICULTY_INTERVAL # 0 THEN c[k - 1].target
    ELSE TransitionTarget(c[k - 1].target,
                          c[k - 1].timestamp - c[k - BLOCK_DIFFICULTY_INTERVAL].timestamp)
DueInv ==
  /\ \A k \in 1..Len(chain) :
       /\ chain[k].height = k - 1
       /\ chain[k].timestamp <= Now + BLOCK_MAX_TIME_DRIFT
       /\ Normal(chain[k].target)
  /\ \A k \in 2..Len(chain) : Followed(chain, k)

DriftedNow == Now + BLOCK_MAX_TIME_DRIFT

LEMMA TimesFacts ==
  ASSUME TimesFit
  PROVE  /\ DriftedNow \in Nat /\ FirstTime <= DriftedNow
         /\ \A s, t \in 0..DriftedNow : s - t \in Int /\ Int32(s - t) = s - t
<1> DEFINE h == Span(W32) \div 2
<1>1. h \in Nat
  BY WidthFacts
<1>2. DriftedNow \in Nat /\ FirstTime <= DriftedNow /\ DriftedNow < h
  BY MerkleAssumption DEF TimesFit, DriftedNow
<1>3. ASSUME NEW s \in 0..DriftedNow, NEW t \in 0..DriftedNow
      PROVE  s - t \in Int /\ Int32(s - t) = s - t
  <2> DEFINE d == s - t
  <2>1. d \in Int /\ -h <= d /\ d < h
    <3> HIDE DEF h
    <3> QED
      BY <1>1, <1>2
  <2> HIDE DEF d
  <2>2. Int32(d) = d
    BY <2>1, IntTime
  <2> QED
    BY <2>1, <2>2 DEF d
<1> QED
  BY <1>2, <1>3

LEMMA DueInit ==
  ASSUME TimesFit, Init
  PROVE  DueInv
<1> DEFINE g == Genesis
<1>1. chain = <<g>>
  BY DEF Init
<1>2. g.height = 0 /\ g.timestamp = FirstTime /\ g.target = FirstTarget
  BY DEF Genesis
<1>3. Normal(g.target) /\ g.timestamp <= DriftedNow
  BY <1>2, TimesFacts, SPVAssumption DEF Normal
<1> HIDE DEF g
<1>4. Len(chain) = 1 /\ chain[1] = g
  BY <1>1
<1>5. \A k \in 1..Len(chain) : k = 1
  BY <1>4
<1>6. \A k \in 2..Len(chain) : FALSE
  BY <1>4
<1> QED
  BY <1>2, <1>3, <1>4, <1>5, <1>6 DEF DueInv, DriftedNow

(* The block of the last transition is found by its height.                *)
LEMMA TransitionFound ==
  ASSUME ChainInv, DueInv, Len(chain) % BLOCK_DIFFICULTY_INTERVAL = 0
  PROVE  LET k == (Len(chain) + 1) - BLOCK_DIFFICULTY_INTERVAL
         IN k \in 1..Len(chain) /\ TransitionTime(Len(chain)) = chain[k].timestamp
<1> DEFINE n == Len(chain)
           i == BLOCK_DIFFICULTY_INTERVAL
           k == (n + 1) - i
           at == {j \in DOMAIN chain : chain[j].height = n - i}
<1>1. n \in Nat /\ n > 0 /\ i \in Nat /\ i > 0 /\ n % i = 0 /\ DOMAIN chain = 1..n
  <2>1. n \in Nat /\ n > 0
    BY LastKnown
  <2>2. DOMAIN chain = 1..n
    BY DEF ChainInv
  <2> QED
    BY <2>1, <2>2, TimespanFacts
<1> HIDE DEF n, i
<1>2. n >= i
  <2>1. n < i => n % i = n
    BY <1>1, SmallMod
  <2> QED
    BY <1>1, <2>1
<1>3. k \in 1..n
  BY <1>1, <1>2
<1>4. \A j \in 1..n : chain[j].height = j - 1
  BY DEF DueInv, n
<1>5. \A j : j \in at <=> j = k
  <2> SUFFICES ASSUME NEW j  PROVE j \in at <=> j = k
    OBVIOUS
  <2>1. j \in at <=> j \in 1..n /\ chain[j].height = n - i
    BY <1>1
  <2>2. j \in 1..n => (chain[j].height = n - i <=> j = k)
    <3> SUFFICES ASSUME j \in 1..n  PROVE j - 1 = n - i <=> j = k
      BY <1>4
    <3> QED
      BY <1>1
  <2> HIDE DEF at, k
  <2> QED
    BY <1>3, <2>1, <2>2
<1>6. at = {k}
  <2> HIDE DEF at, k
  <2> QED
    BY <1>5
<1>7. TransitionTime(n) = chain[k].timestamp
  <2>1. TransitionTime(n) = IF at = {} THEN 0 ELSE chain[CHOOSE j \in at : TRUE].timestamp
    BY DEF TransitionTime, i
  <2> HIDE DEF at, k
  <2>2. (CHOOSE j \in {k} : TRUE) = k
    OBVIOUS
  <2> QED
    BY <1>6, <2>1, <2>2
<1> QED
  BY <1>3, <1>7 DEF n, i

LEMMA DueNext ==
  ASSUME TimesFit, ChainInv, DueInv, OnlyGrows, ChainInv'
  PROVE  DueInv'
<1>1. CASE UNCHANGED chain
  BY <1>1 DEF DueInv, Followed
<1>2. CASE chain' # chain
  <2> DEFINE n == Len(chain)
             last == Last(chain)
             i == BLOCK_DIFFICULTY_INTERVAL
  <2>1. PICK r : /\ BlockKnown(r) /\ r.height = last.height + 1
                 /\ Accepted(r) /\ chain' = Append(chain, r)
    BY <1>2 DEF OnlyGrows
  <2>2. n \in Nat /\ n > 0 /\ last = chain[n] /\ n \in 1..n
    BY LastKnown DEF Last
  <2>3. /\ Len(chain') = n + 1 /\ chain'[n + 1] = r
        /\ \A k \in 1..n : chain'[k] = chain[k]
    <3>1. PICK S : chain \in Seq(S)
      BY DEF ChainInv
    <3>2. chain \in Seq(S \cup {r})
      BY <3>1, SeqWiden
    <3> QED
      BY <2>1, <3>2
  <2> HIDE DEF n, last, i
  <2>4. r.height = n
    <3>1. last.height = n - 1
      BY <2>2 DEF DueInv, n
    <3> QED
      BY <2>1, <2>2, <3>1
  <2>5. r.timestamp <= Now + BLOCK_MAX_TIME_DRIFT /\ Normal(r.target)
    BY <2>1 DEF Accepted, BitWMerkleBlockIsValid, Normal
  <2>6. r.target = IF n % i = 0
                   THEN TransitionTarget(last.target, last.timestamp - TransitionTime(n))
                   ELSE last.target
    BY <2>1, <2>4 DEF Accepted, BitWMerkleBlockVerifyDifficulty, last, i
  <2>7. Followed(chain', n + 1)
    <3> DEFINE k == n + 1
    <3>1. chain'[k] = r /\ chain'[k - 1] = last /\ k - 1 = n
      BY <2>2, <2>3
    <3>2. ASSUME n % i = 0
          PROVE  k - i \in 1..n /\ TransitionTime(n) = chain[k - i].timestamp
      BY <3>2, TransitionFound DEF n, i
    <3> HIDE DEF k
    <3>3. n % i # 0 => Followed(chain', k)
      BY <2>6, <3>1 DEF Followed, i
    <3>4. ASSUME n % i = 0  PROVE Followed(chain', k)
      <4>1. k - i \in 1..n /\ TransitionTime(n) = chain[k - i].timestamp
        BY <3>2, <3>4
      <4>2. chain'[k - i] = chain[k - i]
        BY <2>3, <4>1
      <4>3. r.target = TransitionTarget(last.target, last.timestamp - chain'[k - i].timestamp)
        BY <2>6, <3>4, <4>1, <4>2
      <4> QED
        BY <3>1, <3>4, <4>3 DEF Followed, i
    <3> QED
      BY <3>3, <3>4 DEF k
  <2>8. ASSUME NEW k \in 1..Len(chain')
        PROVE  /\ chain'[k].height = k - 1
               /\ chain'[k].timestamp <= Now + BLOCK_MAX_TIME_DRIFT
               /\ Normal(chain'[k].target)
    <3>1. k = n + 1 \/ k \in 1..n
      BY <2>2, <2>3
    <3>2. CASE k = n + 1
      BY <2>2, <2>3, <2>4, <2>5, <3>2
    <3>3. CASE k \in 1..n
      BY <2>3, <3>3 DEF DueInv, n
    <3> QED
      BY <3>1, <3>2, <3>3
  <2>9. ASSUME NEW k \in 2..Len(chain')  PROVE Followed(chain', k)
    <3>1. k = n + 1 \/ k \in 2..n
      BY <2>2, <2>3
    <3>2. CASE k = n + 1
      BY <2>7, <3>2
    <3>3. CASE k \in 2..n
      <4>1. Followed(chain, k) /\ k \in 1..n /\ k - 1 \in 1..n
        BY <2>2, <3>3 DEF DueInv, n
      <4>2. chain'[k] = chain[k] /\ chain'[k - 1] = chain[k - 1]
        BY <2>3, <4>1
      <4>3. CASE (k - 1) % i # 0
        BY <4>1, <4>2, <4>3 DEF Followed, i
      <4>4. CASE (k - 1) % i = 0
        <5>1. k - i \in 1..n
          <6>1. k - 1 \in Nat /\ k - 1 > 0 /\ i \in Nat /\ i > 0
            BY <3>3, TimespanFacts DEF i
          <6>2. k - 1 < i => (k - 1) % i = k - 1
            BY <6>1, SmallMod
          <6> QED
            BY <2>2, <3>3, <4>4, <6>1, <6>2
        <5>2. chain'[k - i] = chain[k - i]
          BY <2>3, <5>1
        <5> QED
          BY <4>1, <4>2, <5>2 DEF Followed, i
      <4> QED
        BY <4>3, <4>4
    <3> QED
      BY <3>1, <3>2, <3>3
  <2> QED
    BY <2>8, <2>9 DEF DueInv
<1> QED
  BY <1>1, <1>2

(* The target of every accepted block is that of the block before; at a    *)
(* transition it is that target times the limited time since the last      *)
(* transition over the timespan, or the limit, less what its mantissa does *)
(* not hold.                                                               *)
THEOREM TargetsAlwaysDefined ==
  ASSUME HashesFit, TimesFit
  PROVE  Spec => []TargetAsDefined
<1>1. Init => LightInv /\ DueInv
  BY LightInit, DueInit
<1>2. LightInv /\ DueInv /\ [Next]_vars => (LightInv /\ DueInv)'
  BY LightNext, DueNext DEF LightInv
<1>3. LightInv /\ DueInv => TargetAsDefined
  <2> SUFFICES ASSUME ChainInv, DueInv, NEW k \in 2..Len(chain)
               PROVE  LET old == chain[k - 1].target
                          new == chain[k].target
                          due == Changed(old, chain[k - 1].timestamp
                                              - chain[k - BLOCK_DIFFICULTY_INTERVAL].timestamp)
                      IN IF chain[k].height % BLOCK_DIFFICULTY_INTERVAL # 0 THEN new = old
                         ELSE /\ ScaledTarget(new) <= due
                              /\ due < ScaledTarget(new) + Span(SizeOf(new))
    BY DEF TargetAsDefined, LightInv
  <2> DEFINE n == Len(chain)
             i == BLOCK_DIFFICULTY_INTERVAL
             old == chain[k - 1].target
             time == chain[k - 1].timestamp - chain[k - i].timestamp
  <2>1. n \in Nat /\ k \in 1..n /\ k - 1 \in 1..n /\ k - 1 \in Nat /\ k - 1 > 0
    BY LastKnown
  <2>2. Followed(chain, k) /\ chain[k].height = k - 1 /\ Normal(old)
    BY <2>1 DEF DueInv
  <2>3. old \in Nat
    BY <2>1 DEF ChainInv, BlockKnown
  <2>4. CASE (k - 1) % i # 0
    BY <2>2, <2>4 DEF Followed
  <2>5. CASE (k - 1) % i = 0
    <3>1. k - i \in 1..n
      <4>1. i \in Nat /\ i > 0
        BY TimespanFacts
      <4> HIDE DEF i
      <4>2. k - 1 < i => (k - 1) % i = k - 1
        BY <2>1, <4>1, SmallMod
      <4> QED
        BY <2>1, <2>5, <4>1, <4>2
    <3>2. \A j \in 1..n : chain[j].timestamp \in 0..DriftedNow
      <4> TAKE j \in 1..n
      <4>1. chain[j].timestamp \in Nat /\ chain[j].timestamp <= DriftedNow
        BY DEF DueInv, ChainInv, BlockKnown, DriftedNow
      <4> QED
        BY <4>1, TimesFacts
    <3>3. time \in Int /\ Int32(time) = time
      <4> HIDE DEF i, n
      <4> QED
        BY <2>1, <3>1, <3>2, TimesFacts
    <3>4. chain[k].target = TransitionTarget(old, time)
      BY <2>2, <2>5 DEF Followed
    <3> HIDE DEF old, time
    <3>5. /\ ScaledTarget(TransitionTarget(old, time)) <= Changed(old, time)
          /\ Changed(old, time) < ScaledTarget(TransitionTarget(old, time))
                                   + Span(SizeOf(TransitionTarget(old, time)))
      BY <2>2, <2>3, <3>3, TransitionDue
    <3> QED
      BY <2>2, <2>5, <3>4, <3>5 DEF old, time
  <2> QED
    BY <2>4, <2>5
<1> QED
  BY <1>1, <1>2, <1>3, PTL DEF Spec
=============================================================================
