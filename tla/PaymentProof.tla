---------------------------- MODULE PaymentProof ----------------------------
(***************************************************************************)
(* The payment messages: a peer's message is read as it was written, what  *)
(* is passed on is what was received, and what is hashed is what was       *)
(* signed.                                                                 *)
(***************************************************************************)
EXTENDS PaymentProtocol, BytesProof, FiniteSetTheorems

-----------------------------------------------------------------------------
(* Integers of a variable number of bytes.                                 *)
LEMMA MoreFacts ==
  /\ VARINT_MORE \in Nat /\ VARINT_MORE >= 2 /\ BYTE = 2 * VARINT_MORE
  /\ VARINT_MORE = Power(BITS - 1)
<1>1. BITS - 1 \in Nat /\ BITS - 1 >= 1 /\ (BITS - 1) + 1 = BITS
  BY BitsFacts
<1> DEFINE m == Power(BITS - 1)
<1>2. m \in Nat /\ BYTE = 2 * m
  <2>1. Power((BITS - 1) + 1) = 2 * m /\ m \in Nat
    BY <1>1, PowerStep
  <2> QED
    BY <1>1, <2>1, BitsFacts
<1>3. BYTE > 3
  BY BitsFacts
<1> HIDE DEF m
<1>4. BYTE \div 2 = m /\ m >= 2
  BY <1>2, <1>3
<1> QED
  BY <1>2, <1>4 DEF VARINT_MORE, m

LEMMA VarSpanStep ==
  /\ VarSpan(0) = 1
  /\ \A n \in Nat : /\ VarSpan(n) \in Nat /\ VarSpan(n) > n
                    /\ VarSpan(n + 1) = VARINT_MORE * VarSpan(n)
<1> DEFINE c == BITS - 1
<1>1. c \in Nat /\ c >= 1
  BY BitsFacts
<1>2. \A n \in Nat : VarSpan(n) = Power(c * n)
  BY DEF VarSpan, Power
<1> HIDE DEF c
<1>3. VarSpan(0) = 1
  <2>1. c * 0 = 0
    BY <1>1
  <2> QED
    BY <1>2, <2>1, PowerStep
<1>4. ASSUME NEW n \in Nat
      PROVE  /\ VarSpan(n) \in Nat /\ VarSpan(n) > n
             /\ VarSpan(n + 1) = VARINT_MORE * VarSpan(n)
  <2>1. c * n \in Nat /\ c * n >= n /\ c * (n + 1) = c + c * n
    <3>1. PICK b \in Nat : c = b + 1
      BY <1>1
    <3>2. b * n \in Nat
      OBVIOUS
    <3>3. (b + 1) * n = b * n + n /\ (b + 1) * (n + 1) = (b + 1) + (b + 1) * n
      OBVIOUS
    <3> QED
      BY <3>1, <3>2, <3>3
  <2>2. VarSpan(n) \in Nat /\ VarSpan(n) > c * n
    BY <1>2, <2>1, PowerLarge
  <2>3. VarSpan(n + 1) = Power(c) * VarSpan(n)
    <3>1. Power(c + c * n) = Power(c) * Power(c * n)
      BY <1>1, <2>1, PowerAdd
    <3>2. n + 1 \in Nat
      OBVIOUS
    <3> QED
      BY <1>2, <2>1, <3>1, <3>2
  <2> QED
    BY <2>1, <2>2, <2>3, MoreFacts DEF c
<1> QED
  BY <1>3, <1>4

LEMMA VarIntLenFacts ==
  ASSUME NEW u \in Nat
  PROVE  /\ VarIntLen(u) \in Nat /\ VarIntLen(u) > 0
         /\ u < VarSpan(VarIntLen(u))
<1> DEFINE Enough == {n \in 1..(u + 1) : u < VarSpan(n)}
<1>1. u + 1 \in Enough
  <2>1. u + 1 \in Nat /\ u + 1 \in 1..(u + 1)
    OBVIOUS
  <2>2. VarSpan(u + 1) \in Nat /\ VarSpan(u + 1) > u + 1
    BY <2>1, VarSpanStep
  <2> QED
    BY <2>1, <2>2
<1>2. PICK n \in Enough : \A m \in Enough : n <= m
  <2>1. Enough \in SUBSET Nat /\ Enough # {}
    BY <1>1
  <2> HIDE DEF Enough
  <2> QED
    BY <2>1, Least
<1>3. n = 1 \/ u >= VarSpan(n - 1)
  <2> SUFFICES ASSUME n # 1  PROVE u >= VarSpan(n - 1)
    OBVIOUS
  <2>1. n - 1 \in 1..(u + 1) /\ n - 1 \in Nat
    BY <1>2
  <2>2. VarSpan(n - 1) \in Nat
    BY <2>1, VarSpanStep
  <2>3. n - 1 \notin Enough
    BY <1>2
  <2> QED
    BY <2>1, <2>2, <2>3
<1>4. n \in 1..(u + 1) /\ u < VarSpan(n)
  BY <1>2
<1> HIDE DEF Enough
<1>5. VarIntLen(u) \in 1..(u + 1) /\ u < VarSpan(VarIntLen(u))
  BY <1>3, <1>4 DEF VarIntLen
<1> QED
  BY <1>5

LEMMA VarDigits ==
  ASSUME NEW u \in Nat
  PROVE  /\ ProtoBufSetVarInt(u) \in Seq(Byte)
         /\ Len(ProtoBufSetVarInt(u)) = VarIntLen(u)
         /\ \A k \in 1..VarIntLen(u) :
              /\ (u \div VarSpan(k - 1)) % VARINT_MORE \in 0..(VARINT_MORE - 1)
              /\ ProtoBufSetVarInt(u)[k] % VARINT_MORE = (u \div VarSpan(k - 1)) % VARINT_MORE
              /\ ProtoBufSetVarInt(u)[k] < VARINT_MORE <=> k = VarIntLen(u)
<1> DEFINE n == VarIntLen(u)
           m == VARINT_MORE
           d(k) == (u \div VarSpan(k - 1)) % m
           s == ProtoBufSetVarInt(u)
<1>1. n \in Nat /\ n > 0
  BY VarIntLenFacts
<1>2. m \in Nat /\ m >= 2 /\ BYTE = 2 * m
  BY MoreFacts
<1>3. s = [k \in 1..n |-> d(k) + (IF k < n THEN m ELSE 0)]
  BY DEF ProtoBufSetVarInt
<1>4. ASSUME NEW k \in 1..n  PROVE d(k) \in 0..(m - 1)
  <2>1. VarSpan(k - 1) \in Nat /\ VarSpan(k - 1) > 0
    <3>1. k - 1 \in Nat
      BY <1>1
    <3> QED
      BY <3>1, VarSpanStep
  <2> DEFINE q == u \div VarSpan(k - 1)
  <2>2. q \in Nat
    BY <2>1, ModFacts
  <2> HIDE DEF q
  <2>3. q % m \in 0..(m - 1)
    BY <1>2, <2>2, ModFacts
  <2> QED
    BY <2>3 DEF q
<1> HIDE DEF d, n, m, s
<1>5. \A k \in 1..n : s[k] = d(k) + (IF k < n THEN m ELSE 0)
  BY <1>3
<1>6. ASSUME NEW k \in 1..n
      PROVE  s[k] \in Byte /\ s[k] % m = d(k) /\ (s[k] < m <=> k = n)
  <2>1. s[k] = d(k) + (IF k < n THEN m ELSE 0) /\ d(k) \in 0..(m - 1)
    BY <1>4, <1>5
  <2>2. s[k] \in 0..(2 * m - 1) /\ (s[k] < m <=> k = n)
    BY <1>1, <1>2, <2>1
  <2>3. s[k] % m = d(k)
    <3>1. PICK q \in {0, 1} : s[k] = m * q + d(k)
      BY <1>2, <2>1
    <3>2. s[k] \in Nat /\ m > 0
      BY <1>2, <2>2
    <3>3. s[k] % m \in 0..(m - 1) /\ s[k] \div m \in Nat /\ s[k] = m * (s[k] \div m) + (s[k] % m)
      BY <1>2, <3>2, ModFacts
    <3> DEFINE a == s[k] \div m
               r == s[k] % m
               e == d(k)
    <3> HIDE DEF a, r, e
    <3>4. a \in Int /\ r \in 0..(m - 1) /\ q \in Int /\ e \in 0..(m - 1)
          /\ m * a + r = m * q + e
      BY <2>1, <3>1, <3>3 DEF a, r, e
    <3>5. m \in Nat /\ m > 0
      BY <1>2
    <3>6. r = e
      BY <3>4, <3>5, DivUnique
    <3> QED
      BY <3>6 DEF r, e
  <2> QED
    BY <1>2, <2>2, <2>3 DEF Byte
<1>7. s \in Seq(Byte) /\ Len(s) = n
  <2>1. s \in [1..n -> Byte]
    BY <1>3, <1>6
  <2> QED
    BY <1>1, <2>1
<1> QED
  BY <1>4, <1>6, <1>7 DEF n, m, d, s

(* The digits of a number sum up to it.                                    *)
LEMMA VarDigitsSum ==
  ASSUME NEW u \in Nat, NEW n \in Nat, u < VarSpan(n)
  PROVE  Total([k \in 1..n |-> ((u \div VarSpan(k - 1)) % VARINT_MORE) * VarSpan(k - 1)]) = u
<1> DEFINE m == VARINT_MORE
           t == [k \in 1..n |-> ((u \div VarSpan(k - 1)) % m) * VarSpan(k - 1)]
           f == PartialSums(t)
           S == {i \in 0..n : f[i] = u % VarSpan(i)}
<1>1. m \in Nat /\ m > 0
  BY MoreFacts
<1>2. ASSUME NEW i \in Nat
      PROVE  /\ VarSpan(i) \in Nat /\ VarSpan(i) > 0 /\ VarSpan(i + 1) = VarSpan(i) * m
             /\ u \div VarSpan(i) \in Nat /\ (u \div VarSpan(i)) % m \in Nat
             /\ ((u \div VarSpan(i)) % m) * VarSpan(i) \in Nat
  <2>1. VarSpan(i) \in Nat /\ VarSpan(i) > 0 /\ VarSpan(i + 1) = m * VarSpan(i)
    BY VarSpanStep
  <2>2. m * VarSpan(i) = VarSpan(i) * m
    BY <1>1, <2>1
  <2>3. u \div VarSpan(i) \in Nat
    BY <2>1, ModFacts
  <2> DEFINE q == u \div VarSpan(i)
  <2> HIDE DEF q
  <2>4. q % m \in Nat
    <3>1. q \in Nat
      BY <2>3 DEF q
    <3>2. q % m \in 0..(m - 1)
      BY <1>1, <3>1, ModFacts
    <3> QED
      BY <1>1, <3>2
  <2>5. (q % m) * VarSpan(i) \in Nat
    BY <2>1, <2>4
  <2> QED
    BY <2>1, <2>2, <2>3, <2>4, <2>5 DEF q
<1>3. t \in Seq(Int) /\ Len(t) = n
  <2>1. ASSUME NEW k \in 1..n  PROVE t[k] \in Int
    <3>1. k - 1 \in Nat
      OBVIOUS
    <3> HIDE DEF m
    <3> QED
      BY <1>2, <3>1
  <2>2. t \in [1..n -> Int]
    BY <2>1
  <2> HIDE DEF t
  <2> QED
    BY <2>2
<1>4. f[0] = 0 /\ \A i \in 1..n : f[i] = f[i - 1] + t[i]
  BY <1>3, PartialSumsDef
<1> HIDE DEF f
<1>5. 0 \in S
  <2>1. VarSpan(0) = 1 /\ u % 1 = 0
    BY VarSpanStep
  <2> QED
    BY <1>4, <2>1
<1>6. ASSUME NEW i \in 1..n, i - 1 \in S  PROVE i \in S
  <2> DEFINE v == VarSpan(i - 1)
             q == u \div v
  <2>1. i - 1 \in Nat /\ (i - 1) + 1 = i
    OBVIOUS
  <2>2. v \in Nat /\ v > 0 /\ VarSpan(i) = v * m /\ (q % m) \in Nat
    BY <1>2, <2>1
  <2>3. u % (v * m) = (u % v) + v * (q % m)
    <3> HIDE DEF v
    <3> QED
      BY <1>1, <2>2, DivDiv
  <2>4. t[i] = (q % m) * v
    OBVIOUS
  <2>5. f[i] = f[i - 1] + t[i] /\ f[i - 1] = u % v
    BY <1>4, <1>6
  <2>6. (q % m) * v = v * (q % m)
    <3> DEFINE a == q % m
    <3> HIDE DEF a, v
    <3> QED
      BY <2>2 DEF a
  <2> HIDE DEF v, q, t
  <2>7. f[i] = u % VarSpan(i)
    BY <2>2, <2>3, <2>4, <2>5, <2>6
  <2> QED
    BY <2>7
<1>7. \A i \in 0..n : i \in S
  <2> HIDE DEF S
  <2> QED
    BY <1>5, <1>6, AllUpTo
<1>8. f[n] = u % VarSpan(n)
  BY <1>7
<1>9. u % VarSpan(n) = u
  <2>1. VarSpan(n) \in Nat
    BY VarSpanStep
  <2> QED
    BY <2>1, SmallMod
<1>10. Total(t) = f[n]
  BY <1>3 DEF Total, f
<1> QED
  BY <1>8, <1>9, <1>10

(* What is written is read back.                                           *)
LEMMA StandsVar ==
  ASSUME NEW b \in Seq(Byte), NEW off \in Nat, NEW u \in Nat,
         Stands(b, off, ProtoBufSetVarInt(u))
  PROVE  /\ ProtoBufVarInt(b, off) = [value |-> u, off |-> off + VarIntLen(u)]
         /\ off + VarIntLen(u) <= Len(b)
<1> DEFINE n == VarIntLen(u)
           s == ProtoBufSetVarInt(u)
           ends == {k \in (off + 1)..Len(b) : b[k] < VARINT_MORE}
           last == CHOOSE k \in ends : \A j \in ends : k <= j
           w(k) == (u \div VarSpan(k - 1)) % VARINT_MORE
<1>1. n \in Nat /\ n > 0 /\ u < VarSpan(n) /\ Len(s) = n
  BY VarIntLenFacts, VarDigits
<1>2. off + n <= Len(b) /\ Len(b) \in Nat /\ \A k \in 1..n : b[off + k] = s[k]
  BY <1>1 DEF Stands
<1>3. \A k \in 1..n : b[off + k] % VARINT_MORE = w(k) /\ (b[off + k] < VARINT_MORE <=> k = n)
  BY <1>2, VarDigits
<1> HIDE DEF n, s, w
<1>4. off + n \in ends /\ \A j \in ends : off + n <= j
  <2>1. off + n \in (off + 1)..Len(b) /\ n \in 1..n
    BY <1>1, <1>2
  <2>2. b[off + n] < VARINT_MORE
    BY <1>3, <2>1
  <2>3. ASSUME NEW j \in ends, j < off + n  PROVE FALSE
    <3>1. j - off \in 1..n /\ off + (j - off) = j /\ j - off # n
      BY <1>1, <2>3
    <3> QED
      BY <1>3, <2>3, <3>1
  <2> QED
    BY <1>1, <2>1, <2>2, <2>3
<1>5. last = off + n
  <2>1. ends \in SUBSET Int
    BY <1>2
  <2> HIDE DEF ends
  <2>2. \E k \in ends : \A j \in ends : k <= j
    BY <1>4
  <2>3. last \in ends /\ \A j \in ends : last <= j
    BY <2>2
  <2> HIDE DEF last
  <2>4. last <= off + n /\ off + n <= last /\ last \in Int /\ off + n \in Int
    BY <1>4, <2>1, <2>3
  <2> QED
    BY <2>4
<1>6. ends # {}
  BY <1>4
<1> HIDE DEF ends, last
<1>7. (off + n) - off = n
  BY <1>1
<1>8. [k \in 1..n |-> (b[off + k] % VARINT_MORE) * VarSpan(k - 1)] = [k \in 1..n |-> w(k) * VarSpan(k - 1)]
  BY <1>3
<1>9. Total([k \in 1..n |-> w(k) * VarSpan(k - 1)]) = u
  BY <1>1, VarDigitsSum DEF w
<1>10. ProtoBufVarInt(b, off) =
         [value |-> Total([k \in 1..(last - off) |-> (b[off + k] % VARINT_MORE) * VarSpan(k - 1)]),
          off |-> last]
  BY <1>6 DEF ProtoBufVarInt, ends, last
<1>11. ProtoBufVarInt(b, off) = [value |-> u, off |-> off + n]
  BY <1>5, <1>7, <1>8, <1>9, <1>10
<1> QED
  BY <1>2, <1>11 DEF n

(* Whatever is read is a number, and reading goes on.                      *)
LEMMA VarIntRead ==
  ASSUME NEW b \in Seq(Byte), NEW off \in Nat
  PROVE  /\ ProtoBufVarInt(b, off).value \in Nat
         /\ ProtoBufVarInt(b, off).off \in Nat
         /\ ProtoBufVarInt(b, off).off >= off
         /\ off < Len(b) => ProtoBufVarInt(b, off).off > off
<1> DEFINE ends == {k \in (off + 1)..Len(b) : b[k] < VARINT_MORE}
           last == CHOOSE k \in ends : \A j \in ends : k <= j
           t == [k \in 1..(last - off) |-> (b[off + k] % VARINT_MORE) * VarSpan(k - 1)]
           r == ProtoBufVarInt(b, off)
<1>1. Len(b) \in Nat
  OBVIOUS
<1>2. CASE ends = {}
  <2>1. r = [value |-> 0, off |-> IF off < Len(b) THEN Len(b) ELSE off]
    BY <1>2 DEF ProtoBufVarInt
  <2> HIDE DEF r
  <2> QED
    BY <1>1, <2>1 DEF r
<1>3. CASE ends # {}
  <2>1. last \in (off + 1)..Len(b)
    <3>1. ends \in SUBSET Nat
      BY <1>1
    <3>2. PICK k \in ends : \A j \in ends : k <= j
      <4> HIDE DEF ends
      <4> QED
        BY <1>3, <3>1, Least
    <3>3. last \in ends
      <4> HIDE DEF ends
      <4> QED
        BY <3>2
    <3> QED
      BY <3>3
  <2>2. r = [value |-> Total(t), off |-> last]
    BY <1>3 DEF ProtoBufVarInt
  <2> HIDE DEF last, r
  <2>3. ASSUME NEW k \in 1..(last - off)  PROVE t[k] \in Nat
    <3>1. off + k \in 1..Len(b) /\ k - 1 \in Nat
      BY <2>1
    <3>2. b[off + k] \in Nat /\ VarSpan(k - 1) \in Nat
      <4>1. b[off + k] \in Byte
        BY <3>1
      <4>2. \A x \in Byte : x \in Nat
        BY BitsFacts DEF Byte
      <4>3. VarSpan(k - 1) \in Nat
        BY <3>1, VarSpanStep
      <4> QED
        BY <4>1, <4>2, <4>3
    <3>3. b[off + k] % VARINT_MORE \in 0..(VARINT_MORE - 1)
      BY <3>2, MoreFacts, ModFacts
    <3> DEFINE x == b[off + k] % VARINT_MORE
    <3>4. x \in Nat
      BY <3>3, MoreFacts
    <3> HIDE DEF x
    <3>5. x * VarSpan(k - 1) \in Nat
      BY <3>2, <3>4
    <3> QED
      BY <3>5 DEF x
  <2>4. t \in Seq(Nat) /\ t \in Seq(Int)
    <3>1. last - off \in Nat
      BY <2>1
    <3>2. t \in [1..(last - off) -> Nat]
      BY <2>3
    <3> HIDE DEF t
    <3> QED
      BY <3>1, <3>2
  <2>5. Total(t) \in Nat
    <3> HIDE DEF t
    <3> QED
      BY <2>4, TotalType
  <2> HIDE DEF t
  <2> QED
    BY <1>1, <2>1, <2>2, <2>5 DEF r
<1> QED
  BY <1>2, <1>3

-----------------------------------------------------------------------------
(* Fields.                                                                 *)
LEMMA VarBytes ==
  ASSUME NEW u \in Nat
  PROVE  /\ ProtoBufSetVarInt(u) \in Seq(Byte)
         /\ Len(ProtoBufSetVarInt(u)) = VarIntLen(u)
         /\ VarIntLen(u) \in Nat /\ VarIntLen(u) > 0
BY VarDigits, VarIntLenFacts

LEMMA OnlyOne ==
  ASSUME NEW S, NEW s \in Seq(S), Len(s) = 1
  PROVE  s # <<>> /\ s[1] \in S /\ s = <<s[1]>>
<1>1. s # <<>> /\ s[1] \in S
  OBVIOUS
<1>2. s = [k \in 1..1 |-> s[k]]
  OBVIOUS
<1>3. [k \in 1..1 |-> s[k]] = <<s[1]>>
  OBVIOUS
<1> QED
  BY <1>1, <1>2, <1>3

(* What is behind the key of a field.                                      *)
Rest(f) ==
  CASE f.key % 8 = PROTOBUF_VARINT -> ProtoBufSetVarInt(f.int)
    [] f.key % 8 = PROTOBUF_64BIT -> ProtoBufSetFixed(f.int, W64)
    [] f.key % 8 = PROTOBUF_LENDELIM /\ f.data # <<>> -> ProtoBufSetLenDelim(f.data[1])
    [] f.key % 8 = PROTOBUF_32BIT -> ProtoBufSetFixed(f.int, W32)
    [] OTHER -> <<>>

LEMMA FieldFacts ==
  ASSUME NEW f, WellFormed(f)
  PROVE  /\ f \in Field /\ f.key \in Nat /\ f.int \in Nat /\ f.data \in Seq(Seq(Byte))
         /\ f = AField(f.key, f.int, f.data)
         /\ f.key % 8 \in 0..7
<1>1. f \in Field
  BY DEF WellFormed
<1>2. f.key \in Nat /\ f.int \in Nat /\ f.data \in Seq(Seq(Byte)) /\ f = AField(f.key, f.int, f.data)
  BY <1>1 DEF Field, AField
<1>3. f.key % 8 \in 0..7
  <2> DEFINE a == f.key
  <2>1. a \in Nat
    BY <1>2
  <2> HIDE DEF a
  <2>2. a % 8 \in 0..7
    BY <2>1
  <2> QED
    BY <2>2 DEF a
<1> QED
  BY <1>1, <1>2, <1>3

LEMMA RestType ==
  ASSUME NEW f, WellFormed(f)
  PROVE  Rest(f) \in Seq(Byte)
<1>1. f.key % 8 \in 0..7 /\ f.int \in Nat /\ f.data \in Seq(Seq(Byte))
  BY FieldFacts
<1>2. \A w \in Nat : LE(f.int, w) \in Seq(Byte)
  BY <1>1, LEDigits
<1>3. W32 \in Nat /\ W64 \in Nat
  BY WidthAssumption
<1>4. ASSUME f.key % 8 = PROTOBUF_LENDELIM
      PROVE  f.data # <<>> /\ ProtoBufSetLenDelim(f.data[1]) \in Seq(Byte)
  <2>1. Len(f.data) = 1
    BY <1>4 DEF WellFormed
  <2>2. f.data # <<>> /\ f.data[1] \in Seq(Byte)
    BY <1>1, <2>1, OnlyOne
  <2>3. ProtoBufSetVarInt(Len(f.data[1])) \in Seq(Byte)
    BY <2>2, VarBytes
  <2> QED
    BY <2>2, <2>3, ConcatType DEF ProtoBufSetLenDelim
<1>5. <<>> \in Seq(Byte)
  OBVIOUS
<1> QED
  BY <1>1, <1>2, <1>3, <1>4, <1>5, VarBytes
     DEF Rest, ProtoBufSetFixed, PROTOBUF_VARINT, PROTOBUF_64BIT, PROTOBUF_LENDELIM, PROTOBUF_32BIT

LEMMA FieldBytesIs ==
  ASSUME NEW f, WellFormed(f)
  PROVE  /\ FieldBytes(f) = ProtoBufSetVarInt(f.key) \o Rest(f)
         /\ FieldBytes(f) \in Seq(Byte) /\ Len(FieldBytes(f)) > 0
         /\ Len(FieldBytes(f)) = VarIntLen(f.key) + Len(Rest(f))
<1>1. FieldBytes(f) = ProtoBufSetVarInt(f.key) \o Rest(f)
  BY DEF FieldBytes, Rest
<1>2. /\ ProtoBufSetVarInt(f.key) \in Seq(Byte) /\ VarIntLen(f.key) \in Nat
      /\ Len(ProtoBufSetVarInt(f.key)) = VarIntLen(f.key) /\ VarIntLen(f.key) > 0
  BY FieldFacts, VarBytes
<1> DEFINE x == ProtoBufSetVarInt(f.key)
           y == Rest(f)
<1>3. y \in Seq(Byte) /\ Len(y) \in Nat
  BY RestType
<1> HIDE DEF x, y
<1>4. x \o y \in Seq(Byte) /\ Len(x \o y) = Len(x) + Len(y)
  BY <1>2, <1>3 DEF x
<1> QED
  BY <1>1, <1>2, <1>3, <1>4 DEF x, y

(* A field that is written is read back.                                   *)
LEMMA FieldStands ==
  ASSUME NEW b \in Seq(Byte), NEW off \in Nat, NEW f, WellFormed(f), Stands(b, off, FieldBytes(f))
  PROVE  ProtoBufField(b, off) = [field |-> f, off |-> off + Len(FieldBytes(f))]
<1> DEFINE n == VarIntLen(f.key)
           m == Rest(f)
           at == off + n
           k == ProtoBufVarInt(b, off)
<1>1. /\ f.key \in Nat /\ f.int \in Nat /\ f.data \in Seq(Seq(Byte))
      /\ f = AField(f.key, f.int, f.data) /\ f.key % 8 \in 0..7
  BY FieldFacts
<1>2. n \in Nat /\ n > 0 /\ m \in Seq(Byte) /\ Len(FieldBytes(f)) = n + Len(m)
      /\ ProtoBufSetVarInt(f.key) \in Seq(Byte) /\ Len(ProtoBufSetVarInt(f.key)) = n
  BY <1>1, VarBytes, RestType, FieldBytesIs
<1>3. Stands(b, off, ProtoBufSetVarInt(f.key)) /\ Stands(b, at, m)
  <2>1. Stands(b, off, ProtoBufSetVarInt(f.key) \o m)
    BY FieldBytesIs
  <2> DEFINE x == ProtoBufSetVarInt(f.key)
  <2> HIDE DEF x, m, n
  <2> QED
    BY <1>2, <2>1, StandsConcat DEF x
<1>4. k.value = f.key /\ k.off = at
  <2>1. k = [value |-> f.key, off |-> at]
    BY <1>1, <1>3, StandsVar
  <2> HIDE DEF k
  <2> QED
    BY <2>1
<1>5. ProtoBufField(b, off) = FieldBehind(b, k)
  BY DEF ProtoBufField
<1>6. at \in Nat /\ Len(b) \in Nat /\ Len(m) \in Nat /\ off + (n + Len(m)) = at + Len(m)
  BY <1>2
<1> HIDE DEF k, n, at, m
<1> USE DEF PROTOBUF_VARINT, PROTOBUF_64BIT, PROTOBUF_LENDELIM, PROTOBUF_32BIT
<1>7. CASE f.key % 8 = PROTOBUF_VARINT
  <2>1. m = ProtoBufSetVarInt(f.int) /\ f.data = <<>>
    BY <1>7 DEF m, Rest, WellFormed
  <2>2. ProtoBufVarInt(b, at) = [value |-> f.int, off |-> at + VarIntLen(f.int)]
    BY <1>1, <1>3, <1>6, <2>1, StandsVar
  <2>3. Len(m) = VarIntLen(f.int)
    BY <1>1, <2>1, VarBytes
  <2>4. FieldBehind(b, k) = IntRead(k, ProtoBufVarInt(b, at))
    BY <1>4, <1>7 DEF FieldBehind
  <2>5. IntRead(k, ProtoBufVarInt(b, at)) = [field |-> AField(f.key, f.int, <<>>), off |-> at + Len(m)]
    BY <1>4, <2>2, <2>3 DEF IntRead
  <2> QED
    BY <1>1, <1>2, <1>5, <1>6, <2>1, <2>4, <2>5
<1>8. ASSUME NEW w \in {W32, W64}, m = ProtoBufSetFixed(f.int, w), f.int < Span(w), f.data = <<>>,
             FieldBehind(b, k) = IntRead(k, ProtoBufFixed(b, k.off, w))
      PROVE  ProtoBufField(b, off) = [field |-> f, off |-> off + Len(FieldBytes(f))]
  <2>1. w \in Nat
    BY <1>8, WidthAssumption
  <2>2. Span(w) \in Nat
    BY <2>1, SpanStep
  <2>3. f.int \in 0..(Span(w) - 1)
    BY <1>1, <1>8, <2>2
  <2>4. GetLE(b, at, w) = f.int
    BY <1>3, <1>6, <1>8, <2>1, <2>3, StandsLE DEF ProtoBufSetFixed
  <2>5. Len(m) = w
    BY <1>1, <1>8, <2>1, LEDigits DEF ProtoBufSetFixed
  <2>6. IntRead(k, ProtoBufFixed(b, k.off, w)) = [field |-> AField(f.key, f.int, <<>>), off |-> at + w]
    BY <1>4, <2>4 DEF IntRead, ProtoBufFixed
  <2> QED
    BY <1>1, <1>2, <1>5, <1>6, <1>8, <2>5, <2>6
<1>9. CASE f.key % 8 = PROTOBUF_64BIT
  <2>1. m = ProtoBufSetFixed(f.int, W64) /\ f.int < Span(W64) /\ f.data = <<>>
    BY <1>9 DEF m, Rest, WellFormed
  <2>2. FieldBehind(b, k) = IntRead(k, ProtoBufFixed(b, k.off, W64))
    BY <1>4, <1>9 DEF FieldBehind
  <2> QED
    BY <1>8, <2>1, <2>2
<1>10. CASE f.key % 8 = PROTOBUF_32BIT
  <2>1. m = ProtoBufSetFixed(f.int, W32) /\ f.int < Span(W32) /\ f.data = <<>>
    BY <1>10 DEF m, Rest, WellFormed
  <2>2. FieldBehind(b, k) = IntRead(k, ProtoBufFixed(b, k.off, W32))
    BY <1>4, <1>10 DEF FieldBehind
  <2> QED
    BY <1>8, <2>1, <2>2
<1>11. CASE f.key % 8 = PROTOBUF_LENDELIM
  <2> DEFINE d == f.data[1]
             v == ProtoBufVarInt(b, at)
             l == VarIntLen(Len(d))
  <2>1. Len(f.data) = 1 /\ f.int = 0
    BY <1>11 DEF WellFormed
  <2>2. d \in Seq(Byte) /\ Len(d) \in Nat /\ f.data = <<d>> /\ f.data # <<>>
    BY <1>1, <2>1, OnlyOne
  <2>3. m = ProtoBufSetVarInt(Len(d)) \o d
    <3>1. Rest(f) = ProtoBufSetLenDelim(f.data[1])
      BY <1>11, <2>2 DEF Rest
    <3>2. ProtoBufSetLenDelim(d) = ProtoBufSetVarInt(Len(d)) \o d
      BY DEF ProtoBufSetLenDelim
    <3> HIDE DEF d
    <3> QED
      BY <3>1, <3>2 DEF m, d
  <2>4. ProtoBufSetVarInt(Len(d)) \in Seq(Byte) /\ Len(ProtoBufSetVarInt(Len(d))) = l /\ l \in Nat
    BY <2>2, VarBytes
  <2>5. Len(m) = l + Len(d)
    <3> DEFINE x == ProtoBufSetVarInt(Len(d))
    <3>1. x \in Seq(Byte) /\ d \in Seq(Byte) /\ Len(x) = l /\ m = x \o d
      BY <2>2, <2>3, <2>4
    <3> HIDE DEF x, d, l
    <3>2. Len(x \o d) = Len(x) + Len(d)
      BY <3>1, ConcatType
    <3> QED
      BY <3>1, <3>2
  <2>6. Stands(b, at, ProtoBufSetVarInt(Len(d))) /\ Stands(b, at + l, d)
    <3>1. Stands(b, at, ProtoBufSetVarInt(Len(d)) \o d)
      BY <1>3, <2>3
    <3> QED
      BY <1>6, <2>2, <2>4, <3>1, StandsConcat
  <2>7. v.value = Len(d) /\ v.off = at + l
    <3>1. v = [value |-> Len(d), off |-> at + l]
      BY <1>6, <2>2, <2>6, StandsVar
    <3> HIDE DEF v, d, l
    <3> QED
      BY <3>1
  <2>8. at + l \in Nat /\ at + l + Len(d) <= Len(b)
    BY <1>6, <2>4, <2>6 DEF Stands
  <2>9. SubSeq(b, (at + l) + 1, (at + l) + Len(d)) = d
    <3>1. At(b, at + l, Len(d)) = d
      BY <2>2, <2>6, <2>8, StandsAt
    <3> QED
      BY <2>8, <3>1 DEF At
  <2>10. ProtoBufLenDelim(b, k.off) = [data |-> <<d>>, off |-> at + l + Len(d)]
    BY <1>4, <2>7, <2>8, <2>9 DEF ProtoBufLenDelim, BytesBehind
  <2>11. FieldBehind(b, k) = BytesRead(k, ProtoBufLenDelim(b, k.off))
    BY <1>4, <1>11 DEF FieldBehind
  <2>12. BytesRead(k, ProtoBufLenDelim(b, k.off))
           = [field |-> AField(f.key, 0, <<d>>), off |-> at + l + Len(d)]
    BY <1>4, <2>10 DEF BytesRead
  <2>13. off + Len(FieldBytes(f)) = at + l + Len(d)
    BY <1>2, <1>6, <2>2, <2>4, <2>5
  <2> QED
    BY <1>1, <1>5, <2>1, <2>2, <2>11, <2>12, <2>13
<1>12. CASE f.key % 8 \notin {PROTOBUF_VARINT, PROTOBUF_64BIT, PROTOBUF_LENDELIM, PROTOBUF_32BIT}
  <2>1. m = <<>> /\ f.int = 0 /\ f.data = <<>> /\ Len(m) = 0
    BY <1>12 DEF m, Rest, WellFormed
  <2>2. FieldBehind(b, k) = IntRead(k, [value |-> 0, off |-> k.off])
    BY <1>4, <1>12 DEF FieldBehind
  <2>3. IntRead(k, [value |-> 0, off |-> k.off]) = [field |-> AField(f.key, 0, <<>>), off |-> at]
    BY <1>4 DEF IntRead
  <2>4. off + Len(FieldBytes(f)) = at
    BY <1>2, <1>6, <2>1
  <2> QED
    BY <1>1, <1>5, <2>1, <2>2, <2>3, <2>4
<1> QED
  BY <1>7, <1>9, <1>10, <1>11, <1>12

(* Whatever is read is a field.                                            *)
LEMMA FieldType ==
  ASSUME NEW b \in Seq(Byte), NEW off \in Nat
  PROVE  /\ ProtoBufField(b, off).field \in Field
         /\ ProtoBufField(b, off).off \in Nat
<1> DEFINE k == ProtoBufVarInt(b, off)
           r == FieldBehind(b, k)
           Good(x) == x.field \in Field /\ x.off \in Nat
<1>1. k.value \in Nat /\ k.off \in Nat
  BY VarIntRead
<1>2. ProtoBufField(b, off) = r
  BY DEF ProtoBufField
<1> HIDE DEF k
<1>3. ASSUME NEW n, n.value \in Nat, n.off \in Nat  PROVE Good(IntRead(k, n))
  <2>1. <<>> \in Seq(Seq(Byte))
    OBVIOUS
  <2> QED
    BY <1>1, <1>3, <2>1 DEF IntRead, AField, Field
<1>4. ASSUME NEW w \in Nat
      PROVE  ProtoBufFixed(b, k.off, w).value \in Nat /\ ProtoBufFixed(b, k.off, w).off \in Nat
  <2>1. GetLE(b, k.off, w) \in Nat
    BY <1>1, AtType
  <2> QED
    BY <1>1, <2>1 DEF ProtoBufFixed
<1>5. Good(BytesRead(k, ProtoBufLenDelim(b, k.off)))
  <2> DEFINE n == ProtoBufVarInt(b, k.off)
             end == n.off + n.value
             d == SubSeq(b, n.off + 1, end)
  <2>1. n.value \in Nat /\ n.off \in Nat
    BY <1>1, VarIntRead
  <2>2. end <= Len(b) => d \in Seq(Byte)
    <3>1. At(b, n.off, n.value) \in Seq(Byte)
      BY <2>1, AtType
    <3> HIDE DEF n
    <3> QED
      BY <3>1 DEF At
  <2>3. end \in Nat
    BY <2>1
  <2>4. ProtoBufLenDelim(b, k.off)
          = [data |-> IF end <= Len(b) THEN <<d>> ELSE <<>>, off |-> end]
    BY DEF ProtoBufLenDelim, BytesBehind
  <2> HIDE DEF d, end
  <2>5. (IF end <= Len(b) THEN <<d>> ELSE <<>>) \in Seq(Seq(Byte))
    BY <2>2
  <2> QED
    BY <1>1, <2>3, <2>4, <2>5 DEF BytesRead, AField, Field
<1>6. W32 \in Nat /\ W64 \in Nat
  BY WidthAssumption
<1>7. Good(IntRead(k, ProtoBufVarInt(b, k.off)))
  BY <1>1, <1>3, VarIntRead
<1>8. Good(IntRead(k, [value |-> 0, off |-> k.off]))
  BY <1>1, <1>3
<1>9. Good(IntRead(k, ProtoBufFixed(b, k.off, W64))) /\ Good(IntRead(k, ProtoBufFixed(b, k.off, W32)))
  BY <1>3, <1>4, <1>6
<1> HIDE DEF Good
<1>10. Good(r)
  BY <1>5, <1>7, <1>8, <1>9 DEF FieldBehind
<1> QED
  BY <1>2, <1>10 DEF Good

(* The fields of a buffer.                                                 *)
Reads(f, b) ==
  /\ f \in [0..Len(b) -> [off : Nat, fields : Seq(Field)]]
  /\ f[0] = [off |-> 0, fields |-> <<>>]
  /\ \A n \in 1..Len(b) : f[n] = Further(b, f[n - 1])

LEMMA FieldsRead ==
  ASSUME NEW b \in Seq(Byte)
  PROVE  \E f : Reads(f, b) /\ FieldsFrom(b) = f[Len(b)].fields
<1> DEFINE n == Len(b)
           T == [off : Nat, fields : Seq(Field)]
           base == [off |-> 0, fields |-> <<>>]
           F == [k \in 1..n |-> [r \in T |-> Further(b, r)]]
           P(f) == f = [k \in 0..n |-> IF k = 0 THEN base ELSE Further(b, f[k - 1])]
           read == CHOOSE f : P(f)
<1>1. n \in Nat /\ base \in T
  OBVIOUS
<1>2. ASSUME NEW r \in T  PROVE Further(b, r) \in T
  <2>1. r.off \in Nat /\ r.fields \in Seq(Field)
    OBVIOUS
  <2>2. ProtoBufField(b, r.off).field \in Field /\ ProtoBufField(b, r.off).off \in Nat
    BY <2>1, FieldType
  <2>3. Append(r.fields, ProtoBufField(b, r.off).field) \in Seq(Field)
    BY <2>1, <2>2
  <2> QED
    BY <2>1, <2>2, <2>3 DEF Further
<1> HIDE DEF n, T, base
<1>3. F \in [1..n -> [T -> T]]
  BY <1>2
<1>4. \A k \in 1..n : \A r \in T : F[k][r] = Further(b, r)
  OBVIOUS
<1> HIDE DEF F
<1>5. PICK h : Iterated(h, n, T, base, F)
  BY <1>1, <1>3, Iterates
<1>6. ASSUME NEW k \in 0..n  PROVE h[k] = IF k = 0 THEN base ELSE Further(b, h[k - 1])
  <2>1. CASE k = 0
    BY <1>5, <2>1 DEF Iterated
  <2>2. CASE k # 0
    <3>1. k \in 1..n /\ k - 1 \in 0..n
      BY <1>1, <2>2
    <3>2. h[k - 1] \in T /\ h[k] = F[k][h[k - 1]]
      BY <1>5, <3>1 DEF Iterated
    <3> QED
      BY <1>4, <2>2, <3>1, <3>2
  <2> QED
    BY <2>1, <2>2
<1>7. P(h)
  <2>1. h = [k \in 0..n |-> h[k]]
    BY <1>5 DEF Iterated
  <2> QED
    BY <1>6, <2>1, Zenon
<1>8. FieldsFrom(b) = read[n].fields
  BY DEF FieldsFrom, n, base
<1>9. P(read)
  <2> HIDE DEF P
  <2> QED
    BY <1>7
<1> HIDE DEF read
<1>10. \A k \in 0..n : read[k] = IF k = 0 THEN base ELSE Further(b, read[k - 1])
  BY <1>9, Zenon
<1>11. read[0] = base /\ \A k \in 1..n : read[k] = Further(b, read[k - 1])
  <2>1. 0 \in 0..n /\ \A k \in 1..n : k \in 0..n /\ k # 0
    BY <1>1
  <2> QED
    BY <1>10, <2>1, Zenon
<1> DEFINE S == {k \in 0..n : read[k] \in T}
<1>12. 0 \in S
  BY <1>1, <1>11
<1>13. ASSUME NEW k \in 1..n, k - 1 \in S  PROVE k \in S
  BY <1>2, <1>11, <1>13
<1>14. \A k \in 0..n : k \in S
  <2> HIDE DEF S
  <2> QED
    BY <1>1, <1>12, <1>13, AllUpTo
<1>15. read \in [0..n -> T]
  <2>1. read = [k \in 0..n |-> read[k]]
    BY <1>9
  <2> QED
    BY <1>14, <2>1
<1>16. Reads(read, b)
  BY <1>11, <1>15 DEF Reads, n, T, base
<1> QED
  BY <1>8, <1>16 DEF n

LEMMA FieldsType ==
  ASSUME NEW b \in Seq(Byte)
  PROVE  FieldsFrom(b) \in Seq(Field)
<1>1. PICK f : Reads(f, b) /\ FieldsFrom(b) = f[Len(b)].fields
  BY FieldsRead
<1>2. Len(b) \in 0..Len(b)
  OBVIOUS
<1>3. f[Len(b)] \in [off : Nat, fields : Seq(Field)]
  BY <1>1, <1>2 DEF Reads
<1> QED
  BY <1>1, <1>3

(* A list of fields is read back from what it is written as.               *)
Sound(fs) == fs \in Seq(Field) /\ \A k \in DOMAIN fs : WellFormed(fs[k])

LEMMA PrefixNext ==
  ASSUME NEW S, NEW s \in Seq(S), NEW k \in 1..Len(s)
  PROVE  Append(SubSeq(s, 1, k - 1), s[k]) = SubSeq(s, 1, k)
OBVIOUS

LEMMA ConcatOne ==
  ASSUME NEW S, NEW s \in Seq(S), NEW e \in S
  PROVE  s \o <<e>> = Append(s, e)
OBVIOUS

LEMMA WrittenSeqs ==
  ASSUME NEW fs, Sound(fs)
  PROVE  /\ [k \in DOMAIN fs |-> FieldBytes(fs[k])] \in Seq(Seq(Byte))
         /\ Len([k \in DOMAIN fs |-> FieldBytes(fs[k])]) = Len(fs)
         /\ Len(fs) \in Nat /\ DOMAIN fs = 1..Len(fs)
<1> DEFINE n == Len(fs)
           seqs == [k \in DOMAIN fs |-> FieldBytes(fs[k])]
<1>1. n \in Nat /\ DOMAIN fs = 1..n
  BY DEF Sound
<1>2. \A k \in DOMAIN fs : FieldBytes(fs[k]) \in Seq(Byte)
  BY FieldBytesIs DEF Sound
<1>3. seqs \in [1..n -> Seq(Byte)]
  BY <1>1, <1>2
<1> HIDE DEF seqs, n
<1>4. seqs \in Seq(Seq(Byte)) /\ Len(seqs) = n
  BY <1>1, <1>3
<1> QED
  BY <1>1, <1>4 DEF seqs, n

LEMMA WrittenType ==
  ASSUME NEW fs, Sound(fs)
  PROVE  Written(fs) \in Seq(Byte)
BY WrittenSeqs, FlattenType DEF Written

LEMMA WrittenBack ==
  ASSUME NEW fs, Sound(fs)
  PROVE  Written(fs) \in Seq(Byte) /\ FieldsFrom(Written(fs)) = fs
<1> DEFINE m == Len(fs)
           b == Written(fs)
           n == Len(b)
           seqs == [k \in DOMAIN fs |-> FieldBytes(fs[k])]
<1>1. m \in Nat /\ fs \in Seq(Field) /\ DOMAIN fs = 1..m /\ seqs \in Seq(Seq(Byte)) /\ Len(seqs) = m
  BY WrittenSeqs DEF Sound
<1>2. b \in Seq(Byte) /\ n \in Nat
  BY WrittenType
<1>3. PICK g : Accumulates(g, seqs, Byte) /\ b = g[m]
  <2>1. b = FlattenSeq(seqs)
    BY DEF Written
  <2> HIDE DEF seqs, b, m
  <2> QED
    BY <1>1, <2>1, FlattenPrefixes
<1>4. \A k \in 1..m : seqs[k] = FieldBytes(fs[k]) /\ WellFormed(fs[k]) /\ Len(seqs[k]) > 0 /\ seqs[k] \in Seq(Byte)
  BY <1>1, FieldBytesIs DEF Sound
<1> HIDE DEF seqs, b, m, n
<1>5. /\ g[0] = <<>> /\ \A k \in 0..m : g[k] \in Seq(Byte) /\ Len(g[k]) \in Nat
      /\ \A k \in 1..m : g[k] = g[k - 1] \o seqs[k]
  <2>1. g \in [0..m -> Seq(Byte)] /\ g[0] = <<>> /\ \A k \in 1..m : g[k] = g[k - 1] \o seqs[k]
    BY <1>1, <1>3 DEF Accumulates
  <2>2. \A s \in Seq(Byte) : Len(s) \in Nat
    OBVIOUS
  <2> QED
    BY <2>1, <2>2, Zenon
<1>6. \A k \in 1..m : Stands(b, Len(g[k - 1]), seqs[k])
  <2>1. Stands(b, 0, b)
    BY <1>2, StandsWhole
  <2>2. \A k \in 1..m : Stands(b, 0 + Len(g[k - 1]), seqs[k])
    BY <1>1, <1>2, <1>3, <2>1, StandsFlatten
  <2>3. \A k \in 1..m : 0 + Len(g[k - 1]) = Len(g[k - 1])
    BY <1>1, <1>5
  <2> QED
    BY <2>2, <2>3
<1> DEFINE L(k) == Len(g[k])
           w(k) == Len(seqs[k])
<1>7. ASSUME NEW k \in 1..m
      PROVE  /\ L(k) \in Nat /\ L(k - 1) \in Nat /\ w(k) \in Nat /\ w(k) > 0
             /\ L(k) = L(k - 1) + w(k) /\ L(k) <= n
  <2>1. k - 1 \in 0..m /\ k \in 0..m
    BY <1>1
  <2>2. g[k - 1] \in Seq(Byte) /\ seqs[k] \in Seq(Byte) /\ Len(seqs[k]) > 0 /\ g[k] = g[k - 1] \o seqs[k]
    BY <1>4, <1>5, <2>1
  <2>3. \A x, y \in Seq(Byte) : Len(x \o y) = Len(x) + Len(y) /\ Len(x) \in Nat
    BY ConcatType
  <2>4. Len(g[k - 1]) + Len(seqs[k]) <= n
    BY <1>6 DEF Stands, n
  <2>5. Len(g[k]) = Len(g[k - 1]) + Len(seqs[k])
    BY <2>2, <2>3, Zenon
  <2>6. Len(g[k - 1]) \in Nat /\ Len(seqs[k]) \in Nat /\ Len(g[k]) \in Nat
    BY <1>5, <2>1, <2>2, <2>3, Zenon
  <2>7. L(k) <= n
    BY <2>4, <2>5, Zenon
  <2> QED
    BY <2>2, <2>5, <2>6, <2>7, Zenon
<1>8. L(0) = 0 /\ n = L(m)
  BY <1>3, <1>5 DEF n
<1> HIDE DEF L
<1>9. m <= n
  <2> DEFINE S == {k \in 0..m : L(k) >= k}
  <2>1. 0 \in S
    BY <1>1, <1>8
  <2>2. ASSUME NEW k \in 1..m, k - 1 \in S  PROVE k \in S
    <3> HIDE DEF w
    <3> QED
      BY <1>1, <1>7, <2>2
  <2> HIDE DEF S
  <2>3. \A k \in 0..m : k \in S
    BY <1>1, <2>1, <2>2, AllUpTo
  <2>4. m \in 0..m
    BY <1>1
  <2> QED
    BY <1>8, <2>3, <2>4 DEF S
<1>10. PICK f : Reads(f, b) /\ FieldsFrom(b) = f[n].fields
  BY <1>2, FieldsRead DEF n
<1>11. f[0] = [off |-> 0, fields |-> <<>>] /\ \A k \in 1..n : f[k] = Further(b, f[k - 1])
  BY <1>10 DEF Reads, n
<1> DEFINE At0(k) == [off |-> L(k), fields |-> SubSeq(fs, 1, k)]
           S == {k \in 0..m : f[k] = At0(k)}
<1>12. 0 \in S
  <2>1. SubSeq(fs, 1, 0) = <<>>
    BY <1>1
  <2> QED
    BY <1>1, <1>8, <1>11, <2>1
<1>13. ASSUME NEW k \in 1..m, k - 1 \in S  PROVE k \in S
  <2> DEFINE r == f[k - 1]
             off == L(k - 1)
  <2>1. r.off = off /\ r.fields = SubSeq(fs, 1, k - 1)
    BY <1>13
  <2>2. off \in Nat /\ off < n /\ k \in 1..n /\ off + w(k) = L(k)
    <3> HIDE DEF w
    <3> QED
      BY <1>1, <1>2, <1>7, <1>9
  <2>3. ProtoBufField(b, off) = [field |-> fs[k], off |-> off + w(k)]
    <3>1. Stands(b, off, FieldBytes(fs[k]))
      BY <1>4, <1>6 DEF L
    <3> HIDE DEF off
    <3>2. ProtoBufField(b, off) = [field |-> fs[k], off |-> off + Len(FieldBytes(fs[k]))]
      BY <1>2, <1>4, <2>2, <3>1, FieldStands
    <3> QED
      BY <1>4, <3>2
  <2>4. f[k] = Further(b, r)
    BY <1>11, <2>2
  <2> HIDE DEF r, w
  <2>5. Further(b, r) = [off |-> off + w(k), fields |-> Append(SubSeq(fs, 1, k - 1), fs[k])]
    <3> HIDE DEF off
    <3> QED
      BY <2>1, <2>2, <2>3 DEF Further, n
  <2>6. Append(SubSeq(fs, 1, k - 1), fs[k]) = SubSeq(fs, 1, k)
    BY <1>1, PrefixNext DEF m
  <2>7. k \in 0..m
    BY <1>1
  <2> QED
    BY <2>2, <2>4, <2>5, <2>6, <2>7
<1>14. m \in 0..m /\ f[m] = At0(m)
  <2> HIDE DEF S
  <2>1. \A k \in 0..m : k \in S
    BY <1>1, <1>12, <1>13, AllUpTo
  <2>2. m \in 0..m
    BY <1>1
  <2> QED
    BY <2>1, <2>2 DEF S
<1> DEFINE R == {k \in 0..(n - m) : f[m + k] = At0(m)}
<1>15. 0 \in R
  <2>1. m + 0 = m /\ 0 \in 0..(n - m)
    BY <1>1, <1>2, <1>9
  <2> QED
    BY <1>14, <2>1
<1>16. ASSUME NEW k \in 1..(n - m), k - 1 \in R  PROVE k \in R
  <2>1. m + k \in 1..n /\ (m + k) - 1 = m + (k - 1)
    BY <1>1, <1>2
  <2>2. f[m + k] = Further(b, f[m + (k - 1)]) /\ f[m + (k - 1)] = At0(m)
    BY <1>11, <1>16, <2>1
  <2>3. At0(m).off = n
    BY <1>8
  <2> HIDE DEF At0
  <2>4. Further(b, At0(m)) = At0(m)
    BY <1>2, <2>3 DEF Further, n
  <2> QED
    BY <2>2, <2>4
<1>17. f[n] = At0(m)
  <2>1. n - m \in Nat /\ m + (n - m) = n /\ n - m \in 0..(n - m)
    BY <1>1, <1>2, <1>9
  <2> HIDE DEF R
  <2>2. \A k \in 0..(n - m) : k \in R
    BY <1>15, <1>16, <2>1, AllUpTo
  <2> QED
    BY <2>1, <2>2 DEF R
<1>18. SubSeq(fs, 1, m) = fs
  BY <1>1 DEF m
<1> QED
  BY <1>2, <1>10, <1>17, <1>18 DEF b

LEMMA SoundAppend ==
  ASSUME NEW fs, Sound(fs), NEW f, WellFormed(f)
  PROVE  /\ Sound(Append(fs, f))
         /\ Written(Append(fs, f)) = Written(fs) \o FieldBytes(f)
<1> DEFINE n == Len(fs)
           gs == Append(fs, f)
           F == [k \in 1..(n + 1) |-> FieldBytes(gs[k])]
<1>1. n \in Nat /\ fs \in Seq(Field) /\ f \in Field /\ DOMAIN fs = 1..n
  BY FieldFacts DEF Sound
<1>2. /\ gs \in Seq(Field) /\ DOMAIN gs = 1..(n + 1) /\ gs[n + 1] = f
      /\ \A k \in 1..n : gs[k] = fs[k]
  BY <1>1
<1>3. Sound(gs)
  <2>1. \A k \in 1..(n + 1) : k \in 1..n \/ k = n + 1
    BY <1>1
  <2> HIDE DEF gs, n
  <2> QED
    BY <1>1, <1>2, <2>1 DEF Sound
<1> HIDE DEF gs, n
<1>4. F \in [1..(n + 1) -> Seq(Byte)]
  BY <1>2, <1>3, FieldBytesIs DEF Sound
<1>5. FlattenSeq(F) = FlattenSeq([k \in 1..n |-> F[k]]) \o F[n + 1]
  <2> HIDE DEF F
  <2> QED
    BY <1>1, <1>4, FlattenLast
<1>6. Written(gs) = FlattenSeq(F)
  BY <1>2 DEF Written
<1>7. [k \in 1..n |-> F[k]] = [k \in 1..n |-> FieldBytes(fs[k])]
  <2>1. \A k \in 1..n : k \in 1..(n + 1)
    BY <1>1
  <2> QED
    BY <1>2, <2>1
<1>8. Written(fs) = FlattenSeq([k \in 1..n |-> F[k]])
  BY <1>1, <1>7 DEF Written
<1>9. F[n + 1] = FieldBytes(f)
  <2>1. n + 1 \in 1..(n + 1)
    BY <1>1
  <2> QED
    BY <1>2, <2>1
<1> QED
  BY <1>3, <1>5, <1>6, <1>8, <1>9 DEF gs

-----------------------------------------------------------------------------
(* What is stored of a field.                                              *)
KindNames == {"int", "uint32", "pubkey", "script", "bytes", "string", "message", "messages"}

LEMMA StringFacts ==
  ASSUME NEW d \in Seq(Byte)
  PROVE  /\ ProtoBufString(d) \in Seq(Byte)
         /\ \A k \in DOMAIN ProtoBufString(d) : ProtoBufString(d)[k] # 0
         /\ (\A k \in DOMAIN d : d[k] # 0) => ProtoBufString(d) = d
<1> DEFINE zeros == {k \in DOMAIN d : d[k] = 0}
           first == CHOOSE k \in zeros : \A j \in zeros : k <= j
<1>1. CASE zeros = {}
  <2>1. ProtoBufString(d) = d
    BY <1>1 DEF ProtoBufString
  <2> QED
    BY <1>1, <2>1
<1>2. CASE zeros # {}
  <2>1. PICK n \in zeros : \A j \in zeros : n <= j
    <3>1. zeros \in SUBSET Nat
      OBVIOUS
    <3> HIDE DEF zeros
    <3> QED
      BY <1>2, <3>1, Least
  <2>2. first \in zeros /\ \A j \in zeros : first <= j
    <3> HIDE DEF zeros
    <3> QED
      BY <2>1
  <2> HIDE DEF first
  <2>3. first \in 1..Len(d)
    BY <2>2
  <2> DEFINE s == SubSeq(d, 1, first - 1)
  <2>4. s \in Seq(Byte) /\ Len(s) = first - 1 /\ \A k \in 1..(first - 1) : s[k] = d[k]
    BY <2>3
  <2>5. ProtoBufString(d) = s
    BY <1>2 DEF ProtoBufString, first
  <2>6. ASSUME NEW k \in 1..(first - 1)  PROVE d[k] # 0
    <3>1. k \in DOMAIN d /\ ~(first <= k)
      BY <2>3
    <3> QED
      BY <2>2, <3>1
  <2> HIDE DEF s
  <2>7. \A k \in DOMAIN s : s[k] # 0
    BY <2>3, <2>4, <2>6
  <2> QED
    BY <1>2, <2>4, <2>5, <2>7
<1> QED
  BY <1>1, <1>2

Fits(kind, values) ==
  /\ values \in Seq(Seq(Nat))
  /\ kind # "messages" => Len(values) <= 1
  /\ \A k \in DOMAIN values : ValueFits(kind, values[k])

LEMMA OneFits ==
  ASSUME NEW kind \in KindNames, NEW v \in Seq(Nat), ValueFits(kind, v)
  PROVE  Fits(kind, <<v>>)
<1>1. <<v>> \in Seq(Seq(Nat)) /\ Len(<<v>>) = 1 /\ DOMAIN <<v>> = {1} /\ <<v>>[1] = v
  OBVIOUS
<1> QED
  BY <1>1 DEF Fits

LEMMA NoneFits ==
  ASSUME NEW kind \in KindNames
  PROVE  Fits(kind, <<>>)
<1>1. <<>> \in Seq(Seq(Nat)) /\ Len(<<>>) = 0 /\ DOMAIN <<>> = {}
  OBVIOUS
<1> QED
  BY <1>1 DEF Fits

LEMMA AppendFits ==
  ASSUME NEW values, Fits("messages", values), NEW v \in Seq(Byte)
  PROVE  Fits("messages", values \o <<v>>)
<1> DEFINE s == values \o <<v>>
<1>1. values \in Seq(Seq(Nat)) /\ v \in Seq(Nat)
  BY ByteSeq DEF Fits
<1>2. /\ s \in Seq(Seq(Nat)) /\ DOMAIN s = 1..(Len(values) + 1) /\ s[Len(values) + 1] = v
      /\ \A k \in 1..Len(values) : s[k] = values[k]
  BY <1>1
<1> HIDE DEF s
<1>3. ValueFits("messages", v)
  BY DEF ValueFits
<1>4. \A k \in 1..(Len(values) + 1) : k \in 1..Len(values) \/ k = Len(values) + 1
  BY <1>1
<1>5. \A k \in 1..Len(values) : ValueFits("messages", values[k])
  BY <1>1 DEF Fits
<1>6. \A k \in DOMAIN s : ValueFits("messages", s[k])
  BY <1>2, <1>3, <1>4, <1>5, Zenon
<1> QED
  BY <1>2, <1>6 DEF Fits, s

LEMMA ValuesFit ==
  ASSUME NEW kind \in KindNames, NEW values, Fits(kind, values), NEW f, WellFormed(f)
  PROVE  Fits(kind, Values(kind, values, f))
<1> DEFINE d == f.data[1]
           V == Values(kind, values, f)
<1>1. f.int \in Nat /\ f.data \in Seq(Seq(Byte))
  BY FieldFacts
<1>2. ASSUME f.data # <<>>  PROVE d \in Seq(Byte) /\ d \in Seq(Nat) /\ f.data = <<d>>
  <2>1. Len(f.data) = 1
    BY <1>2 DEF WellFormed
  <2>2. d \in Seq(Byte) /\ f.data = <<d>>
    BY <1>1, <2>1, OnlyOne
  <2> QED
    BY <2>2, ByteSeq
<1>3. Fits(kind, <<>>)
  BY NoneFits
<1>4. CASE kind = "int"
  <2>1. <<f.int>> \in Seq(Nat) /\ Len(<<f.int>>) = 1
    BY <1>1
  <2>2. V = <<<<f.int>>>>
    BY <1>4 DEF Values, OneInt
  <2>3. ValueFits(kind, <<f.int>>)
    BY <1>4, <2>1 DEF ValueFits
  <2> QED
    BY <2>1, <2>2, <2>3, OneFits
<1>5. CASE kind = "uint32"
  <2> DEFINE i == f.int % Span(W32)
  <2>1. i \in Nat /\ i < Span(W32)
    <3>1. W32 \in Nat
      BY WidthAssumption
    <3>2. Span(W32) \in Nat /\ Span(W32) > 0
      BY <3>1, SpanStep
    <3>3. i \in 0..(Span(W32) - 1)
      BY <1>1, <3>2, ModFacts
    <3> HIDE DEF i
    <3> QED
      BY <3>2, <3>3
  <2>2. V = <<<<i>>>>
    BY <1>5 DEF Values, OneInt
  <2> HIDE DEF i
  <2>3. <<i>> \in Seq(Nat) /\ Len(<<i>>) = 1 /\ <<i>>[1] = i
    BY <2>1
  <2>4. ValueFits(kind, <<i>>)
    BY <1>5, <2>1, <2>3 DEF ValueFits
  <2> QED
    BY <2>2, <2>3, <2>4, OneFits
<1>6. CASE kind = "pubkey"
  <2>1. V = IF f.data # <<>> /\ IsKey(d) THEN f.data ELSE <<>>
    BY <1>6 DEF Values
  <2>2. ASSUME f.data # <<>>, IsKey(d)  PROVE Fits(kind, f.data)
    <3>1. ValueFits(kind, d)
      BY <1>2, <1>6, <2>2 DEF ValueFits
    <3> QED
      BY <1>2, <2>2, <3>1, OneFits
  <2> HIDE DEF V, d
  <2>3. Fits(kind, V)
    BY <1>3, <2>1, <2>2
  <2> QED
    BY <2>3 DEF V
<1>11. CASE kind = "script"
  <2>1. V = f.data
    BY <1>11 DEF Values
  <2>2. ValueFits(kind, d) <=> d \in Seq(Byte)
    BY <1>11 DEF ValueFits
  <2> HIDE DEF V, d
  <2>3. CASE f.data = <<>>
    BY <1>3, <2>1, <2>3 DEF V
  <2>4. CASE f.data # <<>>
    <3>1. Fits(kind, V)
      BY <1>2, <2>1, <2>2, <2>4, OneFits
    <3> QED
      BY <3>1 DEF V
  <2> QED
    BY <2>3, <2>4
<1>7. CASE f.data = <<>> /\ kind \in {"bytes", "string", "message", "messages"}
  <2>1. V = values
    BY <1>7 DEF Values
  <2> QED
    BY <2>1
<1>8. CASE f.data # <<>> /\ kind \in {"bytes", "message"}
  <2>1. V = f.data
    BY <1>8 DEF Values
  <2>2. ValueFits(kind, d)
    BY <1>2, <1>8 DEF ValueFits
  <2> HIDE DEF V, d
  <2>3. Fits(kind, V)
    BY <1>2, <1>8, <2>1, <2>2, OneFits
  <2> QED
    BY <2>3 DEF V
<1>9. CASE f.data # <<>> /\ kind = "string"
  <2> DEFINE s == ProtoBufString(d)
  <2>1. s \in Seq(Byte) /\ s \in Seq(Nat) /\ \A k \in DOMAIN s : s[k] # 0
    BY <1>2, <1>9, StringFacts, ByteSeq
  <2>2. V = <<s>>
    BY <1>9 DEF Values
  <2> HIDE DEF s
  <2>3. ValueFits(kind, s)
    BY <1>9, <2>1 DEF ValueFits
  <2> QED
    BY <2>1, <2>2, <2>3, OneFits
<1>10. CASE f.data # <<>> /\ kind = "messages"
  <2>1. V = values \o f.data
    BY <1>10 DEF Values
  <2> HIDE DEF V, d
  <2>2. Fits(kind, V)
    BY <1>2, <1>10, <2>1, AppendFits
  <2> QED
    BY <2>2 DEF V
<1> QED
  BY <1>4, <1>5, <1>6, <1>7, <1>8, <1>9, <1>10, <1>11 DEF KindNames

(* An unknown field is kept with the others.                               *)
LEMMA UnknownKept ==
  ASSUME NEW u \in Seq(Field), NEW f \in Field
  PROVE  /\ ProtoBufUnknown(u, f) \in Seq(Field)
         /\ \A k \in DOMAIN ProtoBufUnknown(u, f) :
              ProtoBufUnknown(u, f)[k] = f \/ \E i \in DOMAIN u : ProtoBufUnknown(u, f)[k] = u[i]
         /\ \E k \in DOMAIN ProtoBufUnknown(u, f) : ProtoBufUnknown(u, f)[k] = f
         /\ \A i \in DOMAIN u : u[i].key # f.key =>
              \E k \in DOMAIN ProtoBufUnknown(u, f) : ProtoBufUnknown(u, f)[k] = u[i]
         /\ u = <<>> => ProtoBufUnknown(u, f) = <<f>>
<1> DEFINE n == Len(u)
           above == {j \in 1..n : u[j].key >= f.key}
           j == IF above # {} THEN CHOOSE k \in above : \A i \in above : k <= i
                ELSE IF n = 0 THEN 1 ELSE n
           r == ProtoBufUnknown(u, f)
<1>1. n \in Nat
  OBVIOUS
<1>2. j \in 1..(n + 1) /\ (above # {} => j \in 1..n) /\ (n = 0 => j = 1)
  <2>1. CASE above # {}
    <3>1. above \in SUBSET Nat
      BY <1>1
    <3>2. PICK k \in above : \A i \in above : k <= i
      <4> HIDE DEF above
      <4> QED
        BY <2>1, <3>1, Least
    <3>3. j \in above
      <4> HIDE DEF above
      <4> QED
        BY <2>1, <3>2
    <3> HIDE DEF j
    <3> QED
      BY <1>1, <3>3
  <2>2. CASE above = {}
    <3>1. j = IF n = 0 THEN 1 ELSE n
      BY <2>2
    <3> HIDE DEF j, above
    <3> QED
      BY <1>1, <2>2, <3>1
  <2> QED
    BY <2>1, <2>2
<1>3. r = IF above # {} /\ u[j].key = f.key THEN [u EXCEPT ![j] = f] ELSE InsertAt(u, j, f)
  BY DEF ProtoBufUnknown
<1>4. CASE above # {} /\ u[j].key = f.key
  <2>1. r = [u EXCEPT ![j] = f] /\ j \in 1..n
    BY <1>2, <1>3, <1>4
  <2> HIDE DEF r, j, above
  <2>2. r \in Seq(Field) /\ DOMAIN r = 1..n /\ r[j] = f /\ \A i \in 1..n : i # j => r[i] = u[i]
    BY <1>1, <2>1
  <2>3. u # <<>> /\ DOMAIN u = 1..n
    BY <2>1
  <2>4. \A i \in 1..n : u[i].key # f.key => i # j
    BY <1>4
  <2>5. \A k \in DOMAIN r : r[k] = f \/ \E i \in DOMAIN u : r[k] = u[i]
    BY <2>2, <2>3, Zenon
  <2>6. \E k \in DOMAIN r : r[k] = f
    BY <2>1, <2>2, Zenon
  <2>7. \A i \in DOMAIN u : u[i].key # f.key => \E k \in DOMAIN r : r[k] = u[i]
    BY <2>2, <2>3, <2>4, Zenon
  <2> QED
    BY <2>2, <2>3, <2>5, <2>6, <2>7 DEF r
<1>5. CASE ~(above # {} /\ u[j].key = f.key)
  <2> DEFINE a == SubSeq(u, 1, j - 1)
             c == SubSeq(u, j, n)
  <2>1. r = InsertAt(u, j, f)
    BY <1>3, <1>5
  <2> HIDE DEF r, j, above
  <2>2. a \in Seq(Field) /\ Len(a) = j - 1 /\ \A i \in 1..(j - 1) : a[i] = u[i]
    BY <1>1, <1>2
  <2>3. c \in Seq(Field) /\ Len(c) = n - j + 1 /\ \A i \in 1..(n - j + 1) : c[i] = u[j + i - 1]
    BY <1>1, <1>2
  <2>4. r = (a \o <<f>>) \o c
    BY <2>1 DEF InsertAt
  <2> HIDE DEF a, c, n
  <2>5. /\ a \o <<f>> \in Seq(Field) /\ Len(a \o <<f>>) = j /\ (a \o <<f>>)[j] = f
        /\ \A i \in 1..(j - 1) : (a \o <<f>>)[i] = a[i]
    BY <1>1, <1>2, <2>2
  <2>6. /\ r \in Seq(Field) /\ DOMAIN r = 1..(n + 1) /\ r[j] = f
        /\ \A i \in 1..(j - 1) : r[i] = u[i]
        /\ \A i \in 1..(n - j + 1) : r[j + i] = u[j + i - 1]
    <3> DEFINE e == a \o <<f>>
    <3>1. /\ e \in Seq(Field) /\ Len(e) = j /\ e[j] = f
          /\ \A i \in 1..(j - 1) : e[i] = u[i]
      BY <2>2, <2>5
    <3> HIDE DEF e
    <3>2. /\ e \o c \in Seq(Field) /\ Len(e \o c) = Len(e) + Len(c)
          /\ \A k \in 1..Len(e) : (e \o c)[k] = e[k]
          /\ \A k \in 1..Len(c) : (e \o c)[Len(e) + k] = c[k]
      <4>1. e \in Seq(Field) /\ c \in Seq(Field)
        BY <2>3, <3>1
      <4>2. \A x, y \in Seq(Field) :
              /\ x \o y \in Seq(Field) /\ Len(x \o y) = Len(x) + Len(y)
              /\ \A k \in 1..Len(x) : (x \o y)[k] = x[k]
              /\ \A k \in 1..Len(y) : (x \o y)[Len(x) + k] = y[k]
        BY ConcatType
      <4> QED
        BY <4>1, <4>2, Zenon
    <3>3. r = e \o c
      BY <2>4 DEF e
    <3>4. Len(r) = n + 1 /\ r \in Seq(Field)
      BY <1>1, <1>2, <2>3, <3>1, <3>2, <3>3
    <3>5. j \in 1..j /\ \A i \in 1..(j - 1) : i \in 1..j
      BY <1>1, <1>2
    <3>6. r[j] = f /\ \A i \in 1..(j - 1) : r[i] = u[i]
      BY <3>1, <3>2, <3>3, <3>5
    <3>7. \A i \in 1..(n - j + 1) : r[j + i] = u[j + i - 1]
      BY <2>3, <3>1, <3>2, <3>3
    <3> QED
      BY <3>4, <3>6, <3>7
  <2>7. DOMAIN u = 1..n
    BY DEF n
  <2>8. \A k \in DOMAIN r : r[k] = f \/ \E i \in DOMAIN u : r[k] = u[i]
    <3> SUFFICES ASSUME NEW k \in 1..(n + 1)  PROVE r[k] = f \/ \E i \in 1..n : r[k] = u[i]
      BY <2>6, <2>7
    <3>1. CASE k < j
      <4>1. k \in 1..(j - 1) /\ k \in 1..n
        BY <1>1, <1>2, <3>1
      <4> QED
        BY <2>6, <4>1
    <3>2. CASE k = j
      BY <2>6, <3>2
    <3>3. CASE k > j
      <4>1. k - j \in 1..(n - j + 1) /\ k - 1 \in 1..n /\ j + (k - j) = k /\ j + (k - j) - 1 = k - 1
        BY <1>1, <1>2, <3>3
      <4> QED
        BY <2>6, <4>1
    <3> QED
      BY <1>1, <1>2, <3>1, <3>2, <3>3
  <2>9. \E k \in DOMAIN r : r[k] = f
    BY <1>2, <2>6
  <2>10. \A i \in DOMAIN u : \E k \in DOMAIN r : r[k] = u[i]
    <3> SUFFICES ASSUME NEW i \in 1..n  PROVE \E k \in 1..(n + 1) : r[k] = u[i]
      BY <2>6, <2>7
    <3>1. CASE i < j
      <4>1. i \in 1..(j - 1) /\ i \in 1..(n + 1)
        BY <1>1, <1>2, <3>1
      <4> QED
        BY <2>6, <4>1
    <3>2. CASE i >= j
      <4>1. i - j + 1 \in 1..(n - j + 1) /\ j + (i - j + 1) = i + 1 /\ j + (i - j + 1) - 1 = i /\ i + 1 \in 1..(n + 1)
        BY <1>1, <1>2, <3>2
      <4>2. r[i + 1] = u[i]
        BY <2>6, <4>1
      <4> QED
        BY <4>1, <4>2
    <3> QED
      BY <1>1, <1>2, <3>1, <3>2
  <2>11. ASSUME u = <<>>  PROVE r = <<f>>
    <3>1. n = 0 /\ j = 1
      BY <1>2, <2>11 DEF n
    <3>2. Len(r) = 1 /\ r[1] = f /\ r \in Seq(Field)
      BY <2>6, <3>1
    <3> QED
      BY <3>2, OnlyOne
  <2> QED
    BY <2>6, <2>8, <2>9, <2>10, <2>11 DEF r
<1> QED
  BY <1>4, <1>5

(* A message is what it can be after every field.                          *)
LEMMA FitsMeans ==
  ASSUME NEW kinds \in Seq(KindNames), NEW m
  PROVE  MessageFits(kinds, m) <=>
           /\ m = [field |-> m.field, unknown |-> m.unknown]
           /\ m.field = [num \in DOMAIN kinds |-> m.field[num]]
           /\ \A num \in DOMAIN kinds : Fits(kinds[num], m.field[num])
           /\ Sound(m.unknown)
           /\ \A k \in DOMAIN m.unknown : m.unknown[k].key \div 8 \notin DOMAIN kinds
<1>1. ASSUME MessageFits(kinds, m)
      PROVE  /\ m = [field |-> m.field, unknown |-> m.unknown]
             /\ m.field = [num \in DOMAIN kinds |-> m.field[num]]
             /\ \A num \in DOMAIN kinds : Fits(kinds[num], m.field[num])
             /\ Sound(m.unknown)
             /\ \A k \in DOMAIN m.unknown : m.unknown[k].key \div 8 \notin DOMAIN kinds
  <2>1. /\ m = [field |-> m.field, unknown |-> m.unknown]
        /\ m.field \in [DOMAIN kinds -> Seq(Seq(Nat))]
        /\ \A num \in DOMAIN kinds :
             /\ kinds[num] # "messages" => Len(m.field[num]) <= 1
             /\ \A k \in DOMAIN m.field[num] : ValueFits(kinds[num], m.field[num][k])
        /\ m.unknown \in Seq(Field)
        /\ \A k \in DOMAIN m.unknown :
             WellFormed(m.unknown[k]) /\ m.unknown[k].key \div 8 \notin DOMAIN kinds
    BY <1>1 DEF MessageFits
  <2>2. \A num \in DOMAIN kinds : Fits(kinds[num], m.field[num])
    BY <2>1 DEF Fits
  <2> QED
    BY <2>1, <2>2, Zenon DEF Sound
<1>2. ASSUME m = [field |-> m.field, unknown |-> m.unknown],
             m.field = [num \in DOMAIN kinds |-> m.field[num]],
             \A num \in DOMAIN kinds : Fits(kinds[num], m.field[num]),
             Sound(m.unknown),
             \A k \in DOMAIN m.unknown : m.unknown[k].key \div 8 \notin DOMAIN kinds
      PROVE  MessageFits(kinds, m)
  <2>1. /\ m.field \in [DOMAIN kinds -> Seq(Seq(Nat))]
        /\ \A num \in DOMAIN kinds :
             /\ kinds[num] # "messages" => Len(m.field[num]) <= 1
             /\ \A k \in DOMAIN m.field[num] : ValueFits(kinds[num], m.field[num][k])
    <3>1. \A num \in DOMAIN kinds :
            /\ m.field[num] \in Seq(Seq(Nat))
            /\ kinds[num] # "messages" => Len(m.field[num]) <= 1
            /\ \A k \in DOMAIN m.field[num] : ValueFits(kinds[num], m.field[num][k])
      BY <1>2, Zenon DEF Fits
    <3>2. m.field \in [DOMAIN kinds -> Seq(Seq(Nat))]
      BY <1>2, <3>1
    <3> QED
      BY <3>1, <3>2, Zenon
  <2> QED
    BY <1>2, <2>1, Zenon DEF MessageFits, Sound
<1> QED
  BY <1>1, <1>2, Zenon

LEMMA StoreFits ==
  ASSUME NEW kinds \in Seq(KindNames), NEW m, MessageFits(kinds, m), NEW f, WellFormed(f)
  PROVE  /\ MessageFits(kinds, Store(kinds, m, f))
         /\ \A num \in DOMAIN kinds :
              Store(kinds, m, f).field[num] =
                IF num = f.key \div 8 THEN Values(kinds[num], m.field[num], f) ELSE m.field[num]
         /\ Store(kinds, m, f).unknown =
              IF f.key \div 8 \in DOMAIN kinds THEN m.unknown ELSE ProtoBufUnknown(m.unknown, f)
<1> DEFINE r == Store(kinds, m, f)
           n == f.key \div 8
           D == DOMAIN kinds
<1>1. /\ m = [field |-> m.field, unknown |-> m.unknown]
      /\ m.field = [num \in D |-> m.field[num]]
      /\ \A num \in D : Fits(kinds[num], m.field[num])
      /\ Sound(m.unknown)
      /\ \A k \in DOMAIN m.unknown : m.unknown[k].key \div 8 \notin D
  <2>1. MessageFits(kinds, m)
    OBVIOUS
  <2> QED
    BY <2>1, FitsMeans, Zenon
<1>2. \A num \in D : kinds[num] \in KindNames
  OBVIOUS
<1> HIDE DEF D
<1>3. CASE n \in D
  <2> DEFINE V == Values(kinds[n], m.field[n], f)
  <2>1. r = [m EXCEPT !.field[n] = V]
    BY <1>3 DEF Store, D
  <2>2. Fits(kinds[n], V)
    BY <1>1, <1>2, <1>3, ValuesFit
  <2> HIDE DEF r, n, V
  <2>3. r = [field |-> [m.field EXCEPT ![n] = V], unknown |-> m.unknown]
    BY <1>1, <2>1
  <2>4. /\ r = [field |-> r.field, unknown |-> r.unknown] /\ r.unknown = m.unknown
        /\ r.field = [m.field EXCEPT ![n] = V]
    BY <2>3
  <2>5. /\ r.field = [num \in D |-> r.field[num]]
        /\ \A num \in D : r.field[num] = IF num = n THEN V ELSE m.field[num]
    BY <1>1, <1>3, <2>4
  <2>6. \A num \in D : Fits(kinds[num], r.field[num])
    BY <1>1, <2>2, <2>5
  <2>7. MessageFits(kinds, r)
    BY <1>1, <2>4, <2>5, <2>6, FitsMeans, Zenon DEF D
  <2> QED
    BY <1>3, <2>4, <2>5, <2>7 DEF r, n, V, D
<1>4. CASE n \notin D
  <2> DEFINE U == ProtoBufUnknown(m.unknown, f)
  <2>1. r = [m EXCEPT !.unknown = U]
    BY <1>4 DEF Store, D
  <2>2. f \in Field /\ m.unknown \in Seq(Field)
    BY <1>1, FieldFacts DEF Sound
  <2>3. U \in Seq(Field) /\ \A k \in DOMAIN U : U[k] = f \/ \E i \in DOMAIN m.unknown : U[k] = m.unknown[i]
    BY <2>2, UnknownKept
  <2>4. Sound(U) /\ \A k \in DOMAIN U : U[k].key \div 8 \notin D
    <3> HIDE DEF U
    <3>1. \A k \in DOMAIN U : WellFormed(U[k])
      BY <1>1, <2>3, Zenon DEF Sound
    <3>2. \A k \in DOMAIN U : U[k].key \div 8 \notin D
      BY <1>1, <1>4, <2>3, Zenon
    <3> QED
      BY <2>3, <3>1, <3>2, Zenon DEF Sound
  <2> HIDE DEF r, U
  <2>5. r = [field |-> m.field, unknown |-> U]
    BY <1>1, <2>1
  <2>6. r = [field |-> r.field, unknown |-> r.unknown] /\ r.field = m.field /\ r.unknown = U
    BY <2>5
  <2>7. MessageFits(kinds, r)
    <3>1. r.field = [num \in D |-> r.field[num]] /\ \A num \in D : Fits(kinds[num], r.field[num])
      BY <1>1, <2>6, Zenon
    <3>2. Sound(r.unknown) /\ \A k \in DOMAIN r.unknown : r.unknown[k].key \div 8 \notin D
      BY <2>4, <2>6, Zenon
    <3>3. r = [field |-> r.field, unknown |-> r.unknown]
      BY <2>6, Zenon
    <3> QED
      BY <3>1, <3>2, <3>3, FitsMeans, Zenon DEF D
  <2>8. \A num \in D : num # n
    BY <1>4
  <2> QED
    BY <1>4, <2>6, <2>7, <2>8 DEF r, U, D
<1> QED
  BY <1>3, <1>4

(* The messages after each of the fields.                                  *)
Stores(f, kinds, m, fs) ==
  /\ f[0] = m /\ \A k \in 1..Len(fs) : f[k] = Store(kinds, f[k - 1], fs[k])
  /\ \A k \in 0..Len(fs) : MessageFits(kinds, f[k])

Message0(kinds) == [field : [DOMAIN kinds -> Seq(Seq(Nat))], unknown : Seq(Field)]

LEMMA StoredRuns ==
  ASSUME NEW kinds \in Seq(KindNames), NEW m, MessageFits(kinds, m), NEW fs, Sound(fs)
  PROVE  \E f : Stores(f, kinds, m, fs) /\ Stored(kinds, m, fs) = f[Len(fs)]
<1> DEFINE n == Len(fs)
           T == {x \in Message0(kinds) : MessageFits(kinds, x)}
           F == [k \in 1..n |-> [x \in T |-> Store(kinds, x, fs[k])]]
           P(f) == f = [k \in 0..n |-> IF k = 0 THEN m ELSE Store(kinds, f[k - 1], fs[k])]
           upTo == CHOOSE f : P(f)
<1>1. n \in Nat /\ \A k \in 1..n : WellFormed(fs[k])
  BY DEF Sound
<1>2. \A x : MessageFits(kinds, x) => x \in T
  BY DEF MessageFits, Message0
<1>3. \A x \in T : MessageFits(kinds, x)
  OBVIOUS
<1> HIDE DEF T, n
<1>4. m \in T
  BY <1>2
<1>5. ASSUME NEW k \in 1..n, NEW x \in T  PROVE Store(kinds, x, fs[k]) \in T
  BY <1>1, <1>2, <1>3, StoreFits
<1>6. F \in [1..n -> [T -> T]]
  BY <1>5
<1>7. \A k \in 1..n : \A x \in T : F[k][x] = Store(kinds, x, fs[k])
  OBVIOUS
<1> HIDE DEF F
<1>8. PICK h : Iterated(h, n, T, m, F)
  BY <1>1, <1>4, <1>6, Iterates
<1>9. ASSUME NEW k \in 0..n  PROVE h[k] = IF k = 0 THEN m ELSE Store(kinds, h[k - 1], fs[k])
  <2>1. CASE k = 0
    BY <1>8, <2>1 DEF Iterated
  <2>2. CASE k # 0
    <3>1. k \in 1..n /\ k - 1 \in 0..n
      BY <1>1, <2>2
    <3>2. h[k - 1] \in T /\ h[k] = F[k][h[k - 1]]
      BY <1>8, <3>1 DEF Iterated
    <3> QED
      BY <1>7, <2>2, <3>1, <3>2
  <2> QED
    BY <2>1, <2>2
<1>10. P(h)
  <2>1. h = [k \in 0..n |-> h[k]]
    BY <1>8 DEF Iterated
  <2> QED
    BY <1>9, <2>1, Zenon
<1>11. Stored(kinds, m, fs) = upTo[n]
  BY DEF Stored, n
<1>12. P(upTo)
  <2> HIDE DEF P
  <2> QED
    BY <1>10
<1> HIDE DEF upTo
<1>13. \A k \in 0..n : upTo[k] = IF k = 0 THEN m ELSE Store(kinds, upTo[k - 1], fs[k])
  BY <1>12, Zenon
<1>14. upTo[0] = m /\ \A k \in 1..n : upTo[k] = Store(kinds, upTo[k - 1], fs[k])
  <2>1. 0 \in 0..n /\ \A k \in 1..n : k \in 0..n /\ k # 0
    BY <1>1
  <2> QED
    BY <1>13, <2>1, Zenon
<1> DEFINE S == {k \in 0..n : upTo[k] \in T}
<1>15. 0 \in S
  BY <1>1, <1>4, <1>14
<1>16. ASSUME NEW k \in 1..n, k - 1 \in S  PROVE k \in S
  <2>1. upTo[k - 1] \in T /\ k \in 0..n
    BY <1>16
  <2> QED
    BY <1>5, <1>14, <2>1
<1>17. \A k \in 0..n : k \in S
  <2> HIDE DEF S
  <2> QED
    BY <1>1, <1>15, <1>16, AllUpTo
<1>18. \A k \in 0..n : MessageFits(kinds, upTo[k])
  BY <1>3, <1>17
<1>19. Stores(upTo, kinds, m, fs)
  BY <1>14, <1>18 DEF Stores, n
<1> QED
  BY <1>11, <1>19 DEF n

(* Of every unknown key the last field is kept.                            *)
UnknownAfter(kinds, fs, k, u) ==
  /\ \A x \in DOMAIN u : \E j \in 1..k : u[x] = fs[j]
  /\ \A j \in 1..k : fs[j].key \div 8 \notin DOMAIN kinds =>
       /\ \E x \in DOMAIN u : u[x].key = fs[j].key
       /\ \/ \E i \in (j + 1)..k : fs[i].key = fs[j].key
          \/ \E x \in DOMAIN u : u[x] = fs[j]

LEMMA UnknownStored ==
  ASSUME NEW kinds \in Seq(KindNames), NEW m, MessageFits(kinds, m), m.unknown = <<>>,
         NEW fs, Sound(fs)
  PROVE  UnknownAfter(kinds, fs, Len(fs), Stored(kinds, m, fs).unknown)
<1> DEFINE n == Len(fs)
           Num(j) == fs[j].key \div 8
           D == DOMAIN kinds
<1>1. PICK f : Stores(f, kinds, m, fs) /\ Stored(kinds, m, fs) = f[n]
  BY StoredRuns
<1> DEFINE U(k) == f[k].unknown
           S == {k \in 0..n : UnknownAfter(kinds, fs, k, U(k))}
<1>2. n \in Nat /\ \A k \in 1..n : WellFormed(fs[k]) /\ fs[k] \in Field
  BY FieldFacts DEF Sound
<1>3. 0 \in S
  <2>1. U(0) = <<>> /\ DOMAIN <<>> = {} /\ 1..0 = {}
    BY <1>1 DEF Stores
  <2> HIDE DEF U
  <2>2. UnknownAfter(kinds, fs, 0, U(0))
    BY <2>1 DEF UnknownAfter
  <2> QED
    BY <1>2, <2>2
<1>4. ASSUME NEW k \in 1..n, k - 1 \in S  PROVE k \in S
  <2> DEFINE u == U(k - 1)
             g == fs[k]
             w == U(k)
  <2>1. k - 1 \in 0..n /\ k \in 0..n /\ k \in Nat /\ k - 1 \in Nat
    BY <1>2
  <2>2. UnknownAfter(kinds, fs, k - 1, u)
    BY <1>4
  <2>3. MessageFits(kinds, f[k - 1]) /\ f[k] = Store(kinds, f[k - 1], g) /\ WellFormed(g) /\ g \in Field
    BY <1>1, <1>2, <2>1 DEF Stores
  <2>4. w = IF Num(k) \in D THEN u ELSE ProtoBufUnknown(u, g)
    BY <2>3, StoreFits
  <2>5. u \in Seq(Field)
    BY <2>3 DEF MessageFits
  <2> HIDE DEF u, w, S, U, D
  <2>6. \A j \in 1..k : j \in 1..(k - 1) \/ j = k
    BY <2>1
  <2>7. \A j \in 1..(k - 1) : j \in 1..k
    BY <2>1
  <2>8. ASSUME Num(k) \in D  PROVE UnknownAfter(kinds, fs, k, w)
    <3>1. w = u
      BY <2>4, <2>8
    <3>2. \A x \in DOMAIN u : \E j \in 1..k : u[x] = fs[j]
      BY <2>2, <2>7 DEF UnknownAfter
    <3>3. ASSUME NEW j \in 1..k, Num(j) \notin D
          PROVE  /\ \E x \in DOMAIN u : u[x].key = fs[j].key
                 /\ \/ \E i \in (j + 1)..k : fs[i].key = fs[j].key
                    \/ \E x \in DOMAIN u : u[x] = fs[j]
      <4>1. j \in 1..(k - 1)
        BY <2>6, <2>8, <3>3
      <4>2. \A i \in (j + 1)..(k - 1) : i \in (j + 1)..k
        BY <2>1
      <4> QED
        BY <2>2, <3>3, <4>1, <4>2 DEF UnknownAfter, D
    <3> QED
      BY <3>1, <3>2, <3>3 DEF UnknownAfter, D
  <2>9. ASSUME Num(k) \notin D  PROVE UnknownAfter(kinds, fs, k, w)
    <3>1. /\ \A x \in DOMAIN w : w[x] = g \/ \E i \in DOMAIN u : w[x] = u[i]
          /\ \E x \in DOMAIN w : w[x] = g
          /\ \A i \in DOMAIN u : u[i].key # g.key => \E x \in DOMAIN w : w[x] = u[i]
      <4>1. w = ProtoBufUnknown(u, g)
        BY <2>4, <2>9
      <4> QED
        BY <2>3, <2>5, <4>1, UnknownKept
    <3>2. ASSUME NEW x \in DOMAIN w  PROVE \E j \in 1..k : w[x] = fs[j]
      <4>1. CASE w[x] = g
        <5>1. k \in 1..k
          BY <2>1
        <5> QED
          BY <4>1, <5>1
      <4>2. CASE \E i \in DOMAIN u : w[x] = u[i]
        BY <2>2, <2>7, <4>2 DEF UnknownAfter
      <4> QED
        BY <3>1, <4>1, <4>2
    <3>3. ASSUME NEW j \in 1..k, Num(j) \notin D
          PROVE  /\ \E x \in DOMAIN w : w[x].key = fs[j].key
                 /\ \/ \E i \in (j + 1)..k : fs[i].key = fs[j].key
                    \/ \E x \in DOMAIN w : w[x] = fs[j]
      <4>1. CASE fs[j].key = g.key
        <5>1. \E x \in DOMAIN w : w[x].key = fs[j].key
          BY <3>1, <4>1
        <5>2. CASE j = k
          BY <3>1, <5>1, <5>2
        <5>3. CASE j # k
          <6>1. k \in (j + 1)..k
            BY <2>1, <5>3
          <6> QED
            BY <4>1, <5>1, <6>1
        <5> QED
          BY <5>2, <5>3
      <4>2. CASE fs[j].key # g.key
        <5>1. j \in 1..(k - 1)
          BY <2>6, <4>2
        <5>2. /\ \E x \in DOMAIN u : u[x].key = fs[j].key
              /\ \/ \E i \in (j + 1)..(k - 1) : fs[i].key = fs[j].key
                 \/ \E x \in DOMAIN u : u[x] = fs[j]
          BY <2>2, <3>3, <5>1 DEF UnknownAfter, D
        <5>3. \A i \in (j + 1)..(k - 1) : i \in (j + 1)..k
          BY <2>1
        <5>4. \E x \in DOMAIN w : w[x].key = fs[j].key
          BY <3>1, <4>2, <5>2
        <5>5. (\E x \in DOMAIN u : u[x] = fs[j]) => \E x \in DOMAIN w : w[x] = fs[j]
          BY <3>1, <4>2
        <5> QED
          BY <5>2, <5>3, <5>4, <5>5
      <4> QED
        BY <4>1, <4>2
    <3> QED
      BY <3>2, <3>3 DEF UnknownAfter, D
  <2> QED
    BY <2>1, <2>8, <2>9 DEF S, w
<1>5. n \in S
  <2> HIDE DEF S
  <2>1. \A k \in 0..n : k \in S
    BY <1>2, <1>3, <1>4, AllUpTo
  <2>2. n \in 0..n
    BY <1>2
  <2> QED
    BY <2>1, <2>2
<1> QED
  BY <1>1, <1>5

(* The only unknown field is kept as it is.                                *)
LEMMA OneUnknown ==
  ASSUME NEW kinds \in Seq(KindNames), NEW m, MessageFits(kinds, m), m.unknown = <<>>,
         NEW fs, Sound(fs), NEW at \in Nat,
         \A j \in DOMAIN fs : fs[j].key \div 8 \notin DOMAIN kinds <=> j = at
  PROVE  Stored(kinds, m, fs).unknown = IF at \in DOMAIN fs THEN <<fs[at]>> ELSE <<>>
<1> DEFINE n == Len(fs)
           D == DOMAIN kinds
<1>1. PICK f : Stores(f, kinds, m, fs) /\ Stored(kinds, m, fs) = f[n]
  BY StoredRuns
<1> DEFINE U(k) == f[k].unknown
           S == {k \in 0..n : U(k) = IF at \in 1..k THEN <<fs[at]>> ELSE <<>>}
<1>2. n \in Nat /\ DOMAIN fs = 1..n /\ \A k \in 1..n : WellFormed(fs[k]) /\ fs[k] \in Field
  BY FieldFacts DEF Sound
<1>3. 0 \in S
  <2>1. U(0) = <<>> /\ 1..0 = {}
    BY <1>1 DEF Stores
  <2> QED
    BY <1>2, <2>1
<1>4. ASSUME NEW k \in 1..n, k - 1 \in S  PROVE k \in S
  <2>1. k - 1 \in 0..n /\ k \in 0..n
    BY <1>2
  <2>2. MessageFits(kinds, f[k - 1]) /\ f[k] = Store(kinds, f[k - 1], fs[k]) /\ WellFormed(fs[k]) /\ fs[k] \in Field
    BY <1>1, <1>2, <2>1 DEF Stores
  <2>3. U(k) = IF fs[k].key \div 8 \in D THEN U(k - 1) ELSE ProtoBufUnknown(U(k - 1), fs[k])
    BY <2>2, StoreFits
  <2>4. U(k - 1) = IF at \in 1..(k - 1) THEN <<fs[at]>> ELSE <<>>
    BY <1>4
  <2> HIDE DEF U, D
  <2>5. CASE k = at
    <3>1. U(k - 1) = <<>>
      BY <1>2, <2>4, <2>5
    <3>2. ProtoBufUnknown(<<>>, fs[k]) = <<fs[k]>>
      <4>1. <<>> \in Seq(Field)
        OBVIOUS
      <4> QED
        BY <2>2, <4>1, UnknownKept
    <3>3. fs[k].key \div 8 \notin D
      BY <1>2, <2>5 DEF D
    <3>4. at \in 1..k
      BY <2>5
    <3> QED
      BY <2>1, <2>3, <2>5, <3>1, <3>2, <3>3, <3>4
  <2>6. CASE k # at
    <3>1. fs[k].key \div 8 \in D
      BY <1>2, <2>6 DEF D
    <3>2. at \in 1..k <=> at \in 1..(k - 1)
      BY <2>6
    <3> QED
      BY <2>1, <2>3, <2>4, <3>1, <3>2
  <2> QED
    BY <2>5, <2>6
<1>5. n \in S
  <2> HIDE DEF S
  <2>1. \A k \in 0..n : k \in S
    BY <1>2, <1>3, <1>4, AllUpTo
  <2>2. n \in 0..n
    BY <1>2
  <2> QED
    BY <2>1, <2>2
<1> QED
  BY <1>1, <1>2, <1>5

(* A field that is not repeated has the last of the values that count.     *)
Counts(kind, f) == kind \in {"int", "uint32", "pubkey", "script"} \/ f.data # <<>>
Counting(kind, num, fs, k) == {j \in 1..k : fs[j].key \div 8 = num /\ Counts(kind, fs[j])}

LEMMA ValueStored ==
  ASSUME NEW kinds \in Seq(KindNames), NEW m, MessageFits(kinds, m), NEW fs, Sound(fs),
         NEW num \in DOMAIN kinds, kinds[num] # "messages", m.field[num] = <<>>
  PROVE  LET J == Counting(kinds[num], num, fs, Len(fs))
             value == Stored(kinds, m, fs).field[num]
         IN /\ J = {} => value = <<>>
            /\ \A j \in J : (\A i \in J : i <= j) => value = Values(kinds[num], <<>>, fs[j])
<1> DEFINE n == Len(fs)
           kind == kinds[num]
           J(k) == Counting(kind, num, fs, k)
           Is(k, v) == /\ J(k) = {} => v = <<>>
                       /\ \A j \in J(k) : (\A i \in J(k) : i <= j) => v = Values(kind, <<>>, fs[j])
<1>1. PICK f : Stores(f, kinds, m, fs) /\ Stored(kinds, m, fs) = f[n]
  BY StoredRuns
<1> DEFINE v(k) == f[k].field[num]
           S == {k \in 0..n : Is(k, v(k))}
<1>2. n \in Nat /\ \A k \in 1..n : WellFormed(fs[k])
  BY DEF Sound
<1>3. 0 \in S
  <2>1. v(0) = <<>> /\ J(0) = {}
    BY <1>1 DEF Stores, Counting
  <2> HIDE DEF v, J
  <2> QED
    BY <1>2, <2>1
<1>4. ASSUME NEW k \in 1..n, k - 1 \in S  PROVE k \in S
  <2> DEFINE g == fs[k]
  <2>1. k - 1 \in 0..n /\ k \in 0..n
    BY <1>2
  <2>2. MessageFits(kinds, f[k - 1]) /\ f[k] = Store(kinds, f[k - 1], g) /\ WellFormed(g)
    BY <1>1, <1>2, <2>1 DEF Stores
  <2>3. v(k) = IF num = g.key \div 8 THEN Values(kind, v(k - 1), g) ELSE v(k - 1)
    BY <2>2, StoreFits
  <2>4. Is(k - 1, v(k - 1))
    BY <1>4
  <2>5. kind \in KindNames
    OBVIOUS
  <2> HIDE DEF v, S
  <2>6. CASE num = g.key \div 8 /\ Counts(kind, g)
    <3>1. Values(kind, v(k - 1), g) = Values(kind, <<>>, g)
      <4> HIDE DEF kind
      <4>1. kind # "messages"
        BY DEF kind
      <4> QED
        BY <2>5, <2>6, <4>1 DEF Values, Counts, KindNames
    <3>2. k \in J(k) /\ \A j \in J(k) : j <= k
      BY <1>2, <2>6 DEF Counting
    <3>3. ASSUME NEW j \in J(k), \A i \in J(k) : i <= j  PROVE j = k
      <4>1. j <= k /\ k <= j /\ j \in Int /\ k \in Int
        BY <3>2, <3>3 DEF Counting
      <4> QED
        BY <4>1
    <3>4. v(k) = Values(kind, <<>>, g)
      BY <2>3, <2>6, <3>1
    <3> HIDE DEF J, g
    <3>5. Is(k, v(k))
      BY <3>2, <3>3, <3>4 DEF g
    <3> QED
      BY <2>1, <3>5 DEF S
  <2>7. CASE ~(num = g.key \div 8 /\ Counts(kind, g))
    <3>1. J(k) = J(k - 1)
      <4>1. \A j \in 1..k : j \in 1..(k - 1) \/ j = k
        BY <1>2
      <4>2. \A j \in 1..(k - 1) : j \in 1..k
        BY <1>2
      <4>3. ~(fs[k].key \div 8 = num /\ Counts(kind, fs[k]))
        BY <2>7
      <4> HIDE DEF kind
      <4> QED
        BY <4>1, <4>2, <4>3 DEF Counting
    <3>2. v(k) = v(k - 1)
      <4>1. CASE num # g.key \div 8
        BY <2>3, <4>1
      <4>2. CASE ~Counts(kind, g)
        <5>1. kind \in {"bytes", "string", "message", "messages"} /\ g.data = <<>>
          <6> HIDE DEF kind, g
          <6> QED
            BY <2>5, <4>2 DEF Counts, KindNames
        <5>2. Values(kind, v(k - 1), g) = v(k - 1)
          <6> HIDE DEF kind, g
          <6> QED
            BY <5>1 DEF Values
        <5> QED
          BY <2>3, <5>2
      <4> QED
        BY <2>7, <4>1, <4>2
    <3> HIDE DEF J, kind
    <3>3. Is(k, v(k))
      BY <2>4, <3>1, <3>2
    <3> QED
      BY <2>1, <3>3 DEF S
  <2> QED
    BY <2>6, <2>7
<1>5. n \in S
  <2> HIDE DEF S
  <2>1. \A k \in 0..n : k \in S
    BY <1>2, <1>3, <1>4, AllUpTo
  <2>2. n \in 0..n
    BY <1>2
  <2> QED
    BY <2>1, <2>2
<1>6. Is(n, v(n))
  BY <1>5
<1> HIDE DEF J
<1> QED
  BY <1>1, <1>6 DEF J

(* Every message within another one came with one of its fields.           *)
Given(num, fs, v) == \A x \in DOMAIN v : \E j \in DOMAIN fs : fs[j].key \div 8 = num /\ fs[j].data = <<v[x]>>

LEMMA GivenStored ==
  ASSUME NEW kinds \in Seq(KindNames), NEW m, MessageFits(kinds, m), NEW fs, Sound(fs),
         NEW num \in DOMAIN kinds, kinds[num] \in {"message", "messages"}, m.field[num] = <<>>
  PROVE  /\ Given(num, fs, Stored(kinds, m, fs).field[num])
         /\ IsFiniteSet(Counting(kinds[num], num, fs, Len(fs)))
         /\ Len(Stored(kinds, m, fs).field[num])
              <= Cardinality(Counting(kinds[num], num, fs, Len(fs)))
<1> DEFINE n == Len(fs)
           kind == kinds[num]
           J(k) == Counting(kind, num, fs, k)
           Is(k, v) == /\ \A x \in DOMAIN v : \E j \in 1..k : /\ fs[j].key \div 8 = num
                                                            /\ fs[j].data = <<v[x]>>
                       /\ IsFiniteSet(J(k)) /\ Len(v) <= Cardinality(J(k))
<1>1. PICK f : Stores(f, kinds, m, fs) /\ Stored(kinds, m, fs) = f[n]
  BY StoredRuns
<1> DEFINE v(k) == f[k].field[num]
           S == {k \in 0..n : Is(k, v(k))}
<1>2. n \in Nat /\ DOMAIN fs = 1..n /\ \A k \in 1..n : WellFormed(fs[k])
  BY DEF Sound
<1>3. 0 \in S
  <2>1. v(0) = <<>> /\ J(0) = {} /\ DOMAIN <<>> = {} /\ Len(<<>>) = 0
    BY <1>1 DEF Stores, Counting
  <2>2. IsFiniteSet({}) /\ Cardinality({}) = 0
    BY FS_EmptySet
  <2> HIDE DEF v, J
  <2>3. DOMAIN v(0) = {} /\ Len(v(0)) <= Cardinality(J(0)) /\ IsFiniteSet(J(0))
    BY <2>1, <2>2
  <2>4. Is(0, v(0)) /\ 0 \in 0..n
    BY <1>2, <2>3
  <2> QED
    BY <2>4
<1>4. ASSUME NEW k \in 1..n, k - 1 \in S  PROVE k \in S
  <2> DEFINE g == fs[k]
             u == v(k - 1)
             w == v(k)
  <2>1. k - 1 \in 0..n /\ k \in 0..n
    BY <1>2
  <2>2. MessageFits(kinds, f[k - 1]) /\ f[k] = Store(kinds, f[k - 1], g) /\ WellFormed(g)
    BY <1>1, <1>2, <2>1 DEF Stores
  <2>3. w = IF num = g.key \div 8 THEN Values(kind, u, g) ELSE u
    BY <2>2, StoreFits
  <2>4. Is(k - 1, u)
    BY <1>4
  <2>5. kind \in {"message", "messages"} /\ u \in Seq(Seq(Nat))
    BY <2>2 DEF MessageFits
  <2> HIDE DEF u, w, S
  <2>6. CASE num = g.key \div 8 /\ g.data # <<>>
    <3> DEFINE d == g.data[1]
    <3>1. g.data = <<d>> /\ d \in Seq(Nat)
      <4>1. g.data \in Seq(Seq(Byte)) /\ Len(g.data) = 1
        BY <2>2, <2>6, FieldFacts DEF WellFormed
      <4> QED
        BY <4>1, OnlyOne, ByteSeq
    <3>2. w = <<d>> \/ w = u \o <<d>>
      <4>1. w = g.data \/ w = u \o g.data
        <5> HIDE DEF kind, g
        <5> QED
          BY <2>3, <2>5, <2>6 DEF Values
      <4> HIDE DEF d, g
      <4> QED
        BY <3>1, <4>1
    <3> HIDE DEF d
    <3>3. \A x \in DOMAIN w : w[x] = d \/ \E y \in DOMAIN u : w[x] = u[y]
      <4>1. CASE w = <<d>>
        BY <4>1
      <4>2. CASE w = u \o <<d>>
        <5>1. DOMAIN w = 1..(Len(u) + 1) /\ w[Len(u) + 1] = d /\ \A y \in 1..Len(u) : w[y] = u[y]
          BY <2>5, <3>1, <4>2
        <5>2. Len(u) \in Nat /\ DOMAIN u = 1..Len(u)
          BY <2>5
        <5>3. \A x \in 1..(Len(u) + 1) : x \in 1..Len(u) \/ x = Len(u) + 1
          BY <5>2
        <5> QED
          BY <5>1, <5>2, <5>3, Zenon
      <4> QED
        BY <3>2, <4>1, <4>2
    <3>4. \A x \in DOMAIN w : \E j \in 1..k : fs[j].key \div 8 = num /\ fs[j].data = <<w[x]>>
      <4> SUFFICES ASSUME NEW x \in DOMAIN w
                   PROVE  \E j \in 1..k : fs[j].key \div 8 = num /\ fs[j].data = <<w[x]>>
        OBVIOUS
      <4>1. CASE w[x] = d
        <5>1. k \in 1..k /\ fs[k].key \div 8 = num /\ fs[k].data = <<d>>
          BY <1>2, <2>6, <3>1
        <5> QED
          BY <4>1, <5>1
      <4>2. CASE \E y \in DOMAIN u : w[x] = u[y]
        <5>1. PICK y \in DOMAIN u : w[x] = u[y]
          BY <4>2
        <5>2. PICK j \in 1..(k - 1) : fs[j].key \div 8 = num /\ fs[j].data = <<u[y]>>
          BY <2>4
        <5>3. j \in 1..k
          BY <1>2
        <5> QED
          BY <5>1, <5>2, <5>3
      <4> QED
        BY <3>3, <4>1, <4>2
    <3>5. J(k) = J(k - 1) \cup {k} /\ k \notin J(k - 1)
      <4>1. \A j \in 1..k : j \in 1..(k - 1) \/ j = k
        BY <1>2
      <4>2. \A j \in 1..(k - 1) : j \in 1..k /\ j # k
        BY <1>2
      <4>3. k \in 1..k /\ fs[k].key \div 8 = num /\ Counts(kind, fs[k])
        BY <1>2, <2>6 DEF Counts
      <4> HIDE DEF kind
      <4> QED
        BY <4>1, <4>2, <4>3 DEF Counting
    <3> HIDE DEF J
    <3>6. IsFiniteSet(J(k)) /\ Cardinality(J(k)) = Cardinality(J(k - 1)) + 1 /\ Cardinality(J(k - 1)) \in Nat
      BY <2>4, <3>5, FS_AddElement, FS_CardinalityType
    <3>7. Len(w) <= Len(u) + 1 /\ Len(w) \in Nat /\ Len(u) \in Nat
      <4>1. Len(u) \in Nat
        BY <2>5
      <4>2. CASE w = <<d>>
        BY <4>1, <4>2
      <4>3. CASE w = u \o <<d>>
        BY <2>5, <3>1, <4>3
      <4> QED
        BY <3>2, <4>1, <4>2, <4>3
    <3>8. Len(w) <= Cardinality(J(k))
      BY <2>4, <3>6, <3>7
    <3> QED
      BY <2>1, <3>4, <3>6, <3>8 DEF S, w
  <2>7. CASE ~(num = g.key \div 8 /\ g.data # <<>>)
    <3>1. J(k) = J(k - 1)
      <4>1. \A j \in 1..k : j \in 1..(k - 1) \/ j = k
        BY <1>2
      <4>2. \A j \in 1..(k - 1) : j \in 1..k
        BY <1>2
      <4>3. ~(fs[k].key \div 8 = num /\ Counts(kind, fs[k]))
        BY <2>5, <2>7 DEF Counts
      <4> HIDE DEF kind
      <4> QED
        BY <4>1, <4>2, <4>3 DEF Counting
    <3>2. w = u
      <4>1. CASE num # g.key \div 8
        BY <2>3, <4>1
      <4>2. CASE g.data = <<>>
        <5>1. Values(kind, u, g) = u
          <6> HIDE DEF kind, g
          <6> QED
            BY <2>5, <4>2 DEF Values
        <5> QED
          BY <2>3, <5>1
      <4> QED
        BY <2>7, <4>1, <4>2
    <3>3. \A j \in 1..(k - 1) : j \in 1..k
      BY <1>2
    <3> HIDE DEF J
    <3>4. Is(k, w)
      BY <2>4, <3>1, <3>2, <3>3
    <3> QED
      BY <2>1, <3>4 DEF S, w
  <2> QED
    BY <2>6, <2>7
<1>5. n \in S
  <2> HIDE DEF S
  <2>1. \A k \in 0..n : k \in S
    BY <1>2, <1>3, <1>4, AllUpTo
  <2>2. n \in 0..n
    BY <1>2
  <2> QED
    BY <2>1, <2>2
<1>6. Is(n, v(n))
  BY <1>5
<1> HIDE DEF J
<1>7. Given(num, fs, v(n))
  BY <1>2, <1>6 DEF Given
<1> QED
  BY <1>1, <1>2, <1>6, <1>7 DEF J

(* Storing goes on where it stopped.                                       *)
LEMMA StoredNone ==
  ASSUME NEW kinds \in Seq(KindNames), NEW m, MessageFits(kinds, m)
  PROVE  Stored(kinds, m, <<>>) = m
<1>1. Sound(<<>>) /\ Len(<<>>) = 0
  BY DEF Sound
<1>2. PICK f : Stores(f, kinds, m, <<>>) /\ Stored(kinds, m, <<>>) = f[Len(<<>>)]
  BY <1>1, StoredRuns
<1> QED
  BY <1>1, <1>2 DEF Stores

LEMMA StoredFits ==
  ASSUME NEW kinds \in Seq(KindNames), NEW m, MessageFits(kinds, m), NEW fs, Sound(fs)
  PROVE  MessageFits(kinds, Stored(kinds, m, fs))
<1>1. PICK f : Stores(f, kinds, m, fs) /\ Stored(kinds, m, fs) = f[Len(fs)]
  BY StoredRuns
<1>2. Len(fs) \in 0..Len(fs)
  BY DEF Sound
<1> QED
  BY <1>1, <1>2 DEF Stores

LEMMA StoredAppend ==
  ASSUME NEW kinds \in Seq(KindNames), NEW m, MessageFits(kinds, m), NEW fs, Sound(fs),
         NEW g, WellFormed(g)
  PROVE  Stored(kinds, m, Append(fs, g)) = Store(kinds, Stored(kinds, m, fs), g)
<1> DEFINE n == Len(fs)
           gs == Append(fs, g)
<1>1. n \in Nat /\ fs \in Seq(Field) /\ g \in Field
  BY FieldFacts DEF Sound
<1>2. Len(gs) = n + 1 /\ gs[n + 1] = g /\ \A k \in 1..n : gs[k] = fs[k]
  BY <1>1
<1>3. Sound(gs)
  BY SoundAppend
<1> HIDE DEF gs
<1>4. PICK f : Stores(f, kinds, m, fs) /\ Stored(kinds, m, fs) = f[n]
  BY StoredRuns
<1>5. PICK h : Stores(h, kinds, m, gs) /\ Stored(kinds, m, gs) = h[n + 1]
  <2>1. PICK h : Stores(h, kinds, m, gs) /\ Stored(kinds, m, gs) = h[Len(gs)]
    BY <1>3, StoredRuns
  <2> QED
    BY <1>2, <2>1
<1> HIDE DEF n
<1>6. /\ h[0] = m /\ \A k \in 1..(n + 1) : h[k] = Store(kinds, h[k - 1], gs[k])
      /\ f[0] = m /\ \A k \in 1..n : f[k] = Store(kinds, f[k - 1], fs[k])
  BY <1>2, <1>4, <1>5 DEF Stores, n
<1> DEFINE S == {k \in 0..n : h[k] = f[k]}
<1>7. 0 \in S
  BY <1>1, <1>6
<1>8. ASSUME NEW k \in 1..n, k - 1 \in S  PROVE k \in S
  <2>1. k \in 1..(n + 1) /\ k \in 0..n /\ h[k - 1] = f[k - 1]
    BY <1>1, <1>8
  <2> QED
    BY <1>2, <1>6, <2>1
<1>9. h[n] = f[n]
  <2> HIDE DEF S
  <2>1. \A k \in 0..n : k \in S
    BY <1>1, <1>7, <1>8, AllUpTo
  <2>2. n \in 0..n
    BY <1>1
  <2> QED
    BY <2>1, <2>2 DEF S
<1>10. h[n + 1] = Store(kinds, h[n], g)
  <2>1. n + 1 \in 1..(n + 1) /\ (n + 1) - 1 = n
    BY <1>1
  <2> QED
    BY <1>2, <1>6, <2>1
<1> QED
  BY <1>4, <1>5, <1>9, <1>10 DEF gs

LEMMA SoundConcat ==
  ASSUME NEW s, Sound(s), NEW t, Sound(t)
  PROVE  /\ Sound(s \o t) /\ Len(s \o t) = Len(s) + Len(t) /\ Len(s) \in Nat /\ Len(t) \in Nat
         /\ \A k \in 1..Len(s) : (s \o t)[k] = s[k]
         /\ \A k \in 1..Len(t) : (s \o t)[Len(s) + k] = t[k]
<1>1. s \in Seq(Field) /\ t \in Seq(Field)
  BY DEF Sound
<1>2. /\ s \o t \in Seq(Field) /\ Len(s \o t) = Len(s) + Len(t)
      /\ \A k \in 1..Len(s) : (s \o t)[k] = s[k]
      /\ \A k \in 1..Len(t) : (s \o t)[Len(s) + k] = t[k]
  BY <1>1, ConcatType
<1> DEFINE u == s \o t
<1>3. Len(s) \in Nat /\ Len(t) \in Nat
  BY <1>1
<1>4. DOMAIN u = 1..(Len(s) + Len(t))
  BY <1>2
<1> HIDE DEF u
<1>5. ASSUME NEW k \in 1..(Len(s) + Len(t))  PROVE WellFormed(u[k])
  <2>1. CASE k \in 1..Len(s)
    BY <1>2, <2>1 DEF Sound, u
  <2>2. CASE k \notin 1..Len(s)
    <3>1. k - Len(s) \in 1..Len(t) /\ Len(s) + (k - Len(s)) = k
      BY <1>3, <2>2
    <3>2. u[k] = t[k - Len(s)]
      BY <1>2, <3>1 DEF u
    <3> QED
      BY <3>1, <3>2 DEF Sound
  <2> QED
    BY <2>1, <2>2
<1>6. Sound(u)
  BY <1>2, <1>4, <1>5 DEF Sound, u
<1> QED
  BY <1>2, <1>3, <1>6 DEF u

LEMMA PrefixSound ==
  ASSUME NEW t, Sound(t), NEW k \in 0..Len(t)
  PROVE  /\ Sound(SubSeq(t, 1, k))
         /\ k # 0 => SubSeq(t, 1, k) = Append(SubSeq(t, 1, k - 1), t[k])
         /\ SubSeq(t, 1, 0) = <<>> /\ SubSeq(t, 1, Len(t)) = t
<1>1. t \in Seq(Field) /\ Len(t) \in Nat /\ DOMAIN t = 1..Len(t)
  BY DEF Sound
<1> DEFINE s == SubSeq(t, 1, k)
<1>2. s \in Seq(Field) /\ DOMAIN s = 1..k /\ \A i \in 1..k : s[i] = t[i]
  BY <1>1
<1> HIDE DEF s
<1>3. \A i \in 1..k : i \in 1..Len(t)
  BY <1>1
<1>4. Sound(s)
  BY <1>1, <1>2, <1>3 DEF Sound
<1>5. k # 0 => SubSeq(t, 1, k) = Append(SubSeq(t, 1, k - 1), t[k])
  <2> SUFFICES ASSUME k # 0  PROVE SubSeq(t, 1, k) = Append(SubSeq(t, 1, k - 1), t[k])
    OBVIOUS
  <2>1. k \in 1..Len(t)
    BY <1>1
  <2> QED
    BY <1>1, <2>1, PrefixNext
<1>6. SubSeq(t, 1, 0) = <<>> /\ SubSeq(t, 1, Len(t)) = t
  BY <1>1
<1> QED
  BY <1>4, <1>5, <1>6 DEF s

LEMMA StoredConcat ==
  ASSUME NEW kinds \in Seq(KindNames), NEW m, MessageFits(kinds, m),
         NEW s, Sound(s), NEW t, Sound(t)
  PROVE  Stored(kinds, m, s \o t) = Stored(kinds, Stored(kinds, m, s), t)
<1> DEFINE n == Len(t)
           x == Stored(kinds, m, s)
           T(k) == SubSeq(t, 1, k)
           S == {k \in 0..n : Stored(kinds, m, s \o T(k)) = Stored(kinds, x, T(k))}
<1>1. n \in Nat /\ s \in Seq(Field) /\ t \in Seq(Field) /\ \A k \in 1..n : WellFormed(t[k])
  BY DEF Sound
<1>2. MessageFits(kinds, x)
  BY StoredFits
<1>3. \A k \in 0..n : Sound(T(k))
  BY PrefixSound
<1>4. \A k \in 1..n : T(k) = Append(T(k - 1), t[k])
  <2> TAKE k \in 1..n
  <2>1. k \in 0..n /\ k # 0
    BY <1>1
  <2> QED
    BY <2>1, PrefixSound
<1>5. T(0) = <<>> /\ T(n) = t
  <2>1. 0 \in 0..n
    BY <1>1
  <2> QED
    BY <2>1, PrefixSound
<1> HIDE DEF T, x, n
<1>6. 0 \in S
  <2>1. s \o T(0) = s
    BY <1>1, <1>5
  <2>2. Stored(kinds, x, T(0)) = x
    BY <1>2, <1>5, StoredNone
  <2>3. Stored(kinds, m, s \o T(0)) = Stored(kinds, x, T(0))
    BY <2>1, <2>2, Zenon DEF x
  <2> QED
    BY <1>1, <2>3
<1>7. ASSUME NEW k \in 1..n, k - 1 \in S  PROVE k \in S
  <2>1. k - 1 \in 0..n /\ k \in 0..n
    BY <1>1
  <2>2. Sound(T(k - 1)) /\ WellFormed(t[k]) /\ T(k) = Append(T(k - 1), t[k])
    BY <1>1, <1>3, <1>4, <2>1
  <2>3. s \o Append(T(k - 1), t[k]) = Append(s \o T(k - 1), t[k])
    <3>1. T(k - 1) \in Seq(Field) /\ t[k] \in Field
      BY <2>2, FieldFacts DEF Sound
    <3> QED
      BY <1>1, <3>1
  <2>4. Sound(s \o T(k - 1))
    BY <2>2, SoundConcat
  <2>5. Stored(kinds, m, s \o T(k)) = Store(kinds, Stored(kinds, m, s \o T(k - 1)), t[k])
    <3> DEFINE y == s \o T(k - 1)
    <3> HIDE DEF y
    <3>1. Stored(kinds, m, Append(y, t[k])) = Store(kinds, Stored(kinds, m, y), t[k])
      BY <2>2, <2>4, StoredAppend DEF y
    <3>2. s \o T(k) = Append(y, t[k])
      BY <2>2, <2>3, Zenon DEF y
    <3> QED
      BY <3>1, <3>2, Zenon DEF y
  <2>6. Stored(kinds, x, T(k)) = Store(kinds, Stored(kinds, x, T(k - 1)), t[k])
    BY <1>2, <2>2, StoredAppend
  <2>7. Stored(kinds, m, s \o T(k - 1)) = Stored(kinds, x, T(k - 1))
    BY <1>7
  <2> QED
    BY <2>1, <2>5, <2>6, <2>7
<1>8. n \in S
  <2> HIDE DEF S
  <2>1. \A k \in 0..n : k \in S
    BY <1>1, <1>6, <1>7, AllUpTo
  <2>2. n \in 0..n
    BY <1>1
  <2> QED
    BY <2>1, <2>2
<1> QED
  BY <1>5, <1>8 DEF x

-----------------------------------------------------------------------------
(* What is serialised is read back.                                        *)
LEMMA FieldOfIs ==
  ASSUME NEW kind \in KindNames, NEW num \in Nat, NEW v \in Seq(Nat), ValueFits(kind, v)
  PROVE  /\ WellFormed(FieldOf(kind, num, v)) /\ FieldOf(kind, num, v).key \div 8 = num
         /\ kind \in {"int", "uint32"} => v = <<FieldOf(kind, num, v).int>>
         /\ kind \notin {"int", "uint32"} =>
              v \in Seq(Byte) /\ FieldOf(kind, num, v).data = <<v>> /\ FieldOf(kind, num, v).data # <<>>
<1> DEFINE f == FieldOf(kind, num, v)
<1>1. (num * 8 + 0) \div 8 = num /\ (num * 8 + 0) % 8 = 0 /\ num * 8 + 0 \in Nat
      /\ (num * 8 + 2) \div 8 = num /\ (num * 8 + 2) % 8 = 2 /\ num * 8 + 2 \in Nat
  OBVIOUS
<1>2. <<>> \in Seq(Seq(Byte))
  OBVIOUS
<1>3. CASE kind \in {"int", "uint32"}
  <2>1. Len(v) = 1
    BY <1>3 DEF ValueFits
  <2>2. v[1] \in Nat /\ v = <<v[1]>>
    BY <2>1, OnlyOne
  <2> DEFINE i == v[1]
  <2> HIDE DEF i
  <2>3. f = [key |-> num * 8 + 0, int |-> i, data |-> <<>>]
    BY <1>3 DEF FieldOf, ProtoBufSetInt, AField, PROTOBUF_VARINT, i
  <2>4. f \in Field /\ f.key % 8 = 0 /\ f.key \div 8 = num /\ f.data = <<>> /\ f.int = i
    <3>1. i \in Nat
      BY <2>2 DEF i
    <3> HIDE DEF f
    <3> QED
      BY <1>1, <1>2, <2>3, <3>1 DEF Field
  <2> HIDE DEF f
  <2>5. WellFormed(f)
    BY <2>4 DEF WellFormed, PROTOBUF_VARINT, PROTOBUF_64BIT, PROTOBUF_LENDELIM, PROTOBUF_32BIT
  <2> QED
    BY <1>3, <2>2, <2>4, <2>5 DEF f, i
<1>4. CASE kind \notin {"int", "uint32"}
  <2>1. v \in Seq(Byte)
    BY <1>4 DEF ValueFits, KindNames
  <2>2. <<v>> \in Seq(Seq(Byte)) /\ Len(<<v>>) = 1 /\ <<v>> # <<>>
    BY <2>1
  <2>3. f = [key |-> num * 8 + 2, int |-> 0, data |-> <<v>>]
    BY <1>4 DEF FieldOf, ProtoBufSetBytes, AField, PROTOBUF_LENDELIM
  <2> HIDE DEF f
  <2>4. f \in Field /\ f.key % 8 = 2 /\ f.key \div 8 = num /\ f.data = <<v>> /\ f.int = 0
    BY <1>1, <2>2, <2>3 DEF Field
  <2>5. WellFormed(f)
    BY <2>2, <2>4 DEF WellFormed, PROTOBUF_VARINT, PROTOBUF_64BIT, PROTOBUF_LENDELIM, PROTOBUF_32BIT
  <2> QED
    BY <1>4, <2>1, <2>2, <2>4, <2>5 DEF f
<1> QED
  BY <1>3, <1>4

LEMMA ValueBack ==
  ASSUME NEW kind \in KindNames, NEW num \in Nat, NEW values, Fits(kind, values),
         NEW k \in DOMAIN values
  PROVE  Values(kind, SubSeq(values, 1, k - 1), FieldOf(kind, num, values[k])) = SubSeq(values, 1, k)
<1> DEFINE v == values[k]
           f == FieldOf(kind, num, v)
           before == SubSeq(values, 1, k - 1)
<1>1. /\ values \in Seq(Seq(Nat)) /\ Len(values) \in Nat /\ DOMAIN values = 1..Len(values)
      /\ v \in Seq(Nat) /\ ValueFits(kind, v)
  BY DEF Fits
<1>2. ASSUME kind # "messages"  PROVE SubSeq(values, 1, k) = <<v>>
  <2>1. Len(values) = 1 /\ k = 1
    BY <1>1, <1>2 DEF Fits
  <2>2. values = <<values[1]>> /\ SubSeq(values, 1, 1) = values
    BY <1>1, <2>1, OnlyOne
  <2> QED
    BY <2>1, <2>2
<1>3. /\ kind \in {"int", "uint32"} => v = <<f.int>>
      /\ kind \notin {"int", "uint32"} => v \in Seq(Byte) /\ f.data = <<v>> /\ f.data # <<>>
  BY <1>1, FieldOfIs
<1>4. CASE kind = "messages"
  <2>1. before \o <<v>> = SubSeq(values, 1, k)
    <3>1. Append(before, v) = SubSeq(values, 1, k)
      BY <1>1, PrefixNext
    <3>2. before \in Seq(Seq(Nat))
      BY <1>1
    <3>3. before \o <<v>> = Append(before, v)
      <4> HIDE DEF before, v
      <4> QED
        BY <1>1, <3>2
    <3> QED
      BY <3>1, <3>3
  <2>2. f.data = <<v>> /\ f.data # <<>>
    BY <1>3, <1>4
  <2> HIDE DEF f, v, before
  <2>3. Values("messages", before, f) = before \o f.data
    BY <2>2 DEF Values
  <2> QED
    BY <1>4, <2>1, <2>2, <2>3 DEF f, v, before
<1>5. CASE kind # "messages"
  <2>1. Values(kind, before, f) = <<v>>
    <3> HIDE DEF f, v, before
    <3>1. CASE kind = "int"
      BY <1>3, <3>1 DEF Values, OneInt
    <3>2. CASE kind = "uint32"
      <4>1. f.int < Span(W32) /\ f.int \in Nat
        <5>1. Len(v) = 1 /\ v[1] < Span(W32) /\ v \in Seq(Nat)
          BY <1>1, <3>2 DEF ValueFits
        <5>2. v[1] \in Nat
          BY <5>1
        <5>3. v[1] = f.int
          BY <1>3, <3>2
        <5> QED
          BY <5>1, <5>2, <5>3
      <4>2. Span(W32) \in Nat
        BY WidthAssumption, SpanStep
      <4>3. f.int % Span(W32) = f.int
        BY <4>1, <4>2, SmallMod
      <4> QED
        BY <1>3, <3>2, <4>3 DEF Values, OneInt
    <3>3. CASE kind = "pubkey"
      <4>1. IsKey(v) /\ f.data = <<v>> /\ f.data # <<>> /\ <<v>>[1] = v
        BY <1>1, <1>3, <3>3 DEF ValueFits
      <4>2. Values(kind, before, f) = f.data
        BY <3>3, <4>1, Zenon DEF Values
      <4> QED
        BY <4>1, <4>2
    <3>4. CASE kind = "string"
      <4>1. v \in Seq(Byte) /\ (\A i \in DOMAIN v : v[i] # 0) /\ f.data = <<v>> /\ f.data # <<>> /\ f.data[1] = v
        BY <1>1, <1>3, <3>4 DEF ValueFits
      <4>2. ProtoBufString(v) = v
        BY <4>1, StringFacts
      <4> QED
        BY <3>4, <4>1, <4>2 DEF Values
    <3>5. CASE kind \in {"bytes", "script", "message"}
      BY <1>3, <3>5 DEF Values
    <3> QED
      BY <1>5, <3>1, <3>2, <3>3, <3>4, <3>5 DEF KindNames
  <2> QED
    BY <1>2, <1>5, <2>1
<1> QED
  BY <1>4, <1>5

LEMMA BlankFits ==
  ASSUME NEW kinds \in Seq(KindNames)
  PROVE  /\ MessageFits(kinds, Blank(kinds)) /\ Blank(kinds).unknown = <<>>
         /\ \A num \in DOMAIN kinds : Blank(kinds).field[num] = <<>>
<1> DEFINE m == Blank(kinds)
<1>1. m = [field |-> [num \in DOMAIN kinds |-> <<>>], unknown |-> <<>>]
  BY DEF Blank, Message
<1> HIDE DEF m
<1>2. /\ m = [field |-> m.field, unknown |-> m.unknown] /\ m.unknown = <<>>
      /\ m.field = [num \in DOMAIN kinds |-> m.field[num]]
      /\ \A num \in DOMAIN kinds : m.field[num] = <<>>
  BY <1>1
<1>3. \A num \in DOMAIN kinds : Fits(kinds[num], m.field[num])
  BY <1>2, NoneFits
<1>4. Sound(m.unknown) /\ DOMAIN m.unknown = {}
  BY <1>2 DEF Sound
<1>5. \A k \in DOMAIN m.unknown : m.unknown[k].key \div 8 \notin DOMAIN kinds
  BY <1>4
<1>6. MessageFits(kinds, m)
  BY <1>2, <1>3, <1>4, <1>5, FitsMeans, Zenon
<1> QED
  BY <1>2, <1>6 DEF m

(* The message with its first fields, up to and with a number.             *)
UpTo(kinds, m, num) ==
  [field |-> [i \in DOMAIN kinds |-> IF i <= num THEN m.field[i] ELSE <<>>], unknown |-> <<>>]
Row(kinds, m, num) ==
  [k \in DOMAIN m.field[num] |-> FieldOf(kinds[num], num, m.field[num][k])]

LEMMA UpToFits ==
  ASSUME NEW kinds \in Seq(KindNames), NEW m, MessageFits(kinds, m), NEW num \in Nat
  PROVE  /\ MessageFits(kinds, UpTo(kinds, m, num)) /\ UpTo(kinds, m, num).unknown = <<>>
         /\ \A i \in DOMAIN kinds :
              UpTo(kinds, m, num).field[i] = IF i <= num THEN m.field[i] ELSE <<>>
<1> DEFINE r == UpTo(kinds, m, num)
<1>1. /\ r = [field |-> r.field, unknown |-> r.unknown] /\ r.unknown = <<>>
      /\ r.field = [i \in DOMAIN kinds |-> r.field[i]]
      /\ \A i \in DOMAIN kinds : r.field[i] = IF i <= num THEN m.field[i] ELSE <<>>
  BY DEF UpTo
<1> HIDE DEF r
<1>2. \A i \in DOMAIN kinds : Fits(kinds[i], m.field[i]) /\ Fits(kinds[i], <<>>)
  <2>1. \A i \in DOMAIN kinds : Fits(kinds[i], m.field[i])
    BY FitsMeans, Zenon
  <2>2. \A i \in DOMAIN kinds : Fits(kinds[i], <<>>)
    BY NoneFits
  <2> QED
    BY <2>1, <2>2
<1>3. \A i \in DOMAIN kinds : Fits(kinds[i], r.field[i])
  BY <1>1, <1>2
<1>4. Sound(r.unknown) /\ DOMAIN r.unknown = {}
  BY <1>1 DEF Sound
<1>5. \A k \in DOMAIN r.unknown : r.unknown[k].key \div 8 \notin DOMAIN kinds
  BY <1>4
<1>6. MessageFits(kinds, r)
  BY <1>1, <1>3, <1>4, <1>5, FitsMeans, Zenon
<1> QED
  BY <1>1, <1>6 DEF r

LEMMA RowIs ==
  ASSUME NEW kinds \in Seq(KindNames), NEW m, MessageFits(kinds, m), NEW num \in DOMAIN kinds
  PROVE  /\ Sound(Row(kinds, m, num)) /\ Len(Row(kinds, m, num)) = Len(m.field[num])
         /\ Len(m.field[num]) \in Nat /\ DOMAIN m.field[num] = 1..Len(m.field[num])
         /\ \A k \in DOMAIN m.field[num] :
              /\ Row(kinds, m, num)[k] = FieldOf(kinds[num], num, m.field[num][k])
              /\ Row(kinds, m, num)[k].key \div 8 = num
              /\ m.field[num][k] \in Seq(Nat) /\ ValueFits(kinds[num], m.field[num][k])
<1> DEFINE values == m.field[num]
           kind == kinds[num]
           row == Row(kinds, m, num)
<1>1. Fits(kind, values)
  BY FitsMeans, Zenon
<1>2. kind \in KindNames /\ num \in Nat
  OBVIOUS
<1>3. row = [k \in DOMAIN values |-> FieldOf(kind, num, values[k])]
  BY DEF Row
<1> HIDE DEF values, kind, row
<1>4. /\ values \in Seq(Seq(Nat)) /\ Len(values) \in Nat /\ DOMAIN values = 1..Len(values)
      /\ \A k \in DOMAIN values : values[k] \in Seq(Nat) /\ ValueFits(kind, values[k])
  BY <1>1 DEF Fits
<1>5. \A k \in DOMAIN values : /\ WellFormed(row[k]) /\ row[k].key \div 8 = num
                              /\ row[k] = FieldOf(kind, num, values[k])
  BY <1>2, <1>3, <1>4, FieldOfIs
<1>6. \A k \in DOMAIN values : row[k] \in Field
  BY <1>5, FieldFacts
<1>7. row \in Seq(Field) /\ Len(row) = Len(values) /\ DOMAIN row = DOMAIN values
  <2> DEFINE n == Len(values)
  <2>1. row \in [1..n -> Field] /\ n \in Nat /\ DOMAIN values = 1..n
    BY <1>3, <1>4, <1>6
  <2> HIDE DEF n
  <2>2. row \in Seq(Field) /\ Len(row) = n /\ DOMAIN row = 1..n
    BY <2>1
  <2> QED
    BY <2>1, <2>2 DEF n
<1>8. Sound(row)
  BY <1>5, <1>7 DEF Sound
<1> QED
  BY <1>4, <1>5, <1>7, <1>8 DEF row, values, kind

LEMMA RowStored ==
  ASSUME NEW kinds \in Seq(KindNames), NEW m, MessageFits(kinds, m), NEW num \in DOMAIN kinds
  PROVE  Stored(kinds, UpTo(kinds, m, num - 1), Row(kinds, m, num)) = UpTo(kinds, m, num)
<1> DEFINE values == m.field[num]
           kind == kinds[num]
           row == Row(kinds, m, num)
           n == Len(values)
           D == DOMAIN kinds
           x == UpTo(kinds, m, num - 1)
           part(k) == [field |-> [i \in D |-> IF i = num THEN SubSeq(values, 1, k) ELSE x.field[i]],
                       unknown |-> <<>>]
           S == {k \in 0..n : Stored(kinds, x, SubSeq(row, 1, k)) = part(k)}
<1>1. /\ Sound(row) /\ Len(row) = n /\ n \in Nat /\ DOMAIN values = 1..n
      /\ \A k \in 1..n : row[k] = FieldOf(kind, num, values[k]) /\ row[k].key \div 8 = num
  BY RowIs
<1>2. num \in Nat /\ num - 1 \in Nat /\ kind \in KindNames /\ Fits(kind, values)
  <2>1. Fits(kind, values)
    BY FitsMeans, Zenon
  <2> QED
    BY <2>1
<1>3. /\ MessageFits(kinds, x) /\ x.unknown = <<>>
      /\ \A i \in D : x.field[i] = IF i <= num - 1 THEN m.field[i] ELSE <<>>
  BY <1>2, UpToFits
<1>4. /\ x = [field |-> x.field, unknown |-> x.unknown]
      /\ x.field = [i \in D |-> x.field[i]]
  BY <1>3, FitsMeans, Zenon
<1>5. num \in D /\ x.field[num] = <<>>
  BY <1>2, <1>3
<1> HIDE DEF x, values, kind, row, n, D
<1>6. 0 \in S
  <2>1. SubSeq(values, 1, 0) = <<>>
    BY <1>2 DEF Fits
  <2>2. SubSeq(row, 1, 0) = <<>>
    BY <1>1 DEF Sound
  <2>3. Stored(kinds, x, SubSeq(row, 1, 0)) = x
    BY <1>3, <2>2, StoredNone
  <2>4. part(0) = x
    <3>1. \A i \in D : (IF i = num THEN SubSeq(values, 1, 0) ELSE x.field[i]) = x.field[i]
      BY <1>5, <2>1
    <3>2. [i \in D |-> IF i = num THEN SubSeq(values, 1, 0) ELSE x.field[i]] = [i \in D |-> x.field[i]]
      BY <3>1
    <3> QED
      BY <1>3, <1>4, <3>2
  <2> HIDE DEF part
  <2> QED
    BY <1>1, <2>3, <2>4
<1>7. ASSUME NEW k \in 1..n, k - 1 \in S  PROVE k \in S
  <2> DEFINE s == SubSeq(row, 1, k - 1)
             f == row[k]
             y == Stored(kinds, x, s)
             r == Store(kinds, y, f)
  <2>1. k \in 0..Len(row) /\ k # 0 /\ k - 1 \in 0..Len(row) /\ k \in 0..n
    BY <1>1
  <2>2. Sound(s) /\ WellFormed(f) /\ SubSeq(row, 1, k) = Append(s, f)
    <3>1. WellFormed(f)
      BY <1>1 DEF Sound
    <3> QED
      BY <1>1, <2>1, <3>1, PrefixSound
  <2>3. Stored(kinds, x, SubSeq(row, 1, k)) = r /\ MessageFits(kinds, y)
    <3> HIDE DEF s, f
    <3>1. Stored(kinds, x, Append(s, f)) = Store(kinds, Stored(kinds, x, s), f)
      BY <1>3, <2>2, StoredAppend
    <3>2. MessageFits(kinds, Stored(kinds, x, s))
      BY <1>3, <2>2, StoredFits
    <3> QED
      BY <2>2, <3>1, <3>2, Zenon
  <2>4. y = part(k - 1)
    BY <1>7
  <2> HIDE DEF y
  <2>5. /\ y.unknown = <<>>
        /\ \A i \in D : y.field[i] = IF i = num THEN SubSeq(values, 1, k - 1) ELSE x.field[i]
    BY <2>4
  <2> HIDE DEF s, f
  <2>6. f.key \div 8 = num /\ f = FieldOf(kind, num, values[k])
    BY <1>1 DEF f
  <2>7. /\ MessageFits(kinds, r)
        /\ \A i \in D : r.field[i] = IF i = num THEN Values(kinds[i], y.field[i], f) ELSE y.field[i]
        /\ r.unknown = y.unknown
    <3>1. /\ MessageFits(kinds, r)
          /\ \A i \in DOMAIN kinds :
               r.field[i] = IF i = f.key \div 8 THEN Values(kinds[i], y.field[i], f) ELSE y.field[i]
          /\ r.unknown = IF f.key \div 8 \in DOMAIN kinds THEN y.unknown ELSE ProtoBufUnknown(y.unknown, f)
      <4> HIDE DEF r
      <4> QED
        BY <2>2, <2>3, StoreFits DEF r
    <3> HIDE DEF r
    <3> QED
      BY <1>5, <2>6, <3>1 DEF D
  <2> HIDE DEF r
  <2>8. Values(kind, SubSeq(values, 1, k - 1), f) = SubSeq(values, 1, k)
    BY <1>1, <1>2, <2>6, ValueBack
  <2>9. \A i \in D : r.field[i] = IF i = num THEN SubSeq(values, 1, k) ELSE x.field[i]
    BY <1>5, <2>5, <2>7, <2>8 DEF kind
  <2>10. r = [field |-> [i \in D |-> r.field[i]], unknown |-> <<>>]
    <3>1. r = [field |-> r.field, unknown |-> r.unknown] /\ r.field = [i \in D |-> r.field[i]]
      BY <2>7, FitsMeans, Zenon DEF D
    <3> QED
      BY <2>5, <2>7, <3>1, Zenon
  <2>11. r = part(k)
    <3>1. [i \in D |-> r.field[i]] = [i \in D |-> IF i = num THEN SubSeq(values, 1, k) ELSE x.field[i]]
      BY <2>9
    <3> QED
      BY <2>10, <3>1
  <2> HIDE DEF part
  <2> QED
    BY <2>1, <2>3, <2>11
<1>8. n \in S
  <2> HIDE DEF S
  <2>1. \A k \in 0..n : k \in S
    BY <1>1, <1>6, <1>7, AllUpTo
  <2>2. n \in 0..n
    BY <1>1
  <2> QED
    BY <2>1, <2>2
<1>9. SubSeq(row, 1, n) = row /\ SubSeq(values, 1, n) = values
  <2>1. SubSeq(row, 1, Len(row)) = row
    <3>1. 0 \in 0..Len(row)
      BY <1>1
    <3> QED
      BY <1>1, <3>1, PrefixSound
  <2>2. values \in Seq(Seq(Nat))
    BY <1>2 DEF Fits
  <2>3. SubSeq(values, 1, n) = values
    BY <2>2 DEF n
  <2> QED
    BY <1>1, <2>1, <2>3
<1>10. part(n) = UpTo(kinds, m, num)
  <2>1. \A i \in D : (IF i = num THEN values ELSE x.field[i]) = IF i <= num THEN m.field[i] ELSE <<>>
    <3> TAKE i \in D
    <3>1. i \in Nat /\ num \in Nat
      BY <1>2 DEF D
    <3>2. CASE i = num
      BY <3>1, <3>2 DEF values
    <3>3. CASE i # num
      <4>1. i <= num - 1 <=> i <= num
        BY <3>1, <3>3
      <4> QED
        BY <1>3, <3>3, <4>1
    <3> QED
      BY <3>2, <3>3
  <2>2. [i \in D |-> IF i = num THEN values ELSE x.field[i]]
          = [i \in D |-> IF i <= num THEN m.field[i] ELSE <<>>]
    BY <2>1
  <2> QED
    BY <1>9, <2>2 DEF UpTo, D
<1> QED
  BY <1>8, <1>9, <1>10 DEF x, row

(* The fields of a message, read again, are what it had.                   *)
OneOf(kinds, m, k, g) ==
  \E num \in 1..k : \E x \in DOMAIN m.field[num] : g = FieldOf(kinds[num], num, m.field[num][x])

LEMMA KnownStored ==
  ASSUME NEW kinds \in Seq(KindNames), NEW m, MessageFits(kinds, m)
  PROVE  /\ Sound(KnownFields(kinds, m))
         /\ Stored(kinds, Blank(kinds), KnownFields(kinds, m)) = Message(m.field)
         /\ \A k \in DOMAIN KnownFields(kinds, m) :
              OneOf(kinds, m, Len(kinds), KnownFields(kinds, m)[k])
<1> DEFINE n == Len(kinds)
           rows == [num \in DOMAIN kinds |-> Row(kinds, m, num)]
           None == Blank(kinds)
           All(s, k) == \A x \in DOMAIN s : OneOf(kinds, m, k, s[x])
<1>1. n \in Nat /\ DOMAIN kinds = 1..n
  OBVIOUS
<1>2. \A num \in 1..n : Sound(Row(kinds, m, num)) /\ Row(kinds, m, num) \in Seq(Field)
  <2>1. \A num \in 1..n : Sound(Row(kinds, m, num))
    BY <1>1, RowIs
  <2> QED
    BY <2>1 DEF Sound
<1>3. rows \in Seq(Seq(Field)) /\ Len(rows) = n /\ \A num \in 1..n : rows[num] = Row(kinds, m, num)
  <2>1. rows = [num \in 1..n |-> Row(kinds, m, num)]
    BY <1>1
  <2>2. rows \in [1..n -> Seq(Field)]
    BY <1>2, <2>1
  <2> QED
    BY <1>1, <2>1, <2>2
<1>4. KnownFields(kinds, m) = FlattenSeq(rows)
  BY DEF KnownFields, Row
<1> HIDE DEF rows
<1>5. PICK f : Accumulates(f, rows, Field) /\ FlattenSeq(rows) = f[n]
  <2>1. \E f : Accumulates(f, rows, Field) /\ FlattenSeq(rows) = f[Len(rows)]
    BY <1>3, FlattenPrefixes
  <2> QED
    BY <1>3, <2>1
<1>6. f[0] = <<>> /\ \A k \in 1..n : f[k] = f[k - 1] \o Row(kinds, m, k)
  BY <1>3, <1>5 DEF Accumulates
<1>7. MessageFits(kinds, None)
  BY BlankFits
<1>8. None = UpTo(kinds, m, 0) /\ UpTo(kinds, m, n) = Message(m.field)
  <2>1. \A i \in DOMAIN kinds : i \in Nat /\ ~(i <= 0) /\ i <= n
    BY <1>1
  <2>2. [i \in DOMAIN kinds |-> IF i <= 0 THEN m.field[i] ELSE <<>>] = [i \in DOMAIN kinds |-> <<>>]
    BY <2>1
  <2>3. [i \in DOMAIN kinds |-> IF i <= n THEN m.field[i] ELSE <<>>] = [i \in DOMAIN kinds |-> m.field[i]]
    BY <2>1
  <2>4. m.field = [i \in DOMAIN kinds |-> m.field[i]]
    BY FitsMeans, Zenon
  <2>5. None = UpTo(kinds, m, 0)
    BY <2>2 DEF UpTo, Blank, Message
  <2>6. UpTo(kinds, m, n) = Message(m.field)
    <3> HIDE DEF n
    <3> QED
      BY <2>3, <2>4 DEF UpTo, Message
  <2> QED
    BY <2>5, <2>6
<1> HIDE DEF None, All
<1> DEFINE S == {k \in 0..n : /\ Sound(f[k])
                              /\ Stored(kinds, None, f[k]) = UpTo(kinds, m, k)
                              /\ All(f[k], k)}
<1> HIDE DEF n
<1>9. 0 \in S
  <2>1. Sound(<<>>) /\ All(<<>>, 0)
    BY DEF Sound, All
  <2>2. Stored(kinds, None, <<>>) = None
    BY <1>7, StoredNone
  <2> QED
    BY <1>1, <1>6, <1>8, <2>1, <2>2
<1>10. ASSUME NEW k \in 1..n, k - 1 \in S  PROVE k \in S
  <2> DEFINE s == f[k - 1]
             row == Row(kinds, m, k)
  <2>1. /\ Sound(s) /\ Stored(kinds, None, s) = UpTo(kinds, m, k - 1) /\ All(s, k - 1)
        /\ k \in DOMAIN kinds /\ k \in 0..n /\ k \in Nat
    BY <1>1, <1>10
  <2>2. f[k] = s \o row /\ Sound(row)
    BY <1>2, <1>6
  <2>3. \A x \in DOMAIN row : x \in DOMAIN m.field[k] /\ row[x] = FieldOf(kinds[k], k, m.field[k][x])
    BY DEF Row
  <2> HIDE DEF s, row
  <2>4. Stored(kinds, None, s \o row) = Stored(kinds, Stored(kinds, None, s), row)
    BY <1>7, <2>1, <2>2, StoredConcat
  <2>5. Stored(kinds, UpTo(kinds, m, k - 1), row) = UpTo(kinds, m, k)
    BY <2>1, RowStored DEF row
  <2>6. /\ Sound(s \o row) /\ Len(s \o row) = Len(s) + Len(row) /\ Len(s) \in Nat /\ Len(row) \in Nat
        /\ \A x \in 1..Len(s) : (s \o row)[x] = s[x]
        /\ \A x \in 1..Len(row) : (s \o row)[Len(s) + x] = row[x]
        /\ DOMAIN (s \o row) = 1..Len(s \o row) /\ DOMAIN s = 1..Len(s) /\ DOMAIN row = 1..Len(row)
    <3>1. Sound(s \o row)
      BY <2>1, <2>2, SoundConcat
    <3>2. /\ DOMAIN (s \o row) = 1..Len(s \o row) /\ DOMAIN s = 1..Len(s) /\ DOMAIN row = 1..Len(row)
      BY <2>1, <2>2, <3>1 DEF Sound
    <3> QED
      BY <2>1, <2>2, <3>2, SoundConcat
  <2> DEFINE r == s \o row
             a == Len(s)
             b == Len(row)
  <2> HIDE DEF r, a, b
  <2>7. All(r, k)
    <3> SUFFICES ASSUME NEW x \in DOMAIN r  PROVE OneOf(kinds, m, k, r[x])
      BY DEF All
    <3>1. x \in 1..(a + b) /\ a \in Nat /\ b \in Nat
      BY <2>6 DEF r, a, b
    <3>2. CASE x <= a
      <4>1. x \in DOMAIN s /\ r[x] = s[x]
        BY <2>6, <3>1, <3>2 DEF r, a
      <4>2. OneOf(kinds, m, k - 1, s[x])
        BY <2>1, <4>1 DEF All
      <4>3. 1..(k - 1) \subseteq 1..k
        BY <2>1
      <4> QED
        BY <4>1, <4>2, <4>3 DEF OneOf
    <3>3. CASE ~(x <= a)
      <4>1. x - a \in 1..b /\ x = a + (x - a)
        BY <3>1, <3>3
      <4>2. r[x] = row[x - a] /\ x - a \in DOMAIN row
        BY <2>6, <4>1 DEF r, a, b
      <4>3. k \in 1..k
        BY <2>1
      <4> QED
        BY <2>3, <4>2, <4>3 DEF OneOf
    <3> QED
      BY <3>2, <3>3
  <2> QED
    BY <2>1, <2>2, <2>4, <2>5, <2>6, <2>7 DEF r
<1>11. n \in S
  <2> HIDE DEF S
  <2>1. \A k \in 0..n : k \in S
    BY <1>1, <1>9, <1>10, AllUpTo
  <2>2. n \in 0..n
    BY <1>1
  <2> QED
    BY <2>1, <2>2
<1> QED
  BY <1>4, <1>5, <1>8, <1>11 DEF None, All, n

(* A message that is written and read again.                               *)
Whereof(kinds, m) == KnownFields(kinds, m) \o m.unknown

LEMMA WhereofIs ==
  ASSUME NEW kinds \in Seq(KindNames), NEW m, MessageFits(kinds, m)
  PROVE  /\ Sound(Whereof(kinds, m)) /\ Serialized(kinds, m) \in Seq(Byte)
         /\ Serialized(kinds, m) = Written(Whereof(kinds, m))
         /\ FieldsFrom(Serialized(kinds, m)) = Whereof(kinds, m)
         /\ \A x \in DOMAIN m.unknown :
              /\ Len(KnownFields(kinds, m)) + x \in DOMAIN Whereof(kinds, m)
              /\ Whereof(kinds, m)[Len(KnownFields(kinds, m)) + x] = m.unknown[x]
         /\ \A k \in DOMAIN Whereof(kinds, m) :
              \/ OneOf(kinds, m, Len(kinds), Whereof(kinds, m)[k])
              \/ \E x \in DOMAIN m.unknown : Whereof(kinds, m)[k] = m.unknown[x]
<1> DEFINE known == KnownFields(kinds, m)
           u == m.unknown
           a == Len(known)
           b == Len(u)
           all == known \o u
<1>1. Sound(known) /\ \A k \in DOMAIN known : OneOf(kinds, m, Len(kinds), known[k])
  BY KnownStored
<1>2. Sound(u)
  BY FitsMeans, Zenon
<1>3. /\ DOMAIN known = 1..a /\ DOMAIN u = 1..b
  BY <1>1, <1>2 DEF Sound
<1> HIDE DEF known, u
<1>4. /\ Sound(all) /\ Len(all) = a + b /\ a \in Nat /\ b \in Nat
      /\ \A k \in 1..a : all[k] = known[k]
      /\ \A k \in 1..b : all[a + k] = u[k]
  BY <1>1, <1>2, SoundConcat
<1>5. Written(all) \in Seq(Byte) /\ FieldsFrom(Written(all)) = all
  BY <1>4, WrittenBack
<1>6. DOMAIN all = 1..(a + b)
  BY <1>4 DEF Sound
<1>7. Whereof(kinds, m) = all /\ Serialized(kinds, m) = Written(all)
  BY DEF Whereof, Serialized, known, u
<1> HIDE DEF all, a, b
<1>8. \A x \in 1..b : a + x \in DOMAIN all
  BY <1>4, <1>6
<1>9. ASSUME NEW k \in DOMAIN all
      PROVE OneOf(kinds, m, Len(kinds), all[k]) \/ \E x \in DOMAIN u : all[k] = u[x]
  <2>1. CASE k <= a
    BY <1>1, <1>3, <1>4, <1>6, <2>1
  <2>2. CASE ~(k <= a)
    <3>1. k - a \in 1..b /\ a + (k - a) = k
      BY <1>4, <1>6, <2>2
    <3> QED
      BY <1>3, <1>4, <3>1
  <2> QED
    BY <2>1, <2>2
<1> QED
  BY <1>3, <1>4, <1>5, <1>7, <1>8, <1>9 DEF a, u, known

LEMMA Relayed ==
  ASSUME NEW kinds \in Seq(KindNames), NEW m, MessageFits(kinds, m)
  PROVE  LET r == Read(kinds, Serialized(kinds, m)) IN
         /\ MessageFits(kinds, r) /\ r.field = m.field
         /\ \A x \in DOMAIN r.unknown : \E y \in DOMAIN m.unknown : r.unknown[x] = m.unknown[y]
         /\ \A y \in DOMAIN m.unknown :
              /\ \E x \in DOMAIN r.unknown : r.unknown[x].key = m.unknown[y].key
              /\ \/ \E z \in (y + 1)..Len(m.unknown) : m.unknown[z].key = m.unknown[y].key
                 \/ \E x \in DOMAIN r.unknown : r.unknown[x] = m.unknown[y]
         /\ (Len(m.unknown) <= 1 => r = m)
<1> DEFINE known == KnownFields(kinds, m)
           u == m.unknown
           base == Message(m.field)
           r == Read(kinds, Serialized(kinds, m))
           D == DOMAIN kinds
<1>1. Sound(known) /\ Stored(kinds, Blank(kinds), known) = base
  BY KnownStored
<1>2. /\ Sound(u) /\ \A k \in DOMAIN u : u[k].key \div 8 \notin D
      /\ m = [field |-> m.field, unknown |-> m.unknown]
      /\ m.field = [num \in D |-> m.field[num]]
      /\ \A num \in D : Fits(kinds[num], m.field[num])
  BY FitsMeans, Zenon
<1>3. /\ base.field = m.field /\ base.unknown = <<>> /\ base = [field |-> base.field, unknown |-> base.unknown]
      /\ Sound(base.unknown) /\ DOMAIN base.unknown = {}
  BY DEF Message, Sound
<1> HIDE DEF known, base
<1>4. MessageFits(kinds, base)
  <2>1. /\ base.field = [num \in D |-> base.field[num]]
        /\ \A num \in D : Fits(kinds[num], base.field[num])
    BY <1>2, <1>3
  <2>2. \A k \in DOMAIN base.unknown : base.unknown[k].key \div 8 \notin DOMAIN kinds
    BY <1>3
  <2> QED
    BY <1>3, <2>1, <2>2, FitsMeans, Zenon
<1>5. r = Stored(kinds, base, u)
  <2>1. FieldsFrom(Serialized(kinds, m)) = known \o u
    BY WhereofIs DEF Whereof, known
  <2>2. Stored(kinds, Blank(kinds), known \o u) = Stored(kinds, Stored(kinds, Blank(kinds), known), u)
    <3> HIDE DEF u
    <3> QED
      BY <1>1, <1>2, BlankFits, StoredConcat
  <2> QED
    BY <1>1, <2>1, <2>2 DEF Read
<1> HIDE DEF u, r
<1>6. MessageFits(kinds, r)
  BY <1>2, <1>4, <1>5, StoredFits
<1>7. \A num \in D : r.field[num] = base.field[num]
  <2> DEFINE n == Len(u)
  <2>1. PICK f : Stores(f, kinds, base, u) /\ r = f[n]
    BY <1>2, <1>4, <1>5, StoredRuns
  <2>2. n \in Nat /\ DOMAIN u = 1..n /\ \A k \in 1..n : WellFormed(u[k])
    BY <1>2 DEF Sound
  <2>3. /\ f[0] = base /\ \A k \in 1..n : f[k] = Store(kinds, f[k - 1], u[k])
        /\ \A k \in 0..n : MessageFits(kinds, f[k])
    BY <2>1 DEF Stores
  <2> HIDE DEF n
  <2> DEFINE S == {k \in 0..n : \A num \in D : f[k].field[num] = base.field[num]}
  <2>4. 0 \in S
    BY <2>2, <2>3
  <2>5. ASSUME NEW k \in 1..n, k - 1 \in S  PROVE k \in S
    <3>1. k - 1 \in 0..n /\ k \in 0..n
      BY <2>2
    <3>2. \A num \in DOMAIN kinds :
            Store(kinds, f[k - 1], u[k]).field[num] =
              IF num = u[k].key \div 8 THEN Values(kinds[num], f[k - 1].field[num], u[k])
              ELSE f[k - 1].field[num]
      BY <2>2, <2>3, <3>1, StoreFits
    <3>3. \A num \in D : num # u[k].key \div 8
      BY <1>2, <2>2
    <3> QED
      BY <2>3, <2>5, <3>1, <3>2, <3>3
  <2>6. n \in S
    <3> HIDE DEF S
    <3>1. \A k \in 0..n : k \in S
      BY <2>2, <2>4, <2>5, AllUpTo
    <3>2. n \in 0..n
      BY <2>2
    <3> QED
      BY <3>1, <3>2
  <2> QED
    BY <2>1, <2>6
<1>8. r.field = m.field /\ r = [field |-> r.field, unknown |-> r.unknown]
  <2>1. r.field = [num \in D |-> r.field[num]] /\ r = [field |-> r.field, unknown |-> r.unknown]
    BY <1>6, FitsMeans, Zenon
  <2> QED
    BY <1>2, <1>3, <1>7, <2>1
<1>9. UnknownAfter(kinds, u, Len(u), r.unknown)
  BY <1>2, <1>3, <1>4, <1>5, UnknownStored
<1>10. u \in Seq(Field) /\ Len(u) \in Nat /\ DOMAIN u = 1..Len(u)
  BY <1>2 DEF Sound
<1>11. ASSUME Len(u) <= 1  PROVE r.unknown = u
  <2>1. CASE u = <<>>
    BY <1>3, <1>4, <1>5, <2>1, StoredNone
  <2>2. CASE u # <<>>
    <3>1. Len(u) = 1 /\ DOMAIN u = {1} /\ u = <<u[1]>> /\ 1 \in DOMAIN u
      <4>1. Len(u) = 1
        BY <1>10, <1>11, <2>2
      <4> QED
        BY <1>10, <4>1
    <3>2. \A j \in DOMAIN u : u[j].key \div 8 \notin DOMAIN kinds <=> j = 1
      BY <1>2, <3>1
    <3> QED
      BY <1>2, <1>3, <1>4, <1>5, <3>1, <3>2, OneUnknown
  <2> QED
    BY <2>1, <2>2
<1>12. \A x \in DOMAIN r.unknown : \E y \in DOMAIN u : r.unknown[x] = u[y]
  BY <1>9, <1>10 DEF UnknownAfter
<1>13. \A y \in DOMAIN u :
         /\ \E x \in DOMAIN r.unknown : r.unknown[x].key = u[y].key
         /\ \/ \E z \in (y + 1)..Len(u) : u[z].key = u[y].key
            \/ \E x \in DOMAIN r.unknown : r.unknown[x] = u[y]
  BY <1>2, <1>9, <1>10 DEF UnknownAfter
<1>14. Len(u) <= 1 => r = m
  BY <1>2, <1>8, <1>11 DEF u
<1> QED
  BY <1>6, <1>8, <1>12, <1>13, <1>14 DEF u, r

LEMMA ReadFits ==
  ASSUME NEW kinds \in Seq(KindNames), NEW buf \in Seq(Byte), WholeFields(buf)
  PROVE  Sound(FieldsFrom(buf)) /\ MessageFits(kinds, Read(kinds, buf))
<1>1. Sound(FieldsFrom(buf))
  BY FieldsType DEF Sound, WholeFields
<1> QED
  BY <1>1, BlankFits, StoredFits DEF Read

LEMMA OneApart ==
  ASSUME NEW kinds \in Seq(KindNames), NEW m, MessageFits(kinds, m),
         AtMostOne(kinds, Serialized(kinds, m))
  PROVE  Len(m.unknown) <= 1
<1> DEFINE u == m.unknown
           a == Len(KnownFields(kinds, m))
           all == Whereof(kinds, m)
<1>1. Sound(u) /\ \A k \in DOMAIN u : u[k].key \div 8 \notin DOMAIN kinds
  BY FitsMeans, Zenon
<1>2. /\ FieldsFrom(Serialized(kinds, m)) = all
      /\ \A x \in DOMAIN u : a + x \in DOMAIN all /\ all[a + x] = u[x]
  BY WhereofIs
<1>3. a \in Nat /\ Len(u) \in Nat /\ DOMAIN u = 1..Len(u)
  <2>1. Sound(KnownFields(kinds, m))
    BY KnownStored
  <2> QED
    BY <1>1, <2>1 DEF Sound
<1>4. \A j, k \in DOMAIN all :
        all[j].key \div 8 \notin DOMAIN kinds /\ all[k].key \div 8 \notin DOMAIN kinds => j = k
  BY <1>2 DEF AtMostOne
<1> HIDE DEF u, a, all
<1>5. ASSUME ~(Len(u) <= 1)  PROVE FALSE
  <2>1. 1 \in DOMAIN u /\ 2 \in DOMAIN u
    BY <1>3, <1>5
  <2>2. a + 1 = a + 2
    BY <1>1, <1>2, <1>4, <2>1
  <2> QED
    BY <1>3, <2>2
<1> QED
  BY <1>5 DEF u

LEMMA NotNone ==
  ASSUME NEW S, NEW s \in Seq(S), s # <<>>, Len(s) <= 1
  PROVE  Len(s) = 1
<1>1. Len(s) \in Nat
  OBVIOUS
<1>2. Len(s) # 0
  OBVIOUS
<1> QED
  BY <1>1, <1>2

(* A list of lists that are empty or single.                               *)
LEMMA FlattenSingles ==
  ASSUME NEW S, NEW seqs \in Seq(Seq(S)), \A k \in DOMAIN seqs : Len(seqs[k]) <= 1
  PROVE  /\ FlattenSeq(seqs) \in Seq(S) /\ Len(FlattenSeq(seqs)) <= Len(seqs)
         /\ \A x \in DOMAIN FlattenSeq(seqs) :
              \E k \in DOMAIN seqs : seqs[k] = <<FlattenSeq(seqs)[x]>>
         /\ \A values \in Seq(S) :
              Len(values) = Len(seqs) /\ (\A k \in DOMAIN seqs : seqs[k] = <<values[k]>>)
                => FlattenSeq(seqs) = values
<1> DEFINE n == Len(seqs)
<1>1. n \in Nat /\ DOMAIN seqs = 1..n /\ \A k \in 1..n : seqs[k] \in Seq(S) /\ Len(seqs[k]) <= 1
  OBVIOUS
<1>2. PICK f : Accumulates(f, seqs, S) /\ FlattenSeq(seqs) = f[n]
  BY FlattenPrefixes
<1>3. f[0] = <<>> /\ \A k \in 1..n : f[k] = f[k - 1] \o seqs[k]
  BY <1>2 DEF Accumulates
<1>4. \A k \in 0..n : f[k] \in Seq(S)
  BY <1>2 DEF Accumulates
<1> HIDE DEF n
<1>4a. \A k \in 1..n : k \in Nat /\ k \in 0..n /\ k - 1 \in 0..n
  BY <1>1
<1> DEFINE T == {k \in 0..n : /\ Len(f[k]) <= k
                              /\ \A x \in DOMAIN f[k] : \E i \in 1..k : seqs[i] = <<f[k][x]>>}
<1>5. 0 \in T
  BY <1>1, <1>3
<1>6. ASSUME NEW k \in 1..n, k - 1 \in T  PROVE k \in T
  <2> DEFINE a == f[k - 1]
             c == seqs[k]
  <2>1. /\ k \in Nat /\ k \in 0..n /\ k - 1 \in 0..n /\ a \in Seq(S) /\ c \in Seq(S) /\ Len(c) <= 1
        /\ f[k] = a \o c
    <3>1. k \in Nat /\ k \in 0..n /\ k - 1 \in 0..n
      BY <1>4a
    <3>2. f[k - 1] \in Seq(S)
      BY <1>4, <3>1
    <3> QED
      BY <1>1, <1>3, <3>1, <3>2
  <2>2. Len(a) <= k - 1 /\ \A x \in DOMAIN a : \E i \in 1..(k - 1) : seqs[i] = <<a[x]>>
    BY <1>6
  <2> HIDE DEF a
  <2>3. CASE c = <<>>
    <3>1. f[k] = a
      BY <2>1, <2>3
    <3>2. Len(a) <= k
      BY <2>1, <2>2
    <3>3. 1..(k - 1) \subseteq 1..k
      BY <2>1
    <3> QED
      BY <2>1, <2>2, <3>1, <3>2, <3>3
  <2>4. CASE c # <<>>
    <3> HIDE DEF c
    <3>1. Len(c) = 1
      BY <2>1, <2>4, NotNone
    <3>2. c = <<c[1]>> /\ c[1] \in S
      BY <2>1, <3>1, OnlyOne
    <3> HIDE DEF c
    <3>3. /\ Len(a \o c) = Len(a) + 1 /\ (a \o c)[Len(a) + 1] = c[1] /\ Len(a) \in Nat
          /\ \A x \in 1..Len(a) : (a \o c)[x] = a[x]
          /\ DOMAIN (a \o c) = 1..(Len(a) + 1) /\ DOMAIN a = 1..Len(a)
      <4>1. /\ a \o c \in Seq(S) /\ Len(a \o c) = Len(a) + Len(c)
            /\ \A x \in 1..Len(a) : (a \o c)[x] = a[x]
            /\ \A x \in 1..Len(c) : (a \o c)[Len(a) + x] = c[x]
        BY <2>1, ConcatType
      <4>2. Len(a) \in Nat /\ DOMAIN a = 1..Len(a) /\ DOMAIN (a \o c) = 1..Len(a \o c)
        BY <2>1, <4>1
      <4>3. 1 \in 1..Len(c)
        BY <3>1
      <4> QED
        BY <3>1, <4>1, <4>2, <4>3
    <3>4. Len(a \o c) <= k
      BY <2>1, <2>2, <3>3
    <3>5. ASSUME NEW x \in DOMAIN (a \o c)  PROVE \E i \in 1..k : seqs[i] = <<(a \o c)[x]>>
      <4>1. CASE x = Len(a) + 1
        <5>1. k \in 1..k
          BY <2>1
        <5> QED
          BY <3>2, <3>3, <4>1, <5>1 DEF c
      <4>2. CASE x # Len(a) + 1
        <5>1. x \in DOMAIN a
          BY <3>3, <4>2
        <5>2. 1..(k - 1) \subseteq 1..k
          BY <2>1
        <5> QED
          BY <2>2, <3>3, <5>1, <5>2
      <4> QED
        BY <4>1, <4>2
    <3> QED
      BY <2>1, <3>4, <3>5
  <2> QED
    BY <2>3, <2>4
<1>7. n \in T
  <2> HIDE DEF T
  <2>1. \A k \in 0..n : k \in T
    BY <1>1, <1>5, <1>6, AllUpTo
  <2>2. n \in 0..n
    BY <1>1
  <2> QED
    BY <2>1, <2>2
<1>8. ASSUME NEW values \in Seq(S), Len(values) = n, \A k \in 1..n : seqs[k] = <<values[k]>>
      PROVE f[n] = values
  <2> DEFINE R == {k \in 0..n : f[k] = SubSeq(values, 1, k)}
  <2>1. 0 \in R
    <3>1. SubSeq(values, 1, 0) = <<>>
      OBVIOUS
    <3>2. f[0] = SubSeq(values, 1, 0) /\ 0 \in 0..n
      <4>1. 0 \in 0..n
        BY <1>1
      <4> QED
        BY <1>3, <3>1, <4>1, Zenon
    <3> QED
      BY <3>2
  <2>2. ASSUME NEW k \in 1..n, k - 1 \in R  PROVE k \in R
    <3>1. f[k - 1] = SubSeq(values, 1, k - 1) /\ f[k] = f[k - 1] \o seqs[k] /\ k \in 0..n
      BY <1>4a, <1>3, <2>2
    <3>2. SubSeq(values, 1, k - 1) \o <<values[k]>> = SubSeq(values, 1, k)
      <4>1. k \in 1..Len(values)
        BY <1>8
      <4>2. SubSeq(values, 1, k - 1) \in Seq(S) /\ values[k] \in S
        BY <1>8, <4>1
      <4>3. Append(SubSeq(values, 1, k - 1), values[k]) = SubSeq(values, 1, k)
        BY <1>8, <4>1, PrefixNext
      <4> QED
        BY <4>2, <4>3, ConcatOne
    <3> QED
      BY <1>8, <3>1, <3>2
  <2>3. n \in R
    <3> HIDE DEF R
    <3>1. \A k \in 0..n : k \in R
      BY <1>1, <2>1, <2>2, AllUpTo
    <3>2. n \in 0..n
      BY <1>1
    <3> QED
      BY <3>1, <3>2
  <2> QED
    BY <1>8, <2>3
<1>9. f[n] \in Seq(S)
  BY <1>1, <1>4
<1> HIDE DEF T
<1>10. Len(f[n]) <= n /\ \A x \in DOMAIN f[n] : \E i \in 1..n : seqs[i] = <<f[n][x]>>
  BY <1>7 DEF T
<1> QED
  BY <1>1, <1>2, <1>8, <1>9, <1>10 DEF n

-----------------------------------------------------------------------------
(* The kinds of the messages.                                              *)
LEMMA KindsAre ==
  /\ OutputKinds \in Seq(KindNames) /\ DOMAIN OutputKinds = 1..2
  /\ DetailsKinds \in Seq(KindNames) /\ DOMAIN DetailsKinds = 1..7
  /\ RequestKinds \in Seq(KindNames) /\ DOMAIN RequestKinds = 1..5
  /\ PaymentKinds \in Seq(KindNames) /\ DOMAIN PaymentKinds = 1..4
  /\ ACKKinds \in Seq(KindNames) /\ DOMAIN ACKKinds = 1..2
  /\ InvoiceRequestKinds \in Seq(KindNames) /\ DOMAIN InvoiceRequestKinds = 1..7
  /\ MessageKinds \in Seq(KindNames) /\ DOMAIN MessageKinds = 1..5
  /\ EncryptedMessageKinds \in Seq(KindNames) /\ DOMAIN EncryptedMessageKinds = 1..9
<1>1. OutputKinds \in Seq(KindNames) /\ DOMAIN OutputKinds = 1..2
  BY DEF KindNames, OutputKinds
<1>2. DetailsKinds \in Seq(KindNames) /\ DOMAIN DetailsKinds = 1..7
  BY DEF KindNames, DetailsKinds
<1>3. RequestKinds \in Seq(KindNames) /\ DOMAIN RequestKinds = 1..5
  BY DEF KindNames, RequestKinds
<1>4. PaymentKinds \in Seq(KindNames) /\ DOMAIN PaymentKinds = 1..4
  BY DEF KindNames, PaymentKinds
<1>5. ACKKinds \in Seq(KindNames) /\ DOMAIN ACKKinds = 1..2
  BY DEF KindNames, ACKKinds
<1>6. InvoiceRequestKinds \in Seq(KindNames) /\ DOMAIN InvoiceRequestKinds = 1..7
  BY DEF KindNames, InvoiceRequestKinds
<1>7. MessageKinds \in Seq(KindNames) /\ DOMAIN MessageKinds = 1..5
  BY DEF KindNames, MessageKinds
<1>8. EncryptedMessageKinds \in Seq(KindNames) /\ DOMAIN EncryptedMessageKinds = 1..9
  BY DEF KindNames, EncryptedMessageKinds
<1> QED
  BY <1>1, <1>2, <1>3, <1>4, <1>5, <1>6, <1>7, <1>8

LEMMA TypeKinds ==
  ASSUME NEW t \in Types
  PROVE  /\ KindsOf(t) \in Seq(KindNames) /\ 1 \in DOMAIN KindsOf(t) /\ 2 \in DOMAIN KindsOf(t)
         /\ Required(t) \subseteq DOMAIN KindsOf(t)
<1>1. CASE t = "output"
  BY <1>1, KindsAre DEF KindsOf, Required
<1>2. CASE t = "details"
  BY <1>2, KindsAre DEF KindsOf, Required
<1>3. CASE t = "request"
  BY <1>3, KindsAre DEF KindsOf, Required
<1>4. CASE t = "payment"
  BY <1>4, KindsAre DEF KindsOf, Required
<1>5. CASE t = "ack"
  BY <1>5, KindsAre DEF KindsOf, Required
<1>6. CASE t = "invoice"
  BY <1>6, KindsAre DEF KindsOf, Required
<1>7. CASE t = "message"
  BY <1>7, KindsAre DEF KindsOf, Required
<1>8. CASE t = "encrypted"
  BY <1>8, KindsAre DEF KindsOf, Required
<1> QED
  BY <1>1, <1>2, <1>3, <1>4, <1>5, <1>6, <1>7, <1>8 DEF Types

-----------------------------------------------------------------------------
(* Messages within messages.                                               *)
LEMMA Complete ==
  ASSUME NEW kinds \in Seq(KindNames), 1 \in DOMAIN kinds, NEW m, MessageFits(kinds, m),
         NEW required
  PROVE  /\ m # NULL /\ DOMAIN m.field = DOMAIN kinds
         /\ (IfComplete(m, required) # NULL <=> \A num \in required : m.field[num] # <<>>)
         /\ (IfComplete(m, required) # NULL => IfComplete(m, required) = m)
<1>1. m.field = [num \in DOMAIN kinds |-> m.field[num]]
  BY FitsMeans, Zenon
<1>2. DOMAIN m.field = DOMAIN kinds
  BY <1>1
<1>3. m # NULL
  <2>1. DOMAIN NULL.field = {}
    BY DEF NULL
  <2> QED
    BY <1>2, <2>1
<1> QED
  BY <1>2, <1>3 DEF IfComplete

With(m, num, new) == [m EXCEPT !.field[num] = new]

LEMMA Replaced ==
  ASSUME NEW kinds \in Seq(KindNames), NEW m, MessageFits(kinds, m),
         NEW num \in DOMAIN kinds, NEW new, Fits(kinds[num], new)
  PROVE  LET r == With(m, num, new) IN
         /\ MessageFits(kinds, r) /\ r.unknown = m.unknown
         /\ \A i \in DOMAIN kinds : r.field[i] = IF i = num THEN new ELSE m.field[i]
         /\ (new = m.field[num] => r = m)
<1> DEFINE r == With(m, num, new)
           D == DOMAIN kinds
<1>1. /\ m = [field |-> m.field, unknown |-> m.unknown]
      /\ m.field = [i \in D |-> m.field[i]]
      /\ \A i \in D : Fits(kinds[i], m.field[i])
      /\ Sound(m.unknown)
      /\ \A k \in DOMAIN m.unknown : m.unknown[k].key \div 8 \notin D
  BY FitsMeans, Zenon
<1>2. r = [field |-> [m.field EXCEPT ![num] = new], unknown |-> m.unknown]
  <2> DEFINE F == m.field
             U == m.unknown
             W == [field |-> F, unknown |-> U]
  <2>1. m = W
    BY <1>1
  <2>2. r = [W EXCEPT !.field[num] = new]
    <3>1. With(m, num, new) = With(W, num, new)
      BY <2>1, Zenon
    <3> HIDE DEF W
    <3> QED
      BY <3>1 DEF With
  <2> HIDE DEF F, U
  <2>3. [W EXCEPT !.field[num] = new] = [field |-> [F EXCEPT ![num] = new], unknown |-> U]
    OBVIOUS
  <2> QED
    BY <2>2, <2>3 DEF F, U
<1>3. r.field = [m.field EXCEPT ![num] = new] /\ r.unknown = m.unknown /\ r = [field |-> r.field, unknown |-> r.unknown]
  BY <1>2
<1>4. /\ \A i \in D : r.field[i] = IF i = num THEN new ELSE m.field[i]
      /\ r.field = [i \in D |-> r.field[i]]
  BY <1>1, <1>3
<1> HIDE DEF r
<1>5. \A i \in D : Fits(kinds[i], r.field[i])
  BY <1>1, <1>4
<1>6. MessageFits(kinds, r)
  BY <1>1, <1>3, <1>4, <1>5, FitsMeans, Zenon
<1>7. ASSUME new = m.field[num]  PROVE r = m
  <2>1. \A i \in D : r.field[i] = m.field[i]
    BY <1>4, <1>7
  <2>2. [i \in D |-> r.field[i]] = [i \in D |-> m.field[i]]
    BY <2>1
  <2> QED
    BY <1>1, <1>3, <1>4, <2>2
<1> QED
  BY <1>3, <1>4, <1>6, <1>7 DEF r

LEMMA WhereofWhole ==
  ASSUME NEW kinds \in Seq(KindNames), NEW m, MessageFits(kinds, m)
  PROVE  \A k \in DOMAIN Whereof(kinds, m) :
           WellFormed(Whereof(kinds, m)[k]) /\ FieldReturns(kinds, Whereof(kinds, m)[k])
<1> DEFINE all == Whereof(kinds, m)
<1>1. /\ \A num \in DOMAIN kinds : Fits(kinds[num], m.field[num])
      /\ \A k \in DOMAIN m.unknown : m.unknown[k].key \div 8 \notin DOMAIN kinds
  BY FitsMeans, Zenon
<1>2. /\ Sound(all)
      /\ \A k \in DOMAIN all : \/ OneOf(kinds, m, Len(kinds), all[k])
                               \/ \E x \in DOMAIN m.unknown : all[k] = m.unknown[x]
  BY WhereofIs
<1> HIDE DEF all
<1> SUFFICES ASSUME NEW k \in DOMAIN all  PROVE WellFormed(all[k]) /\ FieldReturns(kinds, all[k])
  BY DEF all
<1> DEFINE f == all[k]
<1>3. WellFormed(f)
  BY <1>2 DEF Sound
<1> HIDE DEF f
<1>4. CASE OneOf(kinds, m, Len(kinds), f)
  <2>1. PICK num \in 1..Len(kinds) : \E x \in DOMAIN m.field[num] : f = FieldOf(kinds[num], num, m.field[num][x])
    BY <1>4 DEF OneOf
  <2>2. PICK x \in DOMAIN m.field[num] : f = FieldOf(kinds[num], num, m.field[num][x])
    BY <2>1
  <2> DEFINE v == m.field[num][x]
             kind == kinds[num]
  <2>3. num \in DOMAIN kinds /\ num \in Nat /\ kind \in KindNames
    OBVIOUS
  <2>4. v \in Seq(Nat) /\ ValueFits(kind, v)
    BY <1>1, <2>3 DEF Fits
  <2>5. f = FieldOf(kind, num, v)
    BY <2>2
  <2> HIDE DEF v, kind
  <2>6. f.key \div 8 = num /\ (kind \notin {"int", "uint32"} => f.data = <<v>> /\ f.data # <<>>)
    BY <2>3, <2>4, <2>5, FieldOfIs
  <2>7. kind = "pubkey" => Len(v) \in {COMPRESSED, UNCOMPRESSED}
    BY <2>4 DEF ValueFits, IsKey
  <2>8. kind = "pubkey" => Len(f.data[1]) \in {COMPRESSED, UNCOMPRESSED}
    <3> SUFFICES ASSUME kind = "pubkey"  PROVE Len(f.data[1]) \in {COMPRESSED, UNCOMPRESSED}
      OBVIOUS
    <3>1. f.data = <<v>> /\ <<v>>[1] = v
      BY <2>6
    <3> QED
      BY <2>7, <3>1
  <2>9. FieldReturns(kinds, f)
    BY <2>6, <2>8 DEF FieldReturns, kind
  <2> QED
    BY <1>3, <2>9 DEF f
<1>5. CASE \E x \in DOMAIN m.unknown : f = m.unknown[x]
  BY <1>1, <1>3, <1>5 DEF FieldReturns, f
<1> QED
  BY <1>2, <1>4, <1>5 DEF f

LEMMA WrittenWhole ==
  ASSUME NEW kinds \in Seq(KindNames), NEW m, MessageFits(kinds, m)
  PROVE  /\ Serialized(kinds, m) \in Seq(Byte) /\ WholeFields(Serialized(kinds, m))
         /\ FieldsReturn(kinds, Serialized(kinds, m))
         /\ Read(kinds, Serialized(kinds, m)).field = m.field
         /\ (AtMostOne(kinds, Serialized(kinds, m)) => Read(kinds, Serialized(kinds, m)) = m)
<1>1. /\ Serialized(kinds, m) \in Seq(Byte) /\ FieldsFrom(Serialized(kinds, m)) = Whereof(kinds, m)
      /\ Sound(Whereof(kinds, m))
  BY WhereofIs
<1>2. WholeFields(Serialized(kinds, m)) /\ FieldsReturn(kinds, Serialized(kinds, m))
  BY <1>1, WhereofWhole DEF WholeFields, FieldsReturn
<1> QED
  BY <1>1, <1>2, OneApart, Relayed

OutputMade(v) ==
  v \in Seq(Byte) /\ WholeFields(v) /\ (AtMostOne(OutputKinds, v) => OutputWithin(v) = <<v>>)

LEMMA OutputStays ==
  ASSUME NEW w \in Seq(Byte), WholeFields(w)
  PROVE  /\ OutputWithin(w) \in Seq(Seq(Byte)) /\ Len(OutputWithin(w)) <= 1
         /\ \A v : OutputWithin(w) = <<v>> => OutputMade(v)
<1> DEFINE out == Read(OutputKinds, w)
           v == OutputSerialize(out)
<1>1. OutputKinds \in Seq(KindNames) /\ 1 \in DOMAIN OutputKinds
  BY KindsAre
<1>2. MessageFits(OutputKinds, out)
  BY <1>1, ReadFits
<1>3. CASE OutputParse(w) = NULL
  BY <1>3 DEF OutputWithin
<1>4. CASE OutputParse(w) # NULL
  <2>1. OutputParse(w) = out /\ out.field[2] # <<>>
    BY <1>1, <1>2, <1>4, Complete DEF OutputParse
  <2>2. OutputWithin(w) = <<v>>
    BY <1>4, <2>1 DEF OutputWithin
  <2>3. v \in Seq(Byte) /\ WholeFields(v) /\ (AtMostOne(OutputKinds, v) => Read(OutputKinds, v) = out)
    BY <1>1, <1>2, WrittenWhole DEF OutputSerialize
  <2>4. ASSUME AtMostOne(OutputKinds, v)  PROVE OutputWithin(v) = <<v>>
    <3>1. Read(OutputKinds, v) = out
      BY <2>3, <2>4
    <3> HIDE DEF out
    <3>2. OutputParse(v) = out /\ out # NULL
      <4>1. IfComplete(out, {2}) = out /\ out # NULL
        BY <1>1, <1>2, <2>1, Complete
      <4> HIDE DEF v
      <4> QED
        BY <3>1, <4>1 DEF OutputParse
    <3> QED
      BY <3>2 DEF OutputWithin
  <2>5. OutputMade(v)
    BY <2>3, <2>4 DEF OutputMade
  <2> HIDE DEF v
  <2> QED
    BY <2>2, <2>3, <2>5
<1> QED
  BY <1>3, <1>4

LEMMA OutputsStay ==
  ASSUME NEW values \in Seq(Seq(Byte))
  PROVE  /\ (\A k \in DOMAIN values : WholeFields(values[k])) =>
              /\ OutputsWithin(values) \in Seq(Seq(Byte))
              /\ Len(OutputsWithin(values)) <= Len(values)
              /\ \A x \in DOMAIN OutputsWithin(values) : OutputMade(OutputsWithin(values)[x])
         /\ (\A k \in DOMAIN values : OutputMade(values[k])) /\ PlainOutputs(values)
              => OutputsWithin(values) = values
<1> DEFINE seqs == [k \in DOMAIN values |-> OutputWithin(values[k])]
<1>1. SUFFICES ASSUME \A k \in DOMAIN values : WholeFields(values[k])
      PROVE  /\ OutputsWithin(values) \in Seq(Seq(Byte))
             /\ Len(OutputsWithin(values)) <= Len(values)
             /\ \A x \in DOMAIN OutputsWithin(values) : OutputMade(OutputsWithin(values)[x])
             /\ (\A k \in DOMAIN values : OutputMade(values[k])) /\ PlainOutputs(values)
                  => OutputsWithin(values) = values
  <2>1. (\A k \in DOMAIN values : OutputMade(values[k])) => \A k \in DOMAIN values : WholeFields(values[k])
    BY DEF OutputMade
  <2> QED
    BY <1>1, <2>1
<1>2. \A k \in DOMAIN values :
        /\ OutputWithin(values[k]) \in Seq(Seq(Byte)) /\ Len(OutputWithin(values[k])) <= 1
        /\ \A v : OutputWithin(values[k]) = <<v>> => OutputMade(v)
  <2> TAKE k \in DOMAIN values
  <2>1. values[k] \in Seq(Byte)
    OBVIOUS
  <2> QED
    BY <1>1, <2>1, OutputStays
<1>3. seqs \in Seq(Seq(Seq(Byte))) /\ Len(seqs) = Len(values) /\ DOMAIN seqs = DOMAIN values
  <2>1. DOMAIN values = 1..Len(values) /\ Len(values) \in Nat
    OBVIOUS
  <2>2. seqs \in [1..Len(values) -> Seq(Seq(Byte))]
    BY <1>2, <2>1
  <2> QED
    BY <2>1, <2>2
<1>4. \A k \in DOMAIN seqs : seqs[k] = OutputWithin(values[k]) /\ Len(seqs[k]) <= 1
  BY <1>2
<1> HIDE DEF seqs
<1>5. /\ FlattenSeq(seqs) \in Seq(Seq(Byte)) /\ Len(FlattenSeq(seqs)) <= Len(seqs)
      /\ \A x \in DOMAIN FlattenSeq(seqs) : \E k \in DOMAIN seqs : seqs[k] = <<FlattenSeq(seqs)[x]>>
      /\ Len(values) = Len(seqs) /\ (\A k \in DOMAIN seqs : seqs[k] = <<values[k]>>)
           => FlattenSeq(seqs) = values
  <2> DEFINE T == Seq(Byte)
  <2> HIDE DEF T
  <2>1. seqs \in Seq(Seq(T)) /\ values \in Seq(T) /\ \A k \in DOMAIN seqs : Len(seqs[k]) <= 1
    BY <1>3, <1>4 DEF T
  <2>2. /\ FlattenSeq(seqs) \in Seq(T) /\ Len(FlattenSeq(seqs)) <= Len(seqs)
        /\ \A x \in DOMAIN FlattenSeq(seqs) : \E k \in DOMAIN seqs : seqs[k] = <<FlattenSeq(seqs)[x]>>
        /\ \A w \in Seq(T) :
             Len(w) = Len(seqs) /\ (\A k \in DOMAIN seqs : seqs[k] = <<w[k]>>) => FlattenSeq(seqs) = w
    BY <2>1, FlattenSingles, Zenon
  <2> QED
    BY <2>1, <2>2 DEF T
<1>6. OutputsWithin(values) = FlattenSeq(seqs)
  BY DEF OutputsWithin, seqs
<1>7. ASSUME NEW x \in DOMAIN FlattenSeq(seqs)  PROVE OutputMade(FlattenSeq(seqs)[x])
  <2>1. PICK k \in DOMAIN seqs : seqs[k] = <<FlattenSeq(seqs)[x]>>
    BY <1>5
  <2>2. k \in DOMAIN values /\ OutputWithin(values[k]) = <<FlattenSeq(seqs)[x]>>
    BY <1>3, <1>4, <2>1
  <2> QED
    BY <1>2, <2>2
<1>8. ASSUME \A k \in DOMAIN values : OutputMade(values[k]), PlainOutputs(values)
      PROVE FlattenSeq(seqs) = values
  <2>1. \A k \in DOMAIN values : OutputWithin(values[k]) = <<values[k]>>
    BY <1>8 DEF OutputMade, PlainOutputs
  <2> QED
    BY <1>3, <1>4, <1>5, <2>1
<1> QED
  BY <1>3, <1>5, <1>6, <1>7, <1>8

LEMMA TransactionsStay ==
  ASSUME NEW values \in Seq(Seq(Byte)), \A k \in DOMAIN values : TransactionLasts(values[k])
  PROVE  /\ TransactionsWithin(values) \in Seq(Seq(Byte))
         /\ Len(TransactionsWithin(values)) <= Len(values)
         /\ \A x \in DOMAIN TransactionsWithin(values) :
              TxParse(TransactionsWithin(values)[x]) = <<TransactionsWithin(values)[x]>>
         /\ (\A k \in DOMAIN values : TxParse(values[k]) = <<values[k]>>)
              => TransactionsWithin(values) = values
<1> DEFINE seqs == [k \in DOMAIN values |-> TxParse(values[k])]
<1>2. \A k \in DOMAIN values :
        /\ TxParse(values[k]) \in Seq(Seq(Byte)) /\ Len(TxParse(values[k])) <= 1
        /\ \A v : TxParse(values[k]) = <<v>> => TxParse(v) = <<v>>
  <2> TAKE k \in DOMAIN values
  <2>1. /\ TxParse(values[k]) \in Seq(Seq(Byte)) /\ Len(TxParse(values[k])) <= 1
        /\ TxParse(values[k]) # <<>> => TxParse(TxParse(values[k])[1]) = TxParse(values[k])
    BY DEF TransactionLasts
  <2>2. ASSUME NEW v, TxParse(values[k]) = <<v>>  PROVE TxParse(v) = <<v>>
    <3>1. <<v>> # <<>> /\ <<v>>[1] = v
      OBVIOUS
    <3> QED
      BY <2>1, <2>2, <3>1
  <2> QED
    BY <2>1, <2>2
<1>3. seqs \in Seq(Seq(Seq(Byte))) /\ Len(seqs) = Len(values) /\ DOMAIN seqs = DOMAIN values
  <2>1. DOMAIN values = 1..Len(values) /\ Len(values) \in Nat
    OBVIOUS
  <2>2. seqs \in [1..Len(values) -> Seq(Seq(Byte))]
    BY <1>2, <2>1
  <2> QED
    BY <2>1, <2>2
<1>4. \A k \in DOMAIN seqs : seqs[k] = TxParse(values[k]) /\ Len(seqs[k]) <= 1
  BY <1>2
<1> HIDE DEF seqs
<1>5. /\ FlattenSeq(seqs) \in Seq(Seq(Byte)) /\ Len(FlattenSeq(seqs)) <= Len(seqs)
      /\ \A x \in DOMAIN FlattenSeq(seqs) : \E k \in DOMAIN seqs : seqs[k] = <<FlattenSeq(seqs)[x]>>
      /\ Len(values) = Len(seqs) /\ (\A k \in DOMAIN seqs : seqs[k] = <<values[k]>>)
           => FlattenSeq(seqs) = values
  <2> DEFINE T == Seq(Byte)
  <2> HIDE DEF T
  <2>1. seqs \in Seq(Seq(T)) /\ values \in Seq(T) /\ \A k \in DOMAIN seqs : Len(seqs[k]) <= 1
    BY <1>3, <1>4 DEF T
  <2>2. /\ FlattenSeq(seqs) \in Seq(T) /\ Len(FlattenSeq(seqs)) <= Len(seqs)
        /\ \A x \in DOMAIN FlattenSeq(seqs) : \E k \in DOMAIN seqs : seqs[k] = <<FlattenSeq(seqs)[x]>>
        /\ \A w \in Seq(T) :
             Len(w) = Len(seqs) /\ (\A k \in DOMAIN seqs : seqs[k] = <<w[k]>>) => FlattenSeq(seqs) = w
    BY <2>1, FlattenSingles, Zenon
  <2> QED
    BY <2>1, <2>2 DEF T
<1>6. TransactionsWithin(values) = FlattenSeq(seqs)
  BY DEF TransactionsWithin, seqs
<1>7. ASSUME NEW x \in DOMAIN FlattenSeq(seqs)
      PROVE TxParse(FlattenSeq(seqs)[x]) = <<FlattenSeq(seqs)[x]>>
  <2>1. PICK k \in DOMAIN seqs : seqs[k] = <<FlattenSeq(seqs)[x]>>
    BY <1>5
  <2>2. k \in DOMAIN values /\ TxParse(values[k]) = <<FlattenSeq(seqs)[x]>>
    BY <1>3, <1>4, <2>1
  <2> QED
    BY <1>2, <2>2
<1>8. ASSUME \A k \in DOMAIN values : TxParse(values[k]) = <<values[k]>>
      PROVE FlattenSeq(seqs) = values
  BY <1>3, <1>4, <1>5, <1>8
<1> QED
  BY <1>3, <1>5, <1>6, <1>7, <1>8

LEMMA ListFits ==
  ASSUME NEW kind \in {"bytes", "message", "messages"}, NEW values
  PROVE  Fits(kind, values) <=>
           values \in Seq(Seq(Byte)) /\ (kind # "messages" => Len(values) <= 1)
<1>1. ASSUME Fits(kind, values)  PROVE values \in Seq(Seq(Byte))
  <2>1. values \in Seq(Seq(Nat)) /\ \A k \in DOMAIN values : values[k] \in Seq(Byte)
    BY <1>1 DEF Fits, ValueFits
  <2>2. DOMAIN values = 1..Len(values) /\ values = [k \in 1..Len(values) |-> values[k]] /\ Len(values) \in Nat
    BY <2>1
  <2>3. values \in [1..Len(values) -> Seq(Byte)]
    BY <2>1, <2>2
  <2> QED
    BY <2>2, <2>3
<1>2. ASSUME values \in Seq(Seq(Byte)), kind # "messages" => Len(values) <= 1
      PROVE Fits(kind, values)
  <2>1. \A k \in DOMAIN values : values[k] \in Seq(Byte)
    BY <1>2
  <2>2. \A k \in DOMAIN values : values[k] \in Seq(Nat)
    BY <2>1, ByteSeq
  <2>3. values \in Seq(Seq(Nat))
    <3>1. DOMAIN values = 1..Len(values) /\ values = [k \in 1..Len(values) |-> values[k]] /\ Len(values) \in Nat
      BY <1>2
    <3>2. values \in [1..Len(values) -> Seq(Nat)]
      BY <2>2, <3>1
    <3> QED
      BY <3>1, <3>2
  <2> QED
    BY <1>2, <2>1, <2>3 DEF Fits, ValueFits
<1>3. Fits(kind, values) /\ kind # "messages" => Len(values) <= 1
  BY DEF Fits
<1> QED
  BY <1>1, <1>2, <1>3

DetailsMade(v) ==
  /\ v \in Seq(Byte) /\ WholeDetails(v) /\ FieldsReturn(DetailsKinds, v)
  /\ AtMostOne(DetailsKinds, v) /\ PlainOutputs(Read(DetailsKinds, v).field[2])
       => DetailsSerialize(DetailsParse(v)) = v

LEMMA DetailsStay ==
  ASSUME NEW w \in Seq(Byte), WholeDetails(w)
  PROVE  DetailsMade(DetailsSerialize(DetailsParse(w)))
<1> DEFINE d0 == Read(DetailsKinds, w)
           outs == OutputsWithin(d0.field[2])
           d == DetailsParse(w)
           v == DetailsSerialize(d)
<1>1. /\ DetailsKinds \in Seq(KindNames) /\ 2 \in DOMAIN DetailsKinds /\ DetailsKinds[2] = "messages"
  BY KindsAre DEF DetailsKinds
<1>2. /\ WholeFields(w) /\ \A k \in DOMAIN d0.field[2] : WholeFields(d0.field[2][k])
  BY DEF WholeDetails
<1>3. MessageFits(DetailsKinds, d0)
  BY <1>1, <1>2, ReadFits
<1>4. d0.field[2] \in Seq(Seq(Byte))
  <2>1. Fits("messages", d0.field[2])
    <3>1. \A num \in DOMAIN DetailsKinds : Fits(DetailsKinds[num], d0.field[num])
      BY <1>1, <1>3, FitsMeans, Zenon
    <3> QED
      BY <1>1, <3>1
  <2> QED
    BY <2>1, ListFits
<1> HIDE DEF d0
<1>5. outs \in Seq(Seq(Byte)) /\ \A x \in DOMAIN outs : OutputMade(outs[x])
  BY <1>2, <1>4, OutputsStay
<1>6. d = With(d0, 2, outs)
  BY DEF DetailsParse, d0, With
<1> HIDE DEF outs, d
<1>7. MessageFits(DetailsKinds, d) /\ d.field[2] = outs
  <2>1. Fits("messages", outs)
    BY <1>5, ListFits
  <2> QED
    BY <1>1, <1>3, <1>6, <2>1, Replaced
<1>8. v \in Seq(Byte) /\ WholeFields(v) /\ FieldsReturn(DetailsKinds, v)
      /\ Read(DetailsKinds, v).field = d.field
      /\ (AtMostOne(DetailsKinds, v) => Read(DetailsKinds, v) = d)
  BY <1>1, <1>7, WrittenWhole DEF DetailsSerialize
<1>9. WholeDetails(v)
  <2>1. \A x \in DOMAIN outs : WholeFields(outs[x])
    BY <1>5 DEF OutputMade
  <2> HIDE DEF v
  <2> QED
    BY <1>7, <1>8, <2>1 DEF WholeDetails
<1>10. ASSUME AtMostOne(DetailsKinds, v), PlainOutputs(Read(DetailsKinds, v).field[2])
       PROVE DetailsSerialize(DetailsParse(v)) = v
  <2>1. Read(DetailsKinds, v) = d
    BY <1>8, <1>10
  <2>2. OutputsWithin(outs) = outs
    BY <1>5, <1>7, <1>10, <2>1, OutputsStay
  <2>3. With(d, 2, outs) = d
    <3>1. Fits(DetailsKinds[2], outs)
      BY <1>1, <1>5, ListFits
    <3> QED
      BY <1>1, <1>7, <3>1, Replaced
  <2>4. DetailsParse(v) = With(d, 2, OutputsWithin(d.field[2]))
    <3> HIDE DEF v
    <3> QED
      BY <2>1 DEF DetailsParse, With
  <2>5. DetailsParse(v) = d
    BY <1>7, <2>2, <2>3, <2>4
  <2> QED
    BY <2>5
<1> HIDE DEF v
<1> QED
  BY <1>8, <1>9, <1>10 DEF DetailsMade, v, d

PaymentMade(v) ==
  /\ v \in Seq(Byte) /\ WholePayment(v) /\ FieldsReturn(PaymentKinds, v)
  /\ AtMostOne(PaymentKinds, v) /\ PlainOutputs(Read(PaymentKinds, v).field[3])
       => PaymentSerialize(PaymentParse(v)) = v

LEMMA PaymentStays ==
  ASSUME NEW w \in Seq(Byte), WholePayment(w)
  PROVE  PaymentMade(PaymentSerialize(PaymentParse(w)))
<1> DEFINE p0 == Read(PaymentKinds, w)
           txs == TransactionsWithin(p0.field[2])
           outs == OutputsWithin(p0.field[3])
           p1 == With(p0, 2, txs)
           p == PaymentParse(w)
           v == PaymentSerialize(p)
<1>1. /\ PaymentKinds \in Seq(KindNames) /\ 2 \in DOMAIN PaymentKinds /\ 3 \in DOMAIN PaymentKinds
      /\ PaymentKinds[2] = "messages" /\ PaymentKinds[3] = "messages"
  BY KindsAre DEF PaymentKinds
<1>2. /\ WholeFields(w) /\ \A k \in DOMAIN p0.field[2] : TransactionLasts(p0.field[2][k])
      /\ \A k \in DOMAIN p0.field[3] : WholeFields(p0.field[3][k])
  BY DEF WholePayment
<1>3. MessageFits(PaymentKinds, p0)
  BY <1>1, <1>2, ReadFits
<1>4. p0.field[2] \in Seq(Seq(Byte)) /\ p0.field[3] \in Seq(Seq(Byte))
  <2>1. Fits("messages", p0.field[2]) /\ Fits("messages", p0.field[3])
    <3>1. \A num \in DOMAIN PaymentKinds : Fits(PaymentKinds[num], p0.field[num])
      BY <1>1, <1>3, FitsMeans, Zenon
    <3> QED
      BY <1>1, <3>1
  <2> QED
    BY <2>1, ListFits
<1> HIDE DEF p0
<1>5. outs \in Seq(Seq(Byte)) /\ \A x \in DOMAIN outs : OutputMade(outs[x])
  BY <1>2, <1>4, OutputsStay
<1>6. txs \in Seq(Seq(Byte)) /\ \A x \in DOMAIN txs : TxParse(txs[x]) = <<txs[x]>>
  BY <1>2, <1>4, TransactionsStay
<1>7. p = With(p1, 3, outs)
  BY DEF PaymentParse, p0, With
<1> HIDE DEF outs, txs, p
<1>8. Fits("messages", outs) /\ Fits("messages", txs)
  BY <1>5, <1>6, ListFits
<1>9. MessageFits(PaymentKinds, p1) /\ p1.field[2] = txs
  BY <1>1, <1>3, <1>8, Replaced
<1> HIDE DEF p1
<1>11. MessageFits(PaymentKinds, p) /\ p.field[2] = txs /\ p.field[3] = outs
  BY <1>1, <1>7, <1>8, <1>9, Replaced
<1>12. v \in Seq(Byte) /\ WholeFields(v) /\ FieldsReturn(PaymentKinds, v)
       /\ Read(PaymentKinds, v).field = p.field
       /\ (AtMostOne(PaymentKinds, v) => Read(PaymentKinds, v) = p)
  BY <1>1, <1>11, WrittenWhole DEF PaymentSerialize
<1>13. WholePayment(v)
  <2>1. \A x \in DOMAIN outs : WholeFields(outs[x])
    BY <1>5 DEF OutputMade
  <2>2. \A x \in DOMAIN txs : TransactionLasts(txs[x])
    <3> TAKE x \in DOMAIN txs
    <3> DEFINE y == txs[x]
    <3>1. y \in Seq(Byte) /\ TxParse(y) = <<y>>
      BY <1>6
    <3> HIDE DEF y
    <3>2. <<y>> \in Seq(Seq(Byte)) /\ Len(<<y>>) <= 1 /\ <<y>>[1] = y
      BY <3>1
    <3>3. TransactionLasts(y)
      BY <3>1, <3>2 DEF TransactionLasts
    <3> QED
      BY <3>3 DEF y
  <2> HIDE DEF v
  <2> QED
    BY <1>11, <1>12, <2>1, <2>2 DEF WholePayment
<1>14. ASSUME AtMostOne(PaymentKinds, v), PlainOutputs(Read(PaymentKinds, v).field[3])
       PROVE PaymentSerialize(PaymentParse(v)) = v
  <2>1. Read(PaymentKinds, v) = p
    BY <1>12, <1>14
  <2>2. OutputsWithin(outs) = outs /\ TransactionsWithin(txs) = txs
    <3>1. PlainOutputs(outs)
      BY <1>11, <1>14, <2>1
    <3>2. \A x \in DOMAIN txs : TransactionLasts(txs[x])
      BY <1>11, <1>12, <1>13 DEF WholePayment
    <3>3. OutputsWithin(outs) = outs
      BY <1>5, <3>1, OutputsStay
    <3>4. TransactionsWithin(txs) = txs
      BY <1>6, <3>2, TransactionsStay
    <3> QED
      BY <3>3, <3>4
  <2>3. With(p, 2, txs) = p /\ With(p, 3, outs) = p
    BY <1>1, <1>8, <1>11, Replaced
  <2>4. PaymentParse(v) = With(With(p, 2, TransactionsWithin(p.field[2])), 3,
                               OutputsWithin(p.field[3]))
    <3> HIDE DEF v
    <3> QED
      BY <2>1 DEF PaymentParse, With
  <2>5. PaymentParse(v) = p
    BY <1>11, <2>2, <2>3, <2>4
  <2> QED
    BY <2>5
<1> HIDE DEF v
<1> QED
  BY <1>12, <1>13, <1>14 DEF PaymentMade, v, p

-----------------------------------------------------------------------------
(* A message of any type, with the messages within it.                     *)
Nested(t) ==
  CASE t = "details" -> {2} [] t = "request" -> {4} [] t = "payment" -> {2, 3}
    [] t = "ack" -> {1} [] OTHER -> {}
New(t, num, values) ==
  CASE t = "details" -> OutputsWithin(values)
    [] t = "request" -> DetailsWithin(values)
    [] t = "payment" /\ num = 2 -> TransactionsWithin(values)
    [] t = "payment" /\ num = 3 -> OutputsWithin(values)
    [] t = "ack" -> PaymentWithin(values)
Plain(t, num, values) ==
  CASE t = "details" -> PlainOutputs(values)
    [] t = "request" -> PlainDetails(values)
    [] t = "payment" /\ num = 2 -> TRUE
    [] t = "payment" /\ num = 3 -> PlainOutputs(values)
    [] t = "ack" -> PlainPayment(values)
ValueMade(t, num, v) ==
  CASE t = "details" -> OutputMade(v)
    [] t = "request" -> DetailsMade(v)
    [] t = "payment" /\ num = 2 -> TxParse(v) = <<v>>
    [] t = "payment" /\ num = 3 -> OutputMade(v)
    [] t = "ack" -> PaymentMade(v)
Again(t, m) ==
  CASE t = "details" -> With(m, 2, New(t, 2, m.field[2]))
    [] t = "request" -> With(m, 4, New(t, 4, m.field[4]))
    [] t = "payment" -> With(With(m, 2, New(t, 2, m.field[2])), 3, New(t, 3, m.field[3]))
    [] t = "ack" -> With(m, 1, New(t, 1, m.field[1]))
    [] OTHER -> m

LEMMA MapStays ==
  ASSUME NEW values \in Seq(Seq(Byte)), NEW new, new = [k \in DOMAIN values |-> new[k]],
         \A k \in DOMAIN values : new[k] \in Seq(Byte)
  PROVE  /\ new \in Seq(Seq(Byte)) /\ Len(new) = Len(values)
         /\ ((\A k \in DOMAIN values : new[k] = values[k]) => new = values)
<1>1. DOMAIN values = 1..Len(values) /\ Len(values) \in Nat /\ values = [k \in 1..Len(values) |-> values[k]]
  OBVIOUS
<1>2. new = [k \in 1..Len(values) |-> new[k]]
  BY <1>1, Zenon
<1>3. new \in [1..Len(values) -> Seq(Byte)]
  BY <1>1, <1>2
<1>4. new \in Seq(Seq(Byte)) /\ Len(new) = Len(values)
  BY <1>1, <1>2, <1>3
<1>5. ASSUME \A k \in DOMAIN values : new[k] = values[k]  PROVE new = values
  <2>1. \A k \in 1..Len(values) : new[k] = values[k]
    BY <1>1, <1>5
  <2> QED
    BY <1>1, <1>2, <2>1
<1> QED
  BY <1>4, <1>5

LEMMA DetailsListStays ==
  ASSUME NEW values \in Seq(Seq(Byte)), \A k \in DOMAIN values : WholeDetails(values[k])
  PROVE  /\ DetailsWithin(values) \in Seq(Seq(Byte)) /\ Len(DetailsWithin(values)) = Len(values)
         /\ \A k \in DOMAIN DetailsWithin(values) : DetailsMade(DetailsWithin(values)[k])
         /\ (\A k \in DOMAIN values : DetailsMade(values[k])) /\ PlainDetails(values)
              => DetailsWithin(values) = values
<1> DEFINE F(v) == DetailsSerialize(DetailsParse(v))
           new == [k \in DOMAIN values |-> F(values[k])]
<1>1. \A k \in DOMAIN values : DetailsMade(F(values[k]))
  <2> TAKE k \in DOMAIN values
  <2>1. values[k] \in Seq(Byte)
    OBVIOUS
  <2> QED
    BY <2>1, DetailsStay
<1>2. \A k \in DOMAIN values : F(values[k]) \in Seq(Byte)
  BY <1>1 DEF DetailsMade
<1>3. DetailsWithin(values) = new
  BY DEF DetailsWithin
<1>4. ASSUME \A k \in DOMAIN values : DetailsMade(values[k]), PlainDetails(values)
      PROVE \A k \in DOMAIN values : F(values[k]) = values[k]
  BY <1>4 DEF DetailsMade, PlainDetails
<1> HIDE DEF F
<1>5. new = [k \in DOMAIN values |-> new[k]] /\ \A k \in DOMAIN values : new[k] = F(values[k])
  OBVIOUS
<1>6. /\ new \in Seq(Seq(Byte)) /\ Len(new) = Len(values)
      /\ ((\A k \in DOMAIN values : F(values[k]) = values[k]) => new = values)
  <2> HIDE DEF new
  <2>1. \A k \in DOMAIN values : new[k] \in Seq(Byte)
    BY <1>2, <1>5, Zenon
  <2>2. /\ new \in Seq(Seq(Byte)) /\ Len(new) = Len(values)
        /\ ((\A k \in DOMAIN values : new[k] = values[k]) => new = values)
    BY <1>5, <2>1, MapStays, Zenon
  <2> QED
    BY <1>5, <2>2, Zenon
<1> QED
  BY <1>1, <1>3, <1>4, <1>6

LEMMA PaymentListStays ==
  ASSUME NEW values \in Seq(Seq(Byte)), \A k \in DOMAIN values : WholePayment(values[k])
  PROVE  /\ PaymentWithin(values) \in Seq(Seq(Byte)) /\ Len(PaymentWithin(values)) = Len(values)
         /\ \A k \in DOMAIN PaymentWithin(values) : PaymentMade(PaymentWithin(values)[k])
         /\ (\A k \in DOMAIN values : PaymentMade(values[k])) /\ PlainPayment(values)
              => PaymentWithin(values) = values
<1> DEFINE F(v) == PaymentSerialize(PaymentParse(v))
           new == [k \in DOMAIN values |-> F(values[k])]
<1>1. \A k \in DOMAIN values : PaymentMade(F(values[k]))
  <2> TAKE k \in DOMAIN values
  <2>1. values[k] \in Seq(Byte)
    OBVIOUS
  <2> QED
    BY <2>1, PaymentStays
<1>2. \A k \in DOMAIN values : F(values[k]) \in Seq(Byte)
  BY <1>1 DEF PaymentMade
<1>3. PaymentWithin(values) = new
  BY DEF PaymentWithin
<1>4. ASSUME \A k \in DOMAIN values : PaymentMade(values[k]), PlainPayment(values)
      PROVE \A k \in DOMAIN values : F(values[k]) = values[k]
  BY <1>4 DEF PaymentMade, PlainPayment
<1> HIDE DEF F
<1>5. new = [k \in DOMAIN values |-> new[k]] /\ \A k \in DOMAIN values : new[k] = F(values[k])
  OBVIOUS
<1>6. /\ new \in Seq(Seq(Byte)) /\ Len(new) = Len(values)
      /\ ((\A k \in DOMAIN values : F(values[k]) = values[k]) => new = values)
  <2> HIDE DEF new
  <2>1. \A k \in DOMAIN values : new[k] \in Seq(Byte)
    BY <1>2, <1>5, Zenon
  <2>2. /\ new \in Seq(Seq(Byte)) /\ Len(new) = Len(values)
        /\ ((\A k \in DOMAIN values : new[k] = values[k]) => new = values)
    BY <1>5, <2>1, MapStays, Zenon
  <2> QED
    BY <1>5, <2>2, Zenon
<1> QED
  BY <1>1, <1>3, <1>4, <1>6

LEMMA NestedKinds ==
  ASSUME NEW t \in Types
  PROVE  /\ \A num \in Nested(t) : num \in DOMAIN KindsOf(t) /\ KindsOf(t)[num] \in {"message", "messages"}
         /\ \A num \in DOMAIN KindsOf(t) : KindsOf(t)[num] \in {"message", "messages"} => num \in Nested(t)
         /\ \A num \in Required(t) : num \in DOMAIN KindsOf(t) /\ KindsOf(t)[num] # "messages"
<1>1. CASE t = "output"
  BY <1>1, KindsAre DEF KindsOf, Nested, Required, OutputKinds
<1>2. CASE t = "details"
  BY <1>2, KindsAre DEF KindsOf, Nested, Required, DetailsKinds
<1>3. CASE t = "request"
  BY <1>3, KindsAre DEF KindsOf, Nested, Required, RequestKinds
<1>4. CASE t = "payment"
  BY <1>4, KindsAre DEF KindsOf, Nested, Required, PaymentKinds
<1>5. CASE t = "ack"
  BY <1>5, KindsAre DEF KindsOf, Nested, Required, ACKKinds
<1>6. CASE t = "invoice"
  BY <1>6, KindsAre DEF KindsOf, Nested, Required, InvoiceRequestKinds
<1>7. CASE t = "message"
  BY <1>7, KindsAre DEF KindsOf, Nested, Required, MessageKinds
<1>8. CASE t = "encrypted"
  BY <1>8, KindsAre DEF KindsOf, Nested, Required, EncryptedMessageKinds
<1> QED
  BY <1>1, <1>2, <1>3, <1>4, <1>5, <1>6, <1>7, <1>8 DEF Types

LEMMA NewIs ==
  ASSUME NEW t \in Types, NEW num \in Nested(t), NEW values, Fits(KindsOf(t)[num], values),
         \A k \in DOMAIN values : WholeWithin(t, num, values[k])
  PROVE  /\ Fits(KindsOf(t)[num], New(t, num, values))
         /\ Len(New(t, num, values)) <= Len(values)
         /\ (KindsOf(t)[num] = "message" => Len(New(t, num, values)) = Len(values))
         /\ \A k \in DOMAIN New(t, num, values) : ValueMade(t, num, New(t, num, values)[k])
         /\ (\A k \in DOMAIN values : ValueMade(t, num, values[k])) /\ Plain(t, num, values)
              => New(t, num, values) = values
<1> DEFINE kind == KindsOf(t)[num]
           new == New(t, num, values)
<1>1. kind \in {"message", "messages"}
  BY NestedKinds
<1>2. values \in Seq(Seq(Byte)) /\ (kind # "messages" => Len(values) <= 1) /\ Len(values) \in Nat
  <2>1. values \in Seq(Seq(Byte)) /\ (kind # "messages" => Len(values) <= 1)
    BY <1>1, ListFits
  <2> QED
    BY <2>1
<1> SUFFICES /\ new \in Seq(Seq(Byte)) /\ Len(new) <= Len(values)
             /\ (kind = "message" => Len(new) = Len(values))
             /\ \A k \in DOMAIN new : ValueMade(t, num, new[k])
             /\ (\A k \in DOMAIN values : ValueMade(t, num, values[k])) /\ Plain(t, num, values)
                  => new = values
  <2>1. ASSUME new \in Seq(Seq(Byte)), Len(new) <= Len(values),
               kind = "message" => Len(new) = Len(values)
        PROVE Fits(kind, new)
    BY <1>1, <1>2, <2>1, ListFits
  <2> HIDE DEF kind, new
  <2> QED
    BY <2>1 DEF kind, new
<1>3. CASE t = "details"
  <2>1. num = 2 /\ kind # "message"
    BY <1>3 DEF Nested, KindsOf, DetailsKinds
  <2>2. /\ \A k \in DOMAIN values : WholeFields(values[k])
        /\ new = OutputsWithin(values)
        /\ \A v : ValueMade(t, num, v) <=> OutputMade(v)
        /\ Plain(t, num, values) <=> PlainOutputs(values)
    BY <1>3, <2>1 DEF WholeWithin, New, ValueMade, Plain
  <2> HIDE DEF new, kind
  <2> QED
    BY <1>2, <2>1, <2>2, OutputsStay
<1>4. CASE t = "request"
  <2>1. num = 4
    BY <1>4 DEF Nested
  <2>2. /\ \A k \in DOMAIN values : WholeDetails(values[k])
        /\ new = DetailsWithin(values)
        /\ \A v : ValueMade(t, num, v) <=> DetailsMade(v)
        /\ Plain(t, num, values) <=> PlainDetails(values)
    BY <1>4, <2>1 DEF WholeWithin, New, ValueMade, Plain
  <2> HIDE DEF new, kind
  <2> QED
    BY <1>2, <2>1, <2>2, DetailsListStays
<1>5. CASE t = "payment" /\ num = 2
  <2>1. kind # "message"
    BY <1>5 DEF KindsOf, PaymentKinds
  <2>2. /\ \A k \in DOMAIN values : TransactionLasts(values[k])
        /\ new = TransactionsWithin(values)
        /\ \A v : ValueMade(t, num, v) <=> TxParse(v) = <<v>>
    BY <1>5 DEF WholeWithin, New, ValueMade
  <2> HIDE DEF new, kind
  <2> QED
    BY <1>2, <2>1, <2>2, TransactionsStay
<1>6. CASE t = "payment" /\ num # 2
  <2>1. num = 3 /\ kind # "message"
    BY <1>6 DEF Nested, KindsOf, PaymentKinds
  <2>2. /\ \A k \in DOMAIN values : WholeFields(values[k])
        /\ new = OutputsWithin(values)
        /\ \A v : ValueMade(t, num, v) <=> OutputMade(v)
        /\ Plain(t, num, values) <=> PlainOutputs(values)
    BY <1>6, <2>1 DEF WholeWithin, New, ValueMade, Plain
  <2> HIDE DEF new, kind
  <2> QED
    BY <1>2, <2>1, <2>2, OutputsStay
<1>7. CASE t = "ack"
  <2>1. num = 1
    BY <1>7 DEF Nested
  <2>2. /\ \A k \in DOMAIN values : WholePayment(values[k])
        /\ new = PaymentWithin(values)
        /\ \A v : ValueMade(t, num, v) <=> PaymentMade(v)
        /\ Plain(t, num, values) <=> PlainPayment(values)
    BY <1>7, <2>1 DEF WholeWithin, New, ValueMade, Plain
  <2> HIDE DEF new, kind
  <2> QED
    BY <1>2, <2>1, <2>2, PaymentListStays
<1> QED
  BY <1>3, <1>4, <1>5, <1>6, <1>7 DEF Nested, Types

AllWhole(t, m) ==
  \A num \in DOMAIN KindsOf(t) : \A k \in DOMAIN m.field[num] : WholeWithin(t, num, m.field[num][k])

LEMMA AgainIs ==
  ASSUME NEW t \in Types, NEW m, MessageFits(KindsOf(t), m), AllWhole(t, m)
  PROVE  /\ MessageFits(KindsOf(t), Again(t, m)) /\ Again(t, m).unknown = m.unknown
         /\ \A num \in DOMAIN KindsOf(t) :
              Again(t, m).field[num] = IF num \in Nested(t) THEN New(t, num, m.field[num]) ELSE m.field[num]
<1> DEFINE kinds == KindsOf(t)
           New2(num) == New(t, num, m.field[num])
           a == Again(t, m)
<1>1. kinds \in Seq(KindNames) /\ \A num \in Nested(t) : num \in DOMAIN kinds
  BY TypeKinds, NestedKinds
<1>2. \A num \in Nested(t) : Fits(kinds[num], New2(num))
  <2> TAKE num \in Nested(t)
  <2>1. \A i \in DOMAIN kinds : Fits(kinds[i], m.field[i])
    BY <1>1, FitsMeans, Zenon
  <2>2. num \in DOMAIN kinds /\ \A k \in DOMAIN m.field[num] : WholeWithin(t, num, m.field[num][k])
    BY <1>1 DEF AllWhole
  <2>3. Fits(kinds[num], m.field[num])
    BY <2>1, <2>2
  <2> QED
    BY <2>2, <2>3, NewIs
<1> HIDE DEF kinds
<1>3. MessageFits(kinds, m)
  BY DEF kinds
<1> SUFFICES /\ MessageFits(kinds, a) /\ a.unknown = m.unknown
             /\ \A num \in DOMAIN kinds : a.field[num] = IF num \in Nested(t) THEN New2(num) ELSE m.field[num]
  BY DEF kinds
<1>4. ASSUME NEW num, Nested(t) = {num}, a = With(m, num, New2(num))
      PROVE /\ MessageFits(kinds, a) /\ a.unknown = m.unknown
            /\ \A i \in DOMAIN kinds : a.field[i] = IF i \in Nested(t) THEN New2(i) ELSE m.field[i]
  <2>1. num \in DOMAIN kinds /\ Fits(kinds[num], New2(num))
    BY <1>1, <1>2, <1>4
  <2>2. /\ MessageFits(kinds, a) /\ a.unknown = m.unknown
        /\ \A i \in DOMAIN kinds : a.field[i] = IF i = num THEN New2(num) ELSE m.field[i]
    <3> HIDE DEF a, New2
    <3> QED
      BY <1>1, <1>3, <1>4, <2>1, Replaced
  <2> HIDE DEF a, New2
  <2> QED
    BY <1>4, <2>2
<1>5. CASE t = "details"
  BY <1>4, <1>5 DEF Nested, Again
<1>6. CASE t = "request"
  BY <1>4, <1>6 DEF Nested, Again
<1>7. CASE t = "ack"
  BY <1>4, <1>7 DEF Nested, Again
<1>8. CASE t = "payment"
  <2> DEFINE b == With(m, 2, New2(2))
  <2>1. Nested(t) = {2, 3} /\ a = With(b, 3, New2(3))
    BY <1>8 DEF Nested, Again
  <2>2. /\ 2 \in DOMAIN kinds /\ Fits(kinds[2], New2(2))
        /\ 3 \in DOMAIN kinds /\ Fits(kinds[3], New2(3))
    BY <1>1, <1>2, <2>1
  <2> HIDE DEF a, New2
  <2>3. /\ MessageFits(kinds, b) /\ b.unknown = m.unknown
        /\ \A i \in DOMAIN kinds : b.field[i] = IF i = 2 THEN New2(2) ELSE m.field[i]
    BY <1>1, <1>3, <2>2, Replaced
  <2> HIDE DEF b
  <2>4. /\ MessageFits(kinds, a) /\ a.unknown = b.unknown
        /\ \A i \in DOMAIN kinds : a.field[i] = IF i = 3 THEN New2(3) ELSE b.field[i]
    BY <1>1, <2>1, <2>2, <2>3, Replaced
  <2> QED
    BY <2>1, <2>3, <2>4
<1>9. CASE t \notin {"details", "request", "ack", "payment"}
  <2>1. Nested(t) = {} /\ a = m
    BY <1>9 DEF Nested, Again
  <2> QED
    BY <1>3, <2>1
<1> QED
  BY <1>5, <1>6, <1>7, <1>8, <1>9

LEMMA ParseIs ==
  ASSUME NEW t \in Types, NEW buf
  PROVE  ParseOf(t, buf) = IfComplete(Again(t, Read(KindsOf(t), buf)), Required(t))
<1>1. \A m : IfComplete(m, {}) = m
  BY DEF IfComplete
<1>2. CASE t = "output"
  BY <1>2 DEF ParseOf, KindsOf, Required, Again, OutputParse
<1>3. CASE t = "details"
  BY <1>1, <1>3 DEF ParseOf, KindsOf, Required, Again, DetailsParse, With, New
<1>4. CASE t = "request"
  BY <1>4 DEF ParseOf, KindsOf, Required, Again, RequestParse, With, New
<1>5. CASE t = "payment"
  BY <1>1, <1>5 DEF ParseOf, KindsOf, Required, Again, PaymentParse, With, New
<1>6. CASE t = "ack"
  BY <1>6 DEF ParseOf, KindsOf, Required, Again, ACKParse, With, New
<1>7. CASE t = "invoice"
  BY <1>7 DEF ParseOf, KindsOf, Required, Again, InvoiceRequestParse
<1>8. CASE t = "message"
  BY <1>8 DEF ParseOf, KindsOf, Required, Again, MessageParse
<1>9. CASE t = "encrypted"
  BY <1>9 DEF ParseOf, KindsOf, Required, Again, EncryptedMessageParse
<1> QED
  BY <1>2, <1>3, <1>4, <1>5, <1>6, <1>7, <1>8, <1>9 DEF Types

(* What was parsed or created, and can be passed on.                       *)
Made(t, m) ==
  /\ MessageFits(KindsOf(t), m)
  /\ \A num \in Required(t) : m.field[num] # <<>>
  /\ AllWhole(t, m)
  /\ \A num \in Nested(t) : \A k \in DOMAIN m.field[num] : ValueMade(t, num, m.field[num][k])
AllOf(t, fs) == Sound(fs) /\ \A k \in DOMAIN fs : Whole(t, fs[k])

LEMMA WholeOther ==
  ASSUME NEW t, NEW num, num \notin Nested(t), NEW v
  PROVE  WholeWithin(t, num, v)
BY DEF Nested, WholeWithin

LEMMA MadeWhole ==
  ASSUME NEW t \in Types, NEW num \in Nested(t), NEW v \in Seq(Byte), ValueMade(t, num, v)
  PROVE  WholeWithin(t, num, v)
<1>1. CASE t = "details"
  BY <1>1 DEF Nested, ValueMade, WholeWithin, OutputMade
<1>2. CASE t = "request"
  BY <1>2 DEF Nested, ValueMade, WholeWithin, DetailsMade
<1>3. CASE t = "payment" /\ num = 2
  <2>1. TxParse(v) = <<v>>
    BY <1>3 DEF ValueMade
  <2>2. <<v>> \in Seq(Seq(Byte)) /\ Len(<<v>>) <= 1 /\ <<v>>[1] = v
    OBVIOUS
  <2>3. TransactionLasts(v)
    BY <2>1, <2>2 DEF TransactionLasts
  <2> QED
    BY <1>3, <2>3 DEF WholeWithin
<1>4. CASE t = "payment" /\ num # 2
  BY <1>4 DEF Nested, ValueMade, WholeWithin, OutputMade
<1>5. CASE t = "ack"
  BY <1>5 DEF Nested, ValueMade, WholeWithin, PaymentMade
<1> QED
  BY <1>1, <1>2, <1>3, <1>4, <1>5 DEF Nested

LEMMA ReadWhole ==
  ASSUME NEW t \in Types, NEW fs, AllOf(t, fs)
  PROVE  /\ Read(KindsOf(t), Written(fs)) = Stored(KindsOf(t), Blank(KindsOf(t)), fs)
         /\ MessageFits(KindsOf(t), Read(KindsOf(t), Written(fs)))
         /\ AllWhole(t, Read(KindsOf(t), Written(fs)))
<1> DEFINE kinds == KindsOf(t)
           r == Read(kinds, Written(fs))
<1>1. kinds \in Seq(KindNames) /\ Sound(fs)
  BY TypeKinds DEF AllOf
<1>2. r = Stored(kinds, Blank(kinds), fs)
  BY <1>1, WrittenBack DEF Read
<1>3. /\ MessageFits(kinds, Blank(kinds))
      /\ \A num \in DOMAIN kinds : Blank(kinds).field[num] = <<>>
  BY <1>1, BlankFits
<1>4. \A num \in Nested(t) : num \in DOMAIN kinds /\ kinds[num] \in {"message", "messages"}
  BY NestedKinds
<1> HIDE DEF kinds, r
<1>5. MessageFits(kinds, r)
  BY <1>1, <1>2, <1>3, StoredFits
<1>6. ASSUME NEW num \in DOMAIN kinds, NEW x \in DOMAIN r.field[num]
      PROVE WholeWithin(t, num, r.field[num][x])
  <2>1. CASE num \notin Nested(t)
    BY <2>1, WholeOther
  <2>2. CASE num \in Nested(t)
    <3>1. \E j \in DOMAIN fs : /\ fs[j].key \div 8 = num
                               /\ fs[j].data = <<r.field[num][x]>>
      <4>1. Given(num, fs, r.field[num])
        BY <1>1, <1>2, <1>3, <1>4, <2>2, GivenStored
      <4> QED
        BY <4>1 DEF Given
    <3> DEFINE v == r.field[num][x]
    <3> HIDE DEF v
    <3>2. PICK j \in DOMAIN fs : fs[j].key \div 8 = num /\ fs[j].data = <<v>>
      BY <3>1 DEF v
    <3>3. Whole(t, fs[j]) /\ 1 \in DOMAIN fs[j].data /\ fs[j].data[1] = v
      BY <3>2 DEF AllOf
    <3> QED
      BY <3>2, <3>3 DEF Whole, v
  <2> QED
    BY <2>1, <2>2
<1>7. AllWhole(t, r)
  BY <1>6 DEF AllWhole, kinds
<1> QED
  BY <1>2, <1>5, <1>7 DEF r, kinds

LEMMA ParseMade ==
  ASSUME NEW t \in Types, NEW fs, AllOf(t, fs), ParseOf(t, Written(fs)) # NULL
  PROVE  /\ ParseOf(t, Written(fs)) = Again(t, Read(KindsOf(t), Written(fs)))
         /\ Made(t, ParseOf(t, Written(fs)))
<1> DEFINE kinds == KindsOf(t)
           r == Read(kinds, Written(fs))
           m == Again(t, r)
<1>1. kinds \in Seq(KindNames) /\ 1 \in DOMAIN kinds
  BY TypeKinds
<1>2. MessageFits(kinds, r) /\ AllWhole(t, r)
  BY ReadWhole
<1>3. \A num \in Nested(t) : num \in DOMAIN kinds /\ kinds[num] \in {"message", "messages"}
  BY NestedKinds
<1>4. ParseOf(t, Written(fs)) = IfComplete(m, Required(t))
  BY ParseIs
<1> HIDE DEF r
<1>5. /\ MessageFits(kinds, m)
      /\ \A num \in DOMAIN kinds : m.field[num] = IF num \in Nested(t) THEN New(t, num, r.field[num]) ELSE r.field[num]
  BY <1>2, AgainIs
<1> HIDE DEF kinds, m
<1>6. IfComplete(m, Required(t)) = m /\ \A num \in Required(t) : m.field[num] # <<>>
  BY <1>1, <1>4, <1>5, Complete
<1>7. \A num \in DOMAIN kinds : Fits(kinds[num], r.field[num]) /\ Fits(kinds[num], m.field[num])
  <2>1. \A num \in DOMAIN kinds : Fits(kinds[num], r.field[num])
    BY <1>1, <1>2, FitsMeans, Zenon DEF kinds
  <2>2. \A num \in DOMAIN kinds : Fits(kinds[num], m.field[num])
    BY <1>1, <1>5, FitsMeans, Zenon
  <2> QED
    BY <2>1, <2>2
<1>8. ASSUME NEW num \in Nested(t), NEW k \in DOMAIN m.field[num]
      PROVE ValueMade(t, num, m.field[num][k])
  <2>1. num \in DOMAIN kinds /\ m.field[num] = New(t, num, r.field[num])
    BY <1>3, <1>5
  <2>2. \A x \in DOMAIN r.field[num] : WholeWithin(t, num, r.field[num][x])
    BY <1>2, <2>1 DEF AllWhole, kinds
  <2>3. \A x \in DOMAIN New(t, num, r.field[num]) : ValueMade(t, num, New(t, num, r.field[num])[x])
    BY <1>7, <2>1, <2>2, NewIs DEF kinds
  <2> QED
    BY <2>1, <2>3
<1>9. ASSUME NEW num \in DOMAIN kinds, NEW k \in DOMAIN m.field[num]
      PROVE WholeWithin(t, num, m.field[num][k])
  <2>1. CASE num \notin Nested(t)
    BY <2>1, WholeOther
  <2>2. CASE num \in Nested(t)
    <3>1. m.field[num] \in Seq(Seq(Byte))
      BY <1>3, <1>7, <2>2, ListFits
    <3>2. m.field[num][k] \in Seq(Byte)
      BY <3>1
    <3> QED
      BY <1>8, <2>2, <3>2, MadeWhole
  <2> QED
    BY <2>1, <2>2
<1> QED
  BY <1>4, <1>5, <1>6, <1>8, <1>9 DEF Made, AllWhole, kinds, m, r

LEMMA RelayMade ==
  ASSUME NEW t \in Types, NEW m, Made(t, m)
  PROVE  /\ AllOf(t, Whereof(KindsOf(t), m))
         /\ Serialized(KindsOf(t), m) = Written(Whereof(KindsOf(t), m))
<1> DEFINE kinds == KindsOf(t)
           all == Whereof(kinds, m)
<1>1. kinds \in Seq(KindNames) /\ MessageFits(kinds, m)
  BY TypeKinds DEF Made
<1>2. /\ \A num \in DOMAIN kinds : Fits(kinds[num], m.field[num])
      /\ Sound(m.unknown)
      /\ \A k \in DOMAIN m.unknown : m.unknown[k].key \div 8 \notin DOMAIN kinds
  BY <1>1, FitsMeans, Zenon
<1>3. \A num \in Nested(t) : num \in DOMAIN kinds
  BY NestedKinds
<1>4. \A num \in DOMAIN kinds : \A x \in DOMAIN m.field[num] : WholeWithin(t, num, m.field[num][x])
  BY DEF Made, AllWhole
<1> HIDE DEF kinds
<1>5. /\ Sound(all) /\ Serialized(kinds, m) = Written(all)
      /\ \A k \in DOMAIN all : \/ OneOf(kinds, m, Len(kinds), all[k])
                               \/ \E x \in DOMAIN m.unknown : all[k] = m.unknown[x]
  BY <1>1, WhereofIs
<1> HIDE DEF all
<1>6. ASSUME NEW k \in DOMAIN all  PROVE Whole(t, all[k])
  <2> DEFINE f == all[k]
  <2> SUFFICES Whole(t, f)
    OBVIOUS
  <2> HIDE DEF f
  <2>3. WellFormed(f)
    BY <1>5 DEF Sound, f
  <2>1. CASE OneOf(kinds, m, Len(kinds), f)
    <3>1. PICK num \in 1..Len(kinds) : \E x \in DOMAIN m.field[num] : f = FieldOf(kinds[num], num, m.field[num][x])
      BY <2>1 DEF OneOf
    <3>2. PICK x \in DOMAIN m.field[num] : f = FieldOf(kinds[num], num, m.field[num][x])
      BY <3>1
    <3> DEFINE v == m.field[num][x]
    <3>3. num \in DOMAIN kinds /\ num \in Nat /\ kinds[num] \in KindNames
      BY <1>1
    <3>4. v \in Seq(Nat) /\ ValueFits(kinds[num], v)
      BY <1>2, <3>3 DEF Fits
    <3>5. WholeWithin(t, num, v)
      BY <1>4, <3>3
    <3> HIDE DEF v
    <3>6. f = FieldOf(kinds[num], num, v)
      BY <3>2 DEF v
    <3>7. f.key \div 8 = num /\ (kinds[num] \notin {"int", "uint32"} => f.data = <<v>>)
      BY <3>3, <3>4, <3>6, FieldOfIs
    <3>8. CASE kinds[num] \in {"int", "uint32"}
      <4>1. f.data = <<>>
        BY <3>6, <3>8 DEF FieldOf, ProtoBufSetInt, AField
      <4> QED
        BY <2>3, <4>1 DEF Whole
    <3>9. CASE kinds[num] \notin {"int", "uint32"}
      <4>1. f.data = <<v>> /\ DOMAIN f.data = {1} /\ f.data[1] = v
        BY <3>7, <3>9
      <4> QED
        BY <2>3, <3>5, <3>7, <4>1 DEF Whole
    <3> QED
      BY <3>8, <3>9
  <2>2. CASE \E x \in DOMAIN m.unknown : f = m.unknown[x]
    <3>1. f.key \div 8 \notin Nested(t)
      BY <1>2, <1>3, <2>2
    <3> QED
      BY <2>3, <3>1, WholeOther DEF Whole
  <2> QED
    BY <1>5, <2>1, <2>2 DEF f
<1> QED
  BY <1>5, <1>6 DEF AllOf, kinds, all

-----------------------------------------------------------------------------
(* What has been written stands on the wire, behind what was passed on; a  *)
(* message is what the wire says, unless it was created here.              *)
Begun == IF sent = NULL THEN <<>> ELSE Whereof(KindsOf(type), sent)
Inv ==
  /\ type \in Types
  /\ AllOf(type, log)
  /\ wire = Written(Begun \o log)
  /\ sent # NULL => Made(type, sent)
  /\ msg # NULL => Made(type, msg) /\ (log # <<>> => msg = ParseOf(type, wire))

LEMMA EmptyWritten ==
  /\ Sound(<<>>) /\ Written(<<>>) = <<>>
  /\ \A fs : Sound(fs) /\ Written(fs) = <<>> => fs = <<>>
<1>1. Sound(<<>>)
  BY DEF Sound
<1>2. Written(<<>>) = <<>>
  <2> DEFINE seqs == [k \in DOMAIN <<>> |-> FieldBytes(<<>>[k])]
  <2>1. seqs \in Seq(Seq(Byte)) /\ Len(seqs) = 0
    OBVIOUS
  <2>2. FlattenSeq(seqs) = <<>>
    <3> HIDE DEF seqs
    <3> QED
      BY <2>1, FlattenFew
  <2> QED
    BY <2>2 DEF Written
<1>3. ASSUME NEW fs, Sound(fs), Written(fs) = <<>>  PROVE fs = <<>>
  <2>1. FieldsFrom(Written(fs)) = fs /\ FieldsFrom(Written(<<>>)) = <<>>
    BY <1>1, <1>3, WrittenBack
  <2> QED
    BY <1>2, <1>3, <2>1
<1> QED
  BY <1>1, <1>2, <1>3

LEMMA BegunIs ==
  ASSUME type \in Types, sent # NULL => Made(type, sent)
  PROVE  AllOf(type, Begun) /\ Sound(Begun)
<1>1. AllOf(type, <<>>)
  BY EmptyWritten DEF AllOf
<1>2. AllOf(type, Begun)
  BY <1>1, RelayMade DEF Begun
<1> QED
  BY <1>2 DEF AllOf

LEMMA AllOfConcat ==
  ASSUME NEW t, NEW s, AllOf(t, s), NEW u, AllOf(t, u)
  PROVE  AllOf(t, s \o u)
<1>1. Sound(s) /\ Sound(u)
  BY DEF AllOf
<1>2. /\ Sound(s \o u) /\ Len(s \o u) = Len(s) + Len(u) /\ Len(s) \in Nat /\ Len(u) \in Nat
      /\ \A k \in 1..Len(s) : (s \o u)[k] = s[k]
      /\ \A k \in 1..Len(u) : (s \o u)[Len(s) + k] = u[k]
  BY <1>1, SoundConcat
<1>3. DOMAIN (s \o u) = 1..Len(s \o u) /\ DOMAIN s = 1..Len(s) /\ DOMAIN u = 1..Len(u)
  BY <1>1, <1>2 DEF Sound
<1>4. ASSUME NEW k \in DOMAIN (s \o u)  PROVE Whole(t, (s \o u)[k])
  <2> DEFINE a == Len(s)
             b == Len(u)
             all == s \o u
  <2>1. k \in 1..(a + b) /\ a \in Nat /\ b \in Nat
    BY <1>2, <1>3
  <2> HIDE DEF a, b, all
  <2>2. CASE k <= a
    BY <1>2, <1>3, <2>1, <2>2 DEF AllOf, a
  <2>3. CASE ~(k <= a)
    <3>1. k - a \in 1..b /\ a + (k - a) = k
      BY <2>1, <2>3
    <3>2. all[a + (k - a)] = u[k - a] /\ k - a \in DOMAIN u
      BY <1>2, <1>3, <3>1 DEF a, b, all
    <3> QED
      BY <3>1, <3>2 DEF AllOf, all
  <2> QED
    BY <2>2, <2>3
<1> QED
  BY <1>2, <1>4 DEF AllOf

LEMMA WriteStays ==
  ASSUME Inv, Write
  PROVE  Inv'
<1> DEFINE b == Begun
<1>1. /\ type \in Types /\ AllOf(type, log) /\ wire = Written(b \o log)
      /\ sent # NULL => Made(type, sent)
  BY DEF Inv
<1>2. PICK f \in Fields[type] : wire' = wire \o FieldBytes(f) /\ log' = Append(log, f)
  BY DEF Write
<1>3. type' = type /\ sent' = sent /\ msg' = msg /\ msg = NULL
  BY DEF Write
<1>4. Whole(type, f) /\ WellFormed(f)
  BY <1>1, FieldsAssumption DEF Whole
<1>5. Begun' = b
  BY <1>3 DEF Begun
<1>6. Sound(b) /\ Sound(log)
  BY <1>1, BegunIs DEF AllOf
<1> HIDE DEF b
<1>7. AllOf(type, Append(log, f))
  <2>1. Sound(Append(log, f))
    BY <1>4, <1>6, SoundAppend
  <2>2. log \in Seq(Field) /\ f \in Field
    BY <1>4, <1>6, FieldFacts DEF Sound
  <2>3. ASSUME NEW k \in DOMAIN Append(log, f)  PROVE Whole(type, Append(log, f)[k])
    <3>1. Append(log, f)[k] = f \/ (k \in DOMAIN log /\ Append(log, f)[k] = log[k])
      BY <2>2
    <3> QED
      BY <1>1, <1>4, <3>1 DEF AllOf
  <2> QED
    BY <2>1, <2>3 DEF AllOf
<1>8. wire' = Written(b \o Append(log, f))
  <2>1. b \o Append(log, f) = Append(b \o log, f)
    <3>1. b \in Seq(Field) /\ log \in Seq(Field) /\ f \in Field
      BY <1>4, <1>6, FieldFacts DEF Sound
    <3> QED
      BY <3>1
  <2>2. Sound(b \o log)
    BY <1>6, SoundConcat
  <2>3. Written(Append(b \o log, f)) = Written(b \o log) \o FieldBytes(f)
    BY <1>4, <2>2, SoundAppend
  <2> QED
    BY <1>1, <1>2, <2>1, <2>3
<1> QED
  BY <1>1, <1>2, <1>3, <1>5, <1>7, <1>8 DEF Inv

LEMMA CreatedMade ==
  ASSUME NEW t \in Types, NEW m \in Created[t]
  PROVE  Made(t, m)
<1> DEFINE kinds == KindsOf(t)
<1>1. /\ MessageFits(kinds, m) /\ \A num \in Required(t) : m.field[num] # <<>>
      /\ \A num \in DOMAIN kinds : \A k \in DOMAIN m.field[num] :
           WholeWithin(t, num, m.field[num][k]) /\ KeptWithin(t, num, m.field[num][k])
  BY CreatedAssumption
<1>2. kinds \in Seq(KindNames) /\ \A num \in Nested(t) : num \in DOMAIN kinds /\ kinds[num] \in {"message", "messages"}
  BY TypeKinds, NestedKinds
<1>3. ASSUME NEW num \in Nested(t), NEW k \in DOMAIN m.field[num]
      PROVE ValueMade(t, num, m.field[num][k])
  <2> DEFINE v == m.field[num][k]
  <2>1. v \in Seq(Byte)
    <3>1. \A i \in DOMAIN kinds : Fits(kinds[i], m.field[i])
      BY <1>1, <1>2, FitsMeans, Zenon
    <3>2. m.field[num] \in Seq(Seq(Byte))
      BY <1>2, <3>1, ListFits
    <3> QED
      BY <3>2
  <2>2. WholeWithin(t, num, v) /\ KeptWithin(t, num, v)
    BY <1>1, <1>2
  <2> HIDE DEF v
  <2> SUFFICES ValueMade(t, num, v)
    BY DEF v
  <2>3. CASE t = "details"
    BY <2>1, <2>2, <2>3 DEF Nested, ValueMade, WholeWithin, KeptWithin, OutputMade
  <2>4. CASE t = "request"
    <3>1. WholeDetails(v) /\ DetailsSerialize(DetailsParse(v)) = v
      BY <2>2, <2>4 DEF Nested, WholeWithin, KeptWithin
    <3>2. DetailsMade(v)
      BY <2>1, <3>1, DetailsStay
    <3> QED
      BY <2>4, <3>2 DEF ValueMade
  <2>5. CASE t = "payment"
    <3>1. num \in {2, 3}
      BY <2>5 DEF Nested
    <3>2. CASE num = 2
      BY <2>2, <2>5, <3>2 DEF ValueMade, KeptWithin
    <3>3. CASE num = 3
      BY <2>1, <2>2, <2>5, <3>3 DEF ValueMade, WholeWithin, KeptWithin, OutputMade
    <3> QED
      BY <3>1, <3>2, <3>3
  <2>6. CASE t = "ack"
    <3>1. WholePayment(v) /\ PaymentSerialize(PaymentParse(v)) = v
      BY <2>2, <2>6 DEF Nested, WholeWithin, KeptWithin
    <3>2. PaymentMade(v)
      BY <2>1, <3>1, PaymentStays
    <3> QED
      BY <2>6, <3>2 DEF ValueMade
  <2> QED
    BY <2>3, <2>4, <2>5, <2>6 DEF Nested
<1> QED
  BY <1>1, <1>3 DEF Made, AllWhole

LEMMA CreateStays ==
  ASSUME Inv, Create
  PROVE  Inv'
<1>1. /\ wire = <<>> /\ msg' \in Created[type] /\ type' = type /\ log' = log /\ wire' = wire /\ sent' = sent
  BY DEF Create
<1>2. /\ type \in Types /\ AllOf(type, log) /\ wire = Written(Begun \o log)
      /\ sent # NULL => Made(type, sent)
  BY DEF Inv
<1>3. Begun' = Begun
  BY <1>1 DEF Begun
<1>4. log = <<>>
  <2>1. Sound(Begun) /\ Sound(log)
    BY <1>2, BegunIs DEF AllOf
  <2>2. Sound(Begun \o log) /\ Len(Begun \o log) = Len(Begun) + Len(log) /\ Len(Begun) \in Nat /\ Len(log) \in Nat
    BY <2>1, SoundConcat
  <2>3. Begun \o log = <<>>
    BY <1>1, <1>2, <2>2, EmptyWritten
  <2>4. Len(log) = 0
    BY <2>2, <2>3
  <2> QED
    BY <2>1, <2>4 DEF Sound
<1>5. Made(type, msg')
  BY <1>1, <1>2, CreatedMade
<1> QED
  BY <1>1, <1>2, <1>3, <1>4, <1>5 DEF Inv

LEMMA ParseStays ==
  ASSUME Inv, Parse
  PROVE  Inv'
<1>1. /\ msg' = ParseOf(type, wire) /\ msg' # NULL
      /\ type' = type /\ log' = log /\ wire' = wire /\ sent' = sent
  BY DEF Parse
<1>2. /\ type \in Types /\ AllOf(type, log) /\ wire = Written(Begun \o log)
      /\ sent # NULL => Made(type, sent)
  BY DEF Inv
<1>3. Begun' = Begun
  BY <1>1 DEF Begun
<1>4. AllOf(type, Begun \o log)
  BY <1>2, BegunIs, AllOfConcat
<1>5. Made(type, msg')
  BY <1>1, <1>2, <1>4, ParseMade
<1> QED
  BY <1>1, <1>2, <1>3, <1>5 DEF Inv

LEMMA SerializeStays ==
  ASSUME Inv, Serialize
  PROVE  Inv'
<1>1. /\ msg # NULL /\ wire' = Serialized(KindsOf(type), msg)
      /\ sent' = msg /\ msg' = NULL /\ log' = <<>> /\ type' = type
  BY DEF Serialize
<1>2. type \in Types /\ Made(type, msg)
  BY <1>1 DEF Inv
<1>3. AllOf(type, <<>>)
  BY EmptyWritten DEF AllOf
<1>4. Begun' = Whereof(KindsOf(type), msg)
  BY <1>1 DEF Begun
<1>5. wire' = Written(Begun' \o log')
  <2> DEFINE w == Whereof(KindsOf(type), msg)
  <2>1. Sound(w) /\ wire' = Written(w)
    BY <1>1, <1>2, RelayMade DEF AllOf
  <2> HIDE DEF w
  <2>2. w \o <<>> = w
    BY <2>1 DEF Sound
  <2> QED
    BY <1>1, <1>4, <2>1, <2>2 DEF w
<1> QED
  BY <1>1, <1>2, <1>3, <1>5 DEF Inv

LEMMA AbortStays ==
  ASSUME Inv, Abort
  PROVE  Inv'
<1>1. type' = type /\ wire' = <<>> /\ log' = <<>> /\ msg' = msg /\ sent' = NULL /\ msg = NULL
  BY DEF Abort
<1>2. AllOf(type, <<>>)
  BY EmptyWritten DEF AllOf
<1>3. Begun' \o log' = <<>>
  BY <1>1 DEF Begun
<1> QED
  BY <1>1, <1>2, <1>3, EmptyWritten DEF Inv

(* What stands on the wire is, byte by byte, what was serialised last and  *)
(* the fields written behind it, and a message is what those bytes are     *)
(* read as: of every message, created, received or passed on, the fields   *)
(* and the messages within it are such as are read back (the Parse,        *)
(* Serialize and New functions).                                           *)
THEOREM PaymentInvariance == Spec => []Inv
<1>1. Init => Inv
  <2> SUFFICES ASSUME Init  PROVE Inv
    OBVIOUS
  <2>1. type \in Types /\ wire = <<>> /\ log = <<>> /\ msg = NULL /\ sent = NULL
    BY DEF Init
  <2>2. AllOf(type, <<>>)
    BY EmptyWritten DEF AllOf
  <2>3. Begun \o log = <<>>
    BY <2>1 DEF Begun
  <2> QED
    BY <2>1, <2>2, <2>3, EmptyWritten DEF Inv
<1>2. Inv /\ [Next]_vars => Inv'
  <2> SUFFICES ASSUME Inv, [Next]_vars  PROVE Inv'
    OBVIOUS
  <2>1. CASE UNCHANGED vars
    <3>1. type' = type /\ wire' = wire /\ log' = log /\ msg' = msg /\ sent' = sent
      BY <2>1 DEF vars
    <3>2. Begun' = Begun
      BY <3>1 DEF Begun
    <3> QED
      BY <3>1, <3>2 DEF Inv
  <2> QED
    BY <2>1, WriteStays, CreateStays, ParseStays, AbortStays, SerializeStays DEF Next
<1> QED
  BY <1>1, <1>2, PTL DEF Spec

-----------------------------------------------------------------------------
LEMMA Greatest ==
  ASSUME NEW n \in Nat, NEW J \in SUBSET (1..n), J # {}
  PROVE  \E j \in J : \A i \in J : i <= j
<1> DEFINE B == {n - j : j \in J}
<1>1. B \in SUBSET Nat /\ B # {}
  <2>1. \A j \in J : n - j \in Nat
    OBVIOUS
  <2>2. B # {}
    OBVIOUS
  <2> QED
    BY <2>1, <2>2
<1>2. PICK b \in B : \A c \in B : b <= c
  BY <1>1, Least
<1>3. PICK j \in J : b = n - j
  BY <1>2
<1>4. \A i \in J : n - i \in B
  OBVIOUS
<1>5. ASSUME NEW i \in J  PROVE i <= j
  <2>1. n - j <= n - i
    BY <1>2, <1>3, <1>4
  <2> QED
    BY <2>1
<1> QED
  BY <1>5

(* A message that was parsed from what is written on the wire.             *)
LEMMA Straight ==
  ASSUME Inv, msg # NULL, sent = NULL, log # <<>>
  PROVE  LET r == Stored(KindsOf(type), Blank(KindsOf(type)), log) IN
         /\ KindsOf(type) \in Seq(KindNames) /\ AllOf(type, log) /\ Made(type, msg)
         /\ MessageFits(KindsOf(type), r) /\ AllWhole(type, r)
         /\ msg.unknown = r.unknown /\ DOMAIN msg.field = DOMAIN KindsOf(type)
         /\ \A num \in DOMAIN KindsOf(type) :
              msg.field[num] = IF num \in Nested(type) THEN New(type, num, r.field[num]) ELSE r.field[num]
<1> DEFINE kinds == KindsOf(type)
           r == Stored(kinds, Blank(kinds), log)
<1>1. /\ type \in Types /\ AllOf(type, log) /\ wire = Written(Begun \o log)
      /\ Made(type, msg) /\ msg = ParseOf(type, wire)
  BY DEF Inv
<1>2. Begun \o log = log
  <2>1. log \in Seq(Field)
    BY <1>1 DEF AllOf, Sound
  <2> QED
    BY <2>1 DEF Begun
<1>3. wire = Written(log) /\ ParseOf(type, Written(log)) # NULL
  BY <1>1, <1>2
<1>4. r = Read(kinds, Written(log)) /\ MessageFits(kinds, r) /\ AllWhole(type, r)
  BY <1>1, ReadWhole
<1> HIDE DEF r
<1>5. msg = Again(type, r)
  BY <1>1, <1>3, <1>4, ParseMade
<1>6. kinds \in Seq(KindNames) /\ 1 \in DOMAIN kinds
  BY <1>1, TypeKinds
<1>7. /\ msg.unknown = r.unknown
      /\ \A num \in DOMAIN kinds :
           msg.field[num] = IF num \in Nested(type) THEN New(type, num, r.field[num]) ELSE r.field[num]
  BY <1>1, <1>4, <1>5, AgainIs
<1>8. DOMAIN msg.field = DOMAIN kinds
  <2>1. MessageFits(kinds, msg)
    BY <1>1 DEF Made
  <2> HIDE DEF kinds
  <2> QED
    BY <1>6, <2>1, Complete
<1> QED
  BY <1>1, <1>4, <1>6, <1>7, <1>8 DEF r

GivenTo(num) == {j \in DOMAIN log : log[j].key \div 8 = num}
FilledFor(num) == {j \in GivenTo(num) : log[j].data # <<>>}
ValueAsWritten(kind, num, value) ==
  /\ kind \in {"int", "uint32", "pubkey", "script"} /\ GivenTo(num) = {} => value = <<>>
  /\ kind \in {"bytes", "string", "message"} => (value = <<>>) = (FilledFor(num) = {})
  /\ kind = "int" /\ GivenTo(num) # {} => value = OneInt(LastOf(GivenTo(num)).int)
  /\ kind = "uint32" /\ GivenTo(num) # {} =>
       value = OneInt(LastOf(GivenTo(num)).int % Span(W32))
  /\ kind \in {"pubkey", "script"} /\ GivenTo(num) # {} =>
       value = LastOf(GivenTo(num)).data /\ value # <<>>
  /\ kind = "bytes" /\ FilledFor(num) # {} => value = LastOf(FilledFor(num)).data
  /\ kind = "string" /\ FilledFor(num) # {} =>
       value = <<ProtoBufString(LastOf(FilledFor(num)).data[1])>>
  /\ kind = "messages" => Len(value) <= Cardinality(FilledFor(num))

(* Public keys and scripts are required: without one nothing is accepted.  *)
LEMMA KeysRequired ==
  ASSUME NEW t \in Types
  PROVE  \A num \in DOMAIN KindsOf(t) : KindsOf(t)[num] \in {"pubkey", "script"} => num \in Required(t)
<1>1. CASE t = "output"
  BY <1>1, KindsAre DEF KindsOf, Required, OutputKinds
<1>2. CASE t = "details"
  BY <1>2, KindsAre DEF KindsOf, Required, DetailsKinds
<1>3. CASE t = "request"
  <2>1. KindsOf(t) = RequestKinds /\ DOMAIN RequestKinds = 1..5
    BY <1>3, KindsAre DEF KindsOf
  <2>2. \A num \in 1..5 : num = 1 \/ num = 2 \/ num = 3 \/ num = 4 \/ num = 5
    OBVIOUS
  <2>3. \A num \in 1..5 : RequestKinds[num] \notin {"pubkey", "script"}
    BY <2>2 DEF RequestKinds
  <2> QED
    BY <2>1, <2>3
<1>4. CASE t = "payment"
  BY <1>4, KindsAre DEF KindsOf, Required, PaymentKinds
<1>5. CASE t = "ack"
  BY <1>5, KindsAre DEF KindsOf, Required, ACKKinds
<1>6. CASE t = "invoice"
  BY <1>6, KindsAre DEF KindsOf, Required, InvoiceRequestKinds
<1>7. CASE t = "message"
  BY <1>7, KindsAre DEF KindsOf, Required, MessageKinds
<1>8. CASE t = "encrypted"
  BY <1>8, KindsAre DEF KindsOf, Required, EncryptedMessageKinds
<1> QED
  BY <1>1, <1>2, <1>3, <1>4, <1>5, <1>6, <1>7, <1>8 DEF Types

LEMMA ValuesAsWritten ==
  ASSUME Inv, msg # NULL, sent = NULL, log # <<>>, NEW num \in DOMAIN KindsOf(type)
  PROVE  ValueAsWritten(KindsOf(type)[num], num, msg.field[num])
<1> DEFINE kinds == KindsOf(type)
           r == Stored(kinds, Blank(kinds), log)
           kind == kinds[num]
           n == Len(log)
           J == Counting(kind, num, log, n)
           v == r.field[num]
           value == msg.field[num]
<1> SUFFICES ValueAsWritten(kind, num, value)
  OBVIOUS
<1>1. /\ kinds \in Seq(KindNames) /\ AllOf(type, log)
      /\ MessageFits(kinds, r) /\ AllWhole(type, r)
      /\ value = IF num \in Nested(type) THEN New(type, num, v) ELSE v
  BY Straight
<1>2. Sound(log) /\ log \in Seq(Field) /\ n \in Nat /\ DOMAIN log = 1..n
  BY <1>1 DEF AllOf, Sound
<1>3. MessageFits(kinds, Blank(kinds)) /\ Blank(kinds).field[num] = <<>>
  BY <1>1, BlankFits
<1>4. kind \in KindNames /\ (num \in Nested(type) <=> kind \in {"message", "messages"})
  <2>1. type \in Types
    BY DEF Inv
  <2> QED
    BY <1>1, <2>1, NestedKinds
<1>5. /\ kind \in {"int", "uint32", "pubkey", "script"} => J = GivenTo(num)
      /\ kind \notin {"int", "uint32", "pubkey", "script"} => J = FilledFor(num)
  BY <1>2 DEF Counting, Counts, GivenTo, FilledFor
<1>6. ASSUME kind # "messages"
      PROVE  /\ J = {} => v = <<>>
             /\ \A j \in J : (\A i \in J : i <= j) => v = Values(kind, <<>>, log[j])
  BY <1>1, <1>2, <1>3, <1>6, ValueStored
<1>7. ASSUME kind \in {"message", "messages"}  PROVE Len(v) <= Cardinality(J)
  BY <1>1, <1>2, <1>3, <1>7, GivenStored
<1>8. J \in SUBSET (1..n)
  BY DEF Counting
<1>9. Fits(kind, v) /\ Fits(kind, value)
  <2>1. \A i \in DOMAIN kinds : Fits(kinds[i], r.field[i])
    BY <1>1, FitsMeans, Zenon
  <2>2. MessageFits(kinds, msg)
    BY Straight DEF Made
  <2>3. \A i \in DOMAIN kinds : Fits(kinds[i], msg.field[i])
    BY <1>1, <2>2, FitsMeans, Zenon
  <2> QED
    BY <2>1, <2>3
<1>10. num \in Nested(type) => Len(value) <= Len(v) /\ (kind = "message" => Len(value) = Len(v))
  <2>1. type \in Types /\ \A k \in DOMAIN v : WholeWithin(type, num, v[k])
    BY <1>1 DEF Inv, AllWhole
  <2> HIDE DEF r
  <2> QED
    BY <1>1, <1>9, <2>1, NewIs
<1>11. \A j \in J : WellFormed(log[j]) /\ log[j].key \div 8 = num /\ Counts(kind, log[j])
  BY <1>2 DEF Counting, Sound
<1>21. kind \in {"pubkey", "script"} => value # <<>>
  <2>1. type \in Types /\ \A i \in Required(type) : msg.field[i] # <<>>
    BY DEF Inv, Made
  <2> QED
    BY <2>1, KeysRequired
<1> HIDE DEF r, kinds, kind, n, J, v, value
<1>12. ASSUME kind # "messages", J # {}
       PROVE  /\ (CHOOSE j \in J : \A i \in J : i <= j) \in J
              /\ v = Values(kind, <<>>, LastOf(J))
  <2>1. \E j \in J : \A i \in J : i <= j
    BY <1>2, <1>8, <1>12, Greatest
  <2> DEFINE last == CHOOSE j \in J : \A i \in J : i <= j
  <2>2. last \in J /\ \A i \in J : i <= last
    BY <2>1
  <2>3. LastOf(J) = log[last]
    BY DEF LastOf
  <2> HIDE DEF last
  <2>4. v = Values(kind, <<>>, LastOf(J))
    BY <1>6, <1>12, <2>2, <2>3
  <2> QED
    BY <2>2, <2>4 DEF last
<1>13. ASSUME J # {}  PROVE WellFormed(LastOf(J)) /\ Counts(kind, LastOf(J))
  <2>1. \E j \in J : \A i \in J : i <= j
    BY <1>2, <1>8, <1>13, Greatest
  <2> DEFINE last == CHOOSE j \in J : \A i \in J : i <= j
  <2>2. last \in J
    BY <2>1
  <2>3. LastOf(J) = log[last]
    BY DEF LastOf
  <2> HIDE DEF last
  <2> QED
    BY <1>11, <2>2, <2>3
<1> DEFINE f == LastOf(J)
<1> HIDE DEF f
<1>14. CASE kind = "int"
  <2>1. value = v /\ J = GivenTo(num)
    BY <1>1, <1>4, <1>5, <1>14
  <2>2. J # {} => v = OneInt(f.int)
    BY <1>12, <1>14 DEF Values, f
  <2> QED
    BY <1>6, <1>14, <2>1, <2>2 DEF ValueAsWritten, f
<1>15. CASE kind = "uint32"
  <2>1. value = v /\ J = GivenTo(num)
    BY <1>1, <1>4, <1>5, <1>15
  <2>2. J # {} => v = OneInt(f.int % Span(W32))
    BY <1>12, <1>15 DEF Values, f
  <2> QED
    BY <1>6, <1>15, <2>1, <2>2 DEF ValueAsWritten, f
<1>16. CASE kind = "bytes"
  <2>1. value = v /\ J = FilledFor(num)
    BY <1>1, <1>4, <1>5, <1>16
  <2>2. J # {} => v = f.data /\ f.data # <<>>
    BY <1>12, <1>13, <1>16 DEF Values, Counts, f
  <2> QED
    BY <1>6, <1>16, <2>1, <2>2 DEF ValueAsWritten, f
<1>17. CASE kind = "string"
  <2>1. value = v /\ J = FilledFor(num)
    BY <1>1, <1>4, <1>5, <1>17
  <2>2. J # {} => v = <<ProtoBufString(f.data[1])>>
    BY <1>12, <1>13, <1>17 DEF Values, Counts, f
  <2>3. (value = <<>>) = (J = {})
    <3>1. J # {} => v # <<>>
      BY <2>2
    <3> QED
      BY <1>6, <1>17, <2>1, <3>1
  <2> QED
    BY <1>17, <2>1, <2>2, <2>3 DEF ValueAsWritten, f
<1>18. CASE kind = "message"
  <2>1. J = FilledFor(num) /\ num \in Nested(type) /\ Len(value) = Len(v)
    BY <1>1, <1>4, <1>5, <1>10, <1>18
  <2>2. J # {} => v = f.data /\ f.data # <<>>
    BY <1>12, <1>13, <1>18 DEF Values, Counts, f
  <2>3. (v = <<>>) = (J = {})
    BY <1>6, <1>18, <2>2
  <2>4. (value = <<>>) = (v = <<>>)
    <3>1. value \in Seq(Seq(Nat)) /\ v \in Seq(Seq(Nat))
      BY <1>9 DEF Fits
    <3>2. (value = <<>> <=> Len(value) = 0) /\ (v = <<>> <=> Len(v) = 0)
      BY <3>1
    <3> QED
      BY <2>1, <3>2
  <2> QED
    BY <1>18, <2>1, <2>3, <2>4 DEF ValueAsWritten
<1>19. CASE kind = "messages"
  <2>1. J = FilledFor(num) /\ num \in Nested(type) /\ Len(value) <= Len(v) /\ Len(v) <= Cardinality(J)
    BY <1>1, <1>4, <1>5, <1>7, <1>10, <1>19
  <2>2. Len(value) <= Cardinality(J)
    <3>1. IsFiniteSet(J)
      <4>1. 1 \in Int /\ n \in Int
        BY <1>2
      <4>2. IsFiniteSet(1..n)
        BY <4>1, FS_Interval
      <4> QED
        BY <1>8, <4>2, FS_Subset
    <3>2. Cardinality(J) \in Nat
      BY <3>1, FS_CardinalityType
    <3>3. Len(value) \in Nat /\ Len(v) \in Nat
      BY <1>9 DEF Fits
    <3> HIDE DEF value, v
    <3> DEFINE a == Len(value)
               b == Len(v)
               c == Cardinality(J)
    <3>4. a \in Nat /\ b \in Nat /\ c \in Nat /\ a <= b /\ b <= c
      BY <2>1, <3>2, <3>3
    <3> HIDE DEF a, b, c
    <3>5. a <= c
      BY <3>4
    <3> QED
      BY <3>5 DEF a, c
  <2> QED
    BY <1>19, <2>1, <2>2 DEF ValueAsWritten
<1>20. CASE kind = "pubkey"
  <2>1. value = v /\ J = GivenTo(num)
    BY <1>1, <1>4, <1>5, <1>20
  <2>2. ASSUME J # {}  PROVE v = f.data
    <3>1. v = Values("pubkey", <<>>, f)
      BY <1>12, <1>20, <2>2 DEF f
    <3>2. v = IF f.data # <<>> /\ IsKey(f.data[1]) THEN f.data ELSE <<>>
      BY <3>1 DEF Values
    <3> QED
      BY <1>20, <1>21, <2>1, <3>2
  <2> QED
    BY <1>6, <1>20, <1>21, <2>1, <2>2 DEF ValueAsWritten, f
<1>22. CASE kind = "script"
  <2>1. value = v /\ J = GivenTo(num)
    BY <1>1, <1>4, <1>5, <1>22
  <2>2. J # {} => v = f.data
    BY <1>12, <1>22 DEF Values, f
  <2> QED
    BY <1>6, <1>21, <1>22, <2>1, <2>2 DEF ValueAsWritten, f
<1> QED
  BY <1>4, <1>14, <1>15, <1>16, <1>17, <1>18, <1>19, <1>20, <1>22 DEF KindNames

LEMMA InvAsWritten ==
  ASSUME Inv
  PROVE  AsWritten
<1> SUFFICES ASSUME msg # NULL, sent = NULL, log # <<>>
    PROVE /\ \A num \in DOMAIN msg.field : ValueAsWritten(KindsOf(type)[num], num, msg.field[num])
          /\ \A j \in DOMAIN log :
               \/ log[j].key \div 8 \in DOMAIN msg.field
               \/ \E k \in (j + 1)..Len(log) : log[k].key = log[j].key
               \/ \E k \in DOMAIN msg.unknown : msg.unknown[k] = log[j]
  BY DEF AsWritten, ValueAsWritten, GivenTo, FilledFor
<1> DEFINE kinds == KindsOf(type)
           r == Stored(kinds, Blank(kinds), log)
<1>1. /\ kinds \in Seq(KindNames) /\ AllOf(type, log)
      /\ msg.unknown = r.unknown /\ DOMAIN msg.field = DOMAIN kinds
  BY Straight
<1>2. Sound(log) /\ DOMAIN log = 1..Len(log)
  BY <1>1 DEF AllOf, Sound
<1>3. UnknownAfter(kinds, log, Len(log), r.unknown)
  BY <1>1, <1>2, BlankFits, UnknownStored
<1>4. \A num \in DOMAIN msg.field : ValueAsWritten(kinds[num], num, msg.field[num])
  BY <1>1, ValuesAsWritten
<1> HIDE DEF r, kinds
<1>5. ASSUME NEW j \in DOMAIN log
      PROVE \/ log[j].key \div 8 \in DOMAIN msg.field
            \/ \E k \in (j + 1)..Len(log) : log[k].key = log[j].key
            \/ \E k \in DOMAIN msg.unknown : msg.unknown[k] = log[j]
  BY <1>1, <1>2, <1>3 DEF UnknownAfter
<1> QED
  BY <1>4, <1>5 DEF kinds

(* A message that was received has of every field the value that was       *)
(* written last, and of every unknown one, in whatever order they came; a  *)
(* script or a public key that is not given as bytes is never passed over  *)
(* for an earlier one (_ProtoBufField, _ProtoBufUnknown and the Parse      *)
(* functions).                                                             *)
THEOREM AlwaysAsWritten == Spec => []AsWritten
BY PaymentInvariance, InvAsWritten, PTL

-----------------------------------------------------------------------------
(* What is passed on is accepted, with the fields it had.                  *)
LEMMA PlainIs ==
  ASSUME type \in Types, NEW num \in Nested(type), NEW m, PlainWithin(m, num)
  PROVE  Plain(type, num, m.field[num])
<1>1. CASE type = "details"
  BY <1>1 DEF Nested, PlainWithin, Plain
<1>2. CASE type = "request"
  BY <1>2 DEF Nested, PlainWithin, Plain
<1>3. CASE type = "payment"
  <2>1. num \in {2, 3}
    BY <1>3 DEF Nested
  <2>2. CASE num = 2
    BY <1>3, <2>2 DEF Plain
  <2>3. CASE num = 3
    BY <1>3, <2>3 DEF PlainWithin, Plain
  <2> QED
    BY <2>1, <2>2, <2>3
<1>4. CASE type = "ack"
  BY <1>4 DEF Nested, PlainWithin, Plain
<1> QED
  BY <1>1, <1>2, <1>3, <1>4 DEF Nested

LEMMA PassedOn ==
  ASSUME NEW t \in Types, NEW m, Made(t, m)
  PROVE  LET r == Read(KindsOf(t), Serialized(KindsOf(t), m))
             p == ParseOf(t, Serialized(KindsOf(t), m))
         IN /\ p # NULL /\ p.unknown = r.unknown
            /\ \A num \in DOMAIN KindsOf(t) :
                 (num \in Nested(t) => Plain(t, num, m.field[num])) => p.field[num] = m.field[num]
<1> DEFINE kinds == KindsOf(t)
           w == Serialized(kinds, m)
           r == Read(kinds, w)
           p == Again(t, r)
<1>1. /\ kinds \in Seq(KindNames) /\ 1 \in DOMAIN kinds /\ MessageFits(kinds, m)
      /\ \A num \in Required(t) : num \in DOMAIN kinds
  BY TypeKinds DEF Made
<1>2. AllOf(t, Whereof(kinds, m)) /\ w = Written(Whereof(kinds, m))
  BY RelayMade
<1>3. MessageFits(kinds, r) /\ AllWhole(t, r)
  BY <1>2, ReadWhole
<1>4. r.field = m.field
  BY <1>1, Relayed
<1>5. ParseOf(t, w) = IfComplete(p, Required(t))
  BY ParseIs
<1>6. /\ \A num \in Required(t) : m.field[num] # <<>> /\ kinds[num] # "messages"
      /\ \A num \in Nested(t) : /\ num \in DOMAIN kinds /\ kinds[num] \in {"message", "messages"}
                                /\ \A k \in DOMAIN m.field[num] : ValueMade(t, num, m.field[num][k])
  BY NestedKinds DEF Made
<1> HIDE DEF w, r
<1>7. /\ MessageFits(kinds, p) /\ p.unknown = r.unknown
      /\ \A num \in DOMAIN kinds :
           p.field[num] = IF num \in Nested(t) THEN New(t, num, m.field[num]) ELSE m.field[num]
  BY <1>3, <1>4, AgainIs
<1> HIDE DEF p
<1>8. \A num \in DOMAIN kinds : Fits(kinds[num], m.field[num]) /\ Fits(kinds[num], p.field[num])
  <2>1. \A num \in DOMAIN kinds : Fits(kinds[num], m.field[num])
    BY <1>1, FitsMeans, Zenon
  <2>2. \A num \in DOMAIN kinds : Fits(kinds[num], p.field[num])
    BY <1>1, <1>7, FitsMeans, Zenon
  <2> QED
    BY <2>1, <2>2
<1>9. ASSUME NEW num \in Nested(t)
      PROVE  /\ (kinds[num] = "message" => Len(p.field[num]) = Len(m.field[num]))
             /\ Plain(t, num, m.field[num]) => p.field[num] = m.field[num]
  <2>1. num \in DOMAIN kinds /\ p.field[num] = New(t, num, m.field[num])
    BY <1>6, <1>7
  <2>2. \A x \in DOMAIN m.field[num] : WholeWithin(t, num, m.field[num][x])
    BY <2>1 DEF Made, AllWhole
  <2>3. Fits(KindsOf(t)[num], m.field[num])
    BY <1>8, <2>1
  <2>4. /\ (KindsOf(t)[num] = "message" => Len(New(t, num, m.field[num])) = Len(m.field[num]))
        /\ (\A k \in DOMAIN m.field[num] : ValueMade(t, num, m.field[num][k])) /\ Plain(t, num, m.field[num])
             => New(t, num, m.field[num]) = m.field[num]
    BY <2>2, <2>3, NewIs
  <2> QED
    BY <1>6, <2>1, <2>4
<1> HIDE DEF kinds
<1>10. ASSUME NEW num \in Required(t)  PROVE p.field[num] # <<>>
  <2>1. CASE num \notin Nested(t)
    BY <1>1, <1>6, <1>7, <2>1
  <2>2. CASE num \in Nested(t)
    <3>1. num \in DOMAIN kinds /\ kinds[num] = "message" /\ m.field[num] # <<>>
      BY <1>6, <2>2
    <3>2. Len(p.field[num]) = Len(m.field[num])
      BY <1>9, <2>2, <3>1
    <3>3. p.field[num] \in Seq(Seq(Nat)) /\ m.field[num] \in Seq(Seq(Nat))
      BY <1>8, <3>1 DEF Fits
    <3> QED
      BY <3>1, <3>2, <3>3
  <2> QED
    BY <2>1, <2>2
<1>11. ParseOf(t, w) = p /\ p # NULL
  BY <1>1, <1>5, <1>7, <1>10, Complete
<1>12. \A num \in DOMAIN kinds :
         (num \in Nested(t) => Plain(t, num, m.field[num])) => p.field[num] = m.field[num]
  BY <1>7, <1>9
<1> QED
  BY <1>7, <1>11, <1>12 DEF r, w, kinds

LEMMA RelayReturns ==
  ASSUME NEW t \in Types, NEW m, Made(t, m)
  PROVE  ParseReturns(t, Serialized(KindsOf(t), m))
<1> DEFINE kinds == KindsOf(t)
           w == Serialized(kinds, m)
           fs == Whereof(kinds, m)
<1>1. kinds \in Seq(KindNames) /\ MessageFits(kinds, m)
  BY TypeKinds DEF Made
<1>2. /\ \A num \in DOMAIN kinds : Fits(kinds[num], m.field[num])
      /\ \A k \in DOMAIN m.unknown : m.unknown[k].key \div 8 \notin DOMAIN kinds
  BY <1>1, FitsMeans, Zenon
<1>3. /\ FieldsFrom(w) = fs
      /\ \A k \in DOMAIN fs : \/ OneOf(kinds, m, Len(kinds), fs[k])
                              \/ \E x \in DOMAIN m.unknown : fs[k] = m.unknown[x]
  BY <1>1, WhereofIs
<1>4. FieldsReturn(kinds, w)
  BY <1>1, WrittenWhole
<1>5. \A num \in Nested(t) : /\ num \in DOMAIN kinds /\ kinds[num] \in {"message", "messages"}
                            /\ \A k \in DOMAIN m.field[num] : ValueMade(t, num, m.field[num][k])
  BY NestedKinds DEF Made
<1> HIDE DEF kinds, w, fs
<1>6. ASSUME NEW j \in DOMAIN fs, NEW k \in DOMAIN fs[j].data, fs[j].key \div 8 \in Nested(t)
      PROVE  ValueMade(t, fs[j].key \div 8, fs[j].data[k])
  <2> DEFINE f == fs[j]
  <2>1. f.key \div 8 \in DOMAIN kinds
    BY <1>5, <1>6
  <2>2. OneOf(kinds, m, Len(kinds), f)
    BY <1>2, <1>3, <2>1
  <2> HIDE DEF f
  <2>3. PICK num \in 1..Len(kinds) : \E x \in DOMAIN m.field[num] : f = FieldOf(kinds[num], num, m.field[num][x])
    BY <2>2 DEF OneOf
  <2>4. PICK x \in DOMAIN m.field[num] : f = FieldOf(kinds[num], num, m.field[num][x])
    BY <2>3
  <2> DEFINE v == m.field[num][x]
  <2>5. num \in DOMAIN kinds /\ num \in Nat /\ kinds[num] \in KindNames
    BY <1>1
  <2>6. v \in Seq(Nat) /\ ValueFits(kinds[num], v)
    BY <1>2, <2>5 DEF Fits
  <2>7. f = FieldOf(kinds[num], num, v)
    BY <2>4
  <2>8. num \in Nested(t) => ValueMade(t, num, v)
    BY <1>5
  <2> HIDE DEF v
  <2>9. f.key \div 8 = num /\ (kinds[num] \notin {"int", "uint32"} => f.data = <<v>>)
    BY <2>5, <2>6, <2>7, FieldOfIs
  <2>10. num \in Nested(t) /\ f.data = <<v>>
    BY <1>5, <1>6, <2>9 DEF f
  <2>11. k = 1 /\ f.data[k] = v
    BY <2>10 DEF f
  <2> QED
    BY <2>8, <2>9, <2>10, <2>11 DEF f
<1>7. ASSUME NEW j \in DOMAIN fs, NEW k \in DOMAIN fs[j].data
      PROVE  ReturnsWithin(t, fs[j].key \div 8, fs[j].data[k])
  <2> DEFINE num == fs[j].key \div 8
             v == fs[j].data[k]
  <2>1. num \in Nested(t) => ValueMade(t, num, v)
    BY <1>6
  <2> HIDE DEF num, v
  <2>2. CASE t = "request" /\ num = 4
    BY <2>1, <2>2 DEF Nested, ValueMade, DetailsMade, ReturnsWithin, num, v
  <2>3. CASE t = "ack" /\ num = 1
    BY <2>1, <2>3 DEF Nested, ValueMade, PaymentMade, ReturnsWithin, num, v
  <2>4. CASE ~(t = "request" /\ num = 4) /\ ~(t = "ack" /\ num = 1)
    BY <2>4 DEF ReturnsWithin, num
  <2> QED
    BY <2>2, <2>3, <2>4
<1> QED
  BY <1>3, <1>4, <1>7 DEF ParseReturns, kinds, w

LEMMA InvRelayed ==
  ASSUME Inv
  PROVE  RelayKeepsFields
<1> SUFFICES ASSUME sent # NULL, log = <<>>
    PROVE LET m == ParseOf(type, wire)
          IN /\ ParseReturns(type, wire) /\ m # NULL
             /\ \A num \in DOMAIN sent.field :
                  PlainWithin(sent, num) => m.field[num] = sent.field[num]
             /\ ToSet(m.unknown) \subseteq ToSet(sent.unknown)
             /\ Keys(m.unknown) = Keys(sent.unknown)
             /\ Cardinality(Keys(sent.unknown)) = Len(sent.unknown) =>
                  ToSet(m.unknown) = ToSet(sent.unknown)
  BY DEF RelayKeepsFields
<1> DEFINE kinds == KindsOf(type)
           w == Serialized(kinds, sent)
           r == Read(kinds, w)
           m == ParseOf(type, w)
           u == sent.unknown
           v == r.unknown
<1>1. type \in Types /\ Made(type, sent) /\ wire = Written(Begun \o log)
  BY DEF Inv
<1>2. kinds \in Seq(KindNames) /\ 1 \in DOMAIN kinds /\ MessageFits(kinds, sent)
  BY <1>1, TypeKinds DEF Made
<1>3. wire = w
  <2>1. AllOf(type, Whereof(kinds, sent)) /\ w = Written(Whereof(kinds, sent))
    BY <1>1, RelayMade
  <2>2. Begun \o log = Whereof(kinds, sent)
    BY <2>1 DEF Begun, AllOf, Sound
  <2> QED
    BY <1>1, <2>1, <2>2
<1>13. ParseReturns(type, w)
  BY <1>1, RelayReturns
<1>4. /\ m # NULL /\ m.unknown = v
      /\ \A num \in DOMAIN kinds :
           (num \in Nested(type) => Plain(type, num, sent.field[num])) => m.field[num] = sent.field[num]
  BY <1>1, PassedOn
<1>5. /\ \A x \in DOMAIN v : \E y \in DOMAIN u : v[x] = u[y]
      /\ \A y \in DOMAIN u :
           /\ \E x \in DOMAIN v : v[x].key = u[y].key
           /\ \/ \E z \in (y + 1)..Len(u) : u[z].key = u[y].key
              \/ \E x \in DOMAIN v : v[x] = u[y]
  BY <1>2, Relayed
<1>6. DOMAIN sent.field = DOMAIN kinds
  BY <1>2, Complete
<1>7. Sound(u)
  BY <1>2, FitsMeans, Zenon
<1>8. Len(u) \in Nat /\ DOMAIN u = 1..Len(u)
  BY <1>7 DEF Sound
<1> HIDE DEF kinds, w, r, m, v, u
<1>9. ToSet(v) \subseteq ToSet(u)
  BY <1>5 DEF ToSet
<1>10. Keys(v) = Keys(u)
  BY <1>5 DEF Keys
<1>11. ASSUME Cardinality(Keys(u)) = Len(u)  PROVE ToSet(v) = ToSet(u)
  <2> DEFINE n == Len(u)
             key == [k \in 1..n |-> u[k].key]
  <2>1. IsFiniteSet(1..n) /\ Cardinality(1..n) = n
    <3>1. 1 \in Int /\ n \in Int /\ (1 > n => n = 0)
      BY <1>8
    <3>2. /\ IsFiniteSet(1..n)
          /\ Cardinality(1..n) = IF 1 > n THEN 0 ELSE n - 1 + 1
      BY <3>1, FS_Interval
    <3> QED
      BY <3>1, <3>2
  <2>2. Keys(u) = {key[k] : k \in 1..n}
    BY <1>8 DEF Keys
  <2>3. ASSUME NEW y \in 1..n, NEW z \in (y + 1)..n, u[z].key = u[y].key  PROVE FALSE
    <3>1. y \in 1..n /\ z \in 1..n /\ y # z
      BY <1>8, <2>3
    <3> HIDE DEF n
    <3>2. key \in Surjection(1..n, Keys(u))
      <4> DEFINE T == Keys(u)
      <4>1. T = {key[k] : k \in 1..n}
        BY <2>2
      <4> HIDE DEF T
      <4>2. key \in [1..n -> T] /\ \A x \in T : \E k \in 1..n : key[k] = x
        <5>1. key = [k \in 1..n |-> key[k]]
          OBVIOUS
        <5> HIDE DEF key
        <5> QED
          BY <4>1, <5>1
      <4> HIDE DEF key
      <4> QED
        BY <4>2 DEF Surjection, T
    <3>3. key[y] = key[z]
      BY <2>3, <3>1
    <3> HIDE DEF key
    <3>4. key \in Injection(1..n, Keys(u))
      BY <1>11, <2>1, <3>2, FS_Surjection DEF n
    <3> QED
      BY <3>1, <3>3, <3>4 DEF Injection, IsInjective
  <2>4. \A y \in DOMAIN u : \E x \in DOMAIN v : v[x] = u[y]
    BY <1>5, <1>8, <2>3
  <2>5. ToSet(u) \subseteq ToSet(v)
    BY <2>4 DEF ToSet
  <2> QED
    BY <1>9, <2>5
<1>12. \A num \in DOMAIN sent.field : PlainWithin(sent, num) => m.field[num] = sent.field[num]
  BY <1>1, <1>4, <1>6, PlainIs
<1> QED
  BY <1>3, <1>4, <1>9, <1>10, <1>11, <1>12, <1>13 DEF m, u

(* A message that is serialised and parsed again is accepted and has the   *)
(* same fields; its unknown fields are among those it had, every key is    *)
(* still there, and so are all of them if no key was there twice (the      *)
(* Serialize and Parse functions).                                         *)
THEOREM AlwaysRelayed == Spec => []RelayKeepsFields
BY PaymentInvariance, InvRelayed, PTL

-----------------------------------------------------------------------------
(* Fields in the order of their numbers.                                   *)
Number(f) == f.key \div 8
Rising(s) == \A j, k \in DOMAIN s : j < k => Number(s[j]) < Number(s[k])

LEMMA NumberType ==
  ASSUME NEW f \in Field
  PROVE  Number(f) \in Nat
BY DEF Field, Number

LEMMA PlaceType ==
  ASSUME NEW s \in Seq(Field)
  PROVE  \A p \in 1..Len(s) : p \in Nat
OBVIOUS

LEMMA NotBefore ==
  ASSUME NEW s \in Seq(Field), NEW t \in Seq(Field), Rising(s), NEW k \in DOMAIN s,
         \A i \in 1..(k - 1) : s[i] = t[i], NEW p \in DOMAIN t, s[k] = t[p]
  PROVE  k <= p /\ k \in DOMAIN t
<1>1. k \in 1..Len(s) /\ p \in 1..Len(t) /\ Len(s) \in Nat /\ Len(t) \in Nat
  OBVIOUS
<1>2. ASSUME p < k  PROVE FALSE
  <2>1. p \in 1..(k - 1) /\ p \in DOMAIN s
    BY <1>1, <1>2
  <2>2. Number(s[p]) = Number(s[k]) /\ s[p] \in Field
    BY <2>1
  <2>3. Number(s[p]) < Number(s[k])
    BY <1>2, <2>1 DEF Rising
  <2> QED
    BY <2>2, <2>3, NumberType
<1> QED
  BY <1>1, <1>2

LEMMA SameRising ==
  ASSUME NEW s \in Seq(Field), NEW t \in Seq(Field), Rising(s), Rising(t),
         \A j \in DOMAIN s : \E k \in DOMAIN t : s[j] = t[k],
         \A k \in DOMAIN t : \E j \in DOMAIN s : t[k] = s[j]
  PROVE  s = t
<1> DEFINE n == Len(s) + Len(t)
           Same(i) == (i \in DOMAIN s <=> i \in DOMAIN t) /\ (i \in DOMAIN s => s[i] = t[i])
           S == {k \in 0..n : \A i \in 1..k : Same(i)}
<1>1. /\ Len(s) \in Nat /\ Len(t) \in Nat /\ n \in Nat
      /\ DOMAIN s = 1..Len(s) /\ DOMAIN t = 1..Len(t)
  OBVIOUS
<1>2. 0 \in S
  BY <1>1
<1>3. ASSUME NEW k \in 1..n, k - 1 \in S  PROVE k \in S
  <2>1. k \in 0..n /\ k \in Nat /\ \A i \in 1..(k - 1) : Same(i)
    BY <1>1, <1>3
  <2>2. k \in DOMAIN s \/ k \in DOMAIN t => \A i \in 1..(k - 1) : s[i] = t[i]
    BY <1>1, <2>1
  <2>3. ASSUME k \in DOMAIN s
        PROVE  k \in DOMAIN t /\ \E p \in DOMAIN t : k <= p /\ s[k] = t[p]
    <3>1. PICK p \in DOMAIN t : s[k] = t[p]
      BY <2>3
    <3> QED
      BY <2>2, <2>3, <3>1, NotBefore
  <2>4. ASSUME k \in DOMAIN t
        PROVE  k \in DOMAIN s /\ \E q \in DOMAIN s : k <= q /\ t[k] = s[q]
    <3>1. PICK q \in DOMAIN s : t[k] = s[q]
      BY <2>4
    <3>2. \A i \in 1..(k - 1) : t[i] = s[i]
      BY <2>2, <2>4
    <3> QED
      BY <2>4, <3>1, <3>2, NotBefore
  <2>5. ASSUME k \in DOMAIN s  PROVE s[k] = t[k]
    <3>1. PICK p \in DOMAIN t : k <= p /\ s[k] = t[p]
      BY <2>3, <2>5
    <3>2. k \in DOMAIN t
      BY <2>3, <2>5
    <3>3. PICK q \in DOMAIN s : k <= q /\ t[k] = s[q]
      BY <2>4, <3>2
    <3> DEFINE a == Number(s[k])
               b == Number(t[k])
    <3>4. s[k] \in Field /\ t[k] \in Field
      BY <2>5, <3>2
    <3>5. a \in Nat /\ b \in Nat
      BY <3>4, NumberType
    <3>6. p \in Nat /\ q \in Nat /\ k \in Nat
      <4>1. p \in 1..Len(t) /\ q \in 1..Len(s)
        BY <1>1
      <4>2. p \in Nat /\ q \in Nat
        BY <4>1, PlaceType
      <4>3. k \in Nat
        BY <1>1
      <4> QED
        BY <4>2, <4>3
    <3>7. k # p => b < a
      <4>1. k # p => k < p
        BY <3>1, <3>6
      <4> QED
        BY <3>1, <3>2, <4>1 DEF Rising
    <3>8. k # q => a < b
      <4>1. k # q => k < q
        BY <3>3, <3>6
      <4> QED
        BY <2>5, <3>3, <4>1 DEF Rising
    <3> HIDE DEF a, b
    <3>9. k = p \/ k = q
      BY <3>5, <3>7, <3>8
    <3> QED
      BY <3>1, <3>3, <3>9
  <2>6. Same(k)
    BY <2>3, <2>4, <2>5
  <2>7. \A i \in 1..k : i = k \/ i \in 1..(k - 1)
    BY <2>1
  <2> HIDE DEF Same
  <2> QED
    BY <2>1, <2>6, <2>7
<1>4. \A i \in 1..n : Same(i)
  <2> HIDE DEF S
  <2>1. \A k \in 0..n : k \in S
    BY <1>1, <1>2, <1>3, AllUpTo
  <2>2. n \in S
    BY <1>1, <2>1
  <2> QED
    BY <2>2 DEF S
<1>5. \A i : i \in DOMAIN s \/ i \in DOMAIN t => i \in 1..n
  BY <1>1
<1>6. \A i : (i \in DOMAIN s <=> i \in DOMAIN t) /\ (i \in DOMAIN s => s[i] = t[i])
  <2> HIDE DEF n
  <2> QED
    BY <1>4, <1>5
<1>7. DOMAIN s = DOMAIN t /\ \A i \in DOMAIN s : s[i] = t[i]
  BY <1>6
<1> HIDE DEF n, Same, S
<1> QED
  BY <1>1, <1>7

LEMMA RisingAppend ==
  ASSUME NEW s \in Seq(Field), Rising(s), NEW g \in Field,
         \A j \in DOMAIN s : Number(s[j]) < Number(g)
  PROVE  Rising(Append(s, g))
<1> DEFINE r == Append(s, g)
<1>1. /\ Len(s) \in Nat /\ DOMAIN s = 1..Len(s) /\ DOMAIN r = 1..(Len(s) + 1)
      /\ r[Len(s) + 1] = g /\ \A j \in DOMAIN s : r[j] = s[j]
  OBVIOUS
<1> HIDE DEF r
<1>2. ASSUME NEW j \in DOMAIN r, NEW k \in DOMAIN r, j < k
      PROVE Number(r[j]) < Number(r[k])
  <2>1. j \in DOMAIN s
    BY <1>1, <1>2
  <2>2. CASE k = Len(s) + 1
    BY <1>1, <2>1, <2>2
  <2>3. CASE k # Len(s) + 1
    <3>1. k \in DOMAIN s
      BY <1>1, <2>3
    <3> QED
      BY <1>1, <1>2, <2>1, <3>1 DEF Rising
  <2> QED
    BY <2>2, <2>3
<1> QED
  BY <1>2 DEF Rising, r

(* A message without repeated fields is written in that order.             *)
Only(kinds, m, num) == FieldOf(kinds[num], num, m.field[num][1])
Ordered(kinds, m, s, k) ==
  /\ s \in Seq(Field) /\ Rising(s)
  /\ \A x \in DOMAIN s : \E num \in 1..k : m.field[num] # <<>> /\ s[x] = Only(kinds, m, num)
  /\ \A num \in 1..k : m.field[num] # <<>> => \E x \in DOMAIN s : s[x] = Only(kinds, m, num)

LEMMA OnlyIs ==
  ASSUME NEW kinds \in Seq(KindNames), NEW m, MessageFits(kinds, m), NEW num \in DOMAIN kinds
  PROVE  /\ m.field[num] # <<>> =>
              /\ Only(kinds, m, num) \in Field /\ Number(Only(kinds, m, num)) = num
              /\ m.field[num][1] \in Seq(Nat) /\ ValueFits(kinds[num], m.field[num][1])
              /\ Len(m.field[num]) <= 1 => Row(kinds, m, num) = <<Only(kinds, m, num)>>
         /\ m.field[num] = <<>> => Row(kinds, m, num) = <<>>
<1> DEFINE values == m.field[num]
           row == Row(kinds, m, num)
           n == Len(values)
<1>1. /\ Sound(row) /\ Len(row) = n /\ n \in Nat /\ DOMAIN values = 1..n
      /\ \A k \in DOMAIN values :
           /\ row[k] = FieldOf(kinds[num], num, values[k]) /\ row[k].key \div 8 = num
           /\ values[k] \in Seq(Nat) /\ ValueFits(kinds[num], values[k])
  BY RowIs
<1>2. values \in Seq(Seq(Nat))
  <2>1. Fits(kinds[num], values)
    BY FitsMeans, Zenon
  <2> QED
    BY <2>1 DEF Fits
<1>3. row \in Seq(Field)
  BY <1>1 DEF Sound
<1>4. (values = <<>> <=> n = 0) /\ (n = 0 => row = <<>>) /\ (n = 1 => row = <<row[1]>>)
  BY <1>1, <1>2, <1>3
<1> HIDE DEF row, n
<1>5. ASSUME values # <<>>
      PROVE  /\ 1 \in DOMAIN values /\ row[1] = Only(kinds, m, num) /\ row[1] \in Field
             /\ n <= 1 => n = 1
  <2>1. 1 \in DOMAIN values
    BY <1>1, <1>4, <1>5
  <2>2. row[1] = Only(kinds, m, num)
    BY <1>1, <2>1 DEF Only
  <2>3. 1 \in DOMAIN row
    BY <1>1, <1>3, <1>4, <1>5
  <2> QED
    BY <1>1, <1>3, <1>4, <1>5, <2>1, <2>2, <2>3
<1> HIDE DEF values
<1>6. values # <<>> => /\ Only(kinds, m, num) \in Field /\ Number(Only(kinds, m, num)) = num
                       /\ values[1] \in Seq(Nat) /\ ValueFits(kinds[num], values[1])
  BY <1>1, <1>5 DEF Number
<1> QED
  BY <1>4, <1>5, <1>6 DEF row, values, n

LEMMA OrderedNext ==
  ASSUME NEW kinds \in Seq(KindNames), NEW m, MessageFits(kinds, m),
         NEW k \in DOMAIN kinds, Len(m.field[k]) <= 1, NEW s, Ordered(kinds, m, s, k - 1)
  PROVE  Ordered(kinds, m, s \o Row(kinds, m, k), k)
<1> DEFINE g == Only(kinds, m, k)
           value == m.field[k]
<1>1. /\ s \in Seq(Field) /\ Rising(s)
      /\ \A x \in DOMAIN s : \E num \in 1..(k - 1) : m.field[num] # <<>> /\ s[x] = Only(kinds, m, num)
      /\ \A num \in 1..(k - 1) : m.field[num] # <<>> => \E x \in DOMAIN s : s[x] = Only(kinds, m, num)
  BY DEF Ordered
<1>2. /\ k \in Nat /\ k \in 1..k /\ \A num \in 1..(k - 1) : num \in 1..k /\ num < k /\ num \in DOMAIN kinds
      /\ \A num \in 1..k : num = k \/ num \in 1..(k - 1)
  OBVIOUS
<1>3. CASE value = <<>>
  <2>1. s \o Row(kinds, m, k) = s
    <3>1. Row(kinds, m, k) = <<>>
      BY <1>3, OnlyIs
    <3> QED
      BY <1>1, <3>1
  <2>2. \A x \in DOMAIN s : \E num \in 1..k : m.field[num] # <<>> /\ s[x] = Only(kinds, m, num)
    BY <1>1, <1>2
  <2>3. \A num \in 1..k : m.field[num] # <<>> => \E x \in DOMAIN s : s[x] = Only(kinds, m, num)
    BY <1>1, <1>2, <1>3
  <2> QED
    BY <1>1, <2>1, <2>2, <2>3 DEF Ordered
<1>4. CASE value # <<>>
  <2> DEFINE r == Append(s, g)
  <2>1. Row(kinds, m, k) = <<g>> /\ g \in Field /\ Number(g) = k
    BY <1>4, OnlyIs
  <2>2. \A num \in 1..(k - 1) : m.field[num] # <<>> => Number(Only(kinds, m, num)) = num
    BY <1>2, OnlyIs
  <2> HIDE DEF g
  <2>3. s \o Row(kinds, m, k) = r
    BY <1>1, <2>1
  <2>4. \A x \in DOMAIN s : Number(s[x]) < Number(g)
    BY <1>1, <1>2, <2>1, <2>2
  <2>5. Rising(r)
    BY <1>1, <2>1, <2>4, RisingAppend
  <2>6. /\ r \in Seq(Field) /\ Len(s) \in Nat /\ DOMAIN s = 1..Len(s) /\ DOMAIN r = 1..(Len(s) + 1)
        /\ r[Len(s) + 1] = g /\ \A x \in DOMAIN s : r[x] = s[x]
    BY <1>1, <2>1
  <2> HIDE DEF r
  <2> DEFINE n == Len(s)
  <2> HIDE DEF n
  <2>7. \A x \in DOMAIN r : x \in DOMAIN s \/ x = n + 1
    BY <2>6 DEF n
  <2>8. n + 1 \in DOMAIN r /\ \A x \in DOMAIN s : x \in DOMAIN r
    BY <2>6 DEF n
  <2>9. r[n + 1] = g
    BY <2>6 DEF n
  <2>10. \A x \in DOMAIN r : \E num \in 1..k : m.field[num] # <<>> /\ r[x] = Only(kinds, m, num)
    <3> TAKE x \in DOMAIN r
    <3>1. CASE x \in DOMAIN s
      BY <1>1, <1>2, <2>6, <3>1
    <3>2. CASE x = n + 1
      BY <1>2, <1>4, <2>9, <3>2 DEF g
    <3> QED
      BY <2>7, <3>1, <3>2
  <2>11. \A num \in 1..k : m.field[num] # <<>> => \E x \in DOMAIN r : r[x] = Only(kinds, m, num)
    <3> SUFFICES ASSUME NEW num \in 1..k, m.field[num] # <<>>
                 PROVE  \E x \in DOMAIN r : r[x] = Only(kinds, m, num)
      OBVIOUS
    <3>1. CASE num = k
      BY <2>8, <2>9, <3>1 DEF g
    <3>2. CASE num \in 1..(k - 1)
      BY <1>1, <2>6, <2>8, <3>2
    <3> QED
      BY <1>2, <3>1, <3>2
  <2> QED
    BY <2>3, <2>5, <2>6, <2>10, <2>11 DEF Ordered
<1> QED
  BY <1>3, <1>4

LEMMA KnownOrdered ==
  ASSUME NEW kinds \in Seq(KindNames), NEW m, MessageFits(kinds, m),
         \A num \in DOMAIN kinds : Len(m.field[num]) <= 1
  PROVE  Ordered(kinds, m, KnownFields(kinds, m), Len(kinds))
<1> DEFINE n == Len(kinds)
           rows == [num \in DOMAIN kinds |-> Row(kinds, m, num)]
<1>1. n \in Nat /\ DOMAIN kinds = 1..n
  OBVIOUS
<1>2. \A num \in 1..n : Row(kinds, m, num) \in Seq(Field)
  <2>1. \A num \in 1..n : Sound(Row(kinds, m, num))
    BY <1>1, RowIs
  <2> QED
    BY <2>1 DEF Sound
<1>3. rows \in Seq(Seq(Field)) /\ Len(rows) = n /\ \A num \in 1..n : rows[num] = Row(kinds, m, num)
  <2>1. rows = [num \in 1..n |-> Row(kinds, m, num)]
    BY <1>1
  <2>2. rows \in [1..n -> Seq(Field)]
    BY <1>2, <2>1
  <2> QED
    BY <1>1, <2>1, <2>2
<1>4. KnownFields(kinds, m) = FlattenSeq(rows)
  BY DEF KnownFields, Row
<1> HIDE DEF rows
<1>5. PICK f : Accumulates(f, rows, Field) /\ FlattenSeq(rows) = f[n]
  <2>1. \E f : Accumulates(f, rows, Field) /\ FlattenSeq(rows) = f[Len(rows)]
    BY <1>3, FlattenPrefixes
  <2> QED
    BY <1>3, <2>1
<1>6. f[0] = <<>> /\ \A k \in 1..n : f[k] = f[k - 1] \o Row(kinds, m, k)
  BY <1>3, <1>5 DEF Accumulates
<1> DEFINE S == {k \in 0..n : Ordered(kinds, m, f[k], k)}
<1> HIDE DEF n
<1>7. 0 \in S
  <2>1. <<>> \in Seq(Field) /\ DOMAIN <<>> = {} /\ 1..0 = {}
    OBVIOUS
  <2>2. Ordered(kinds, m, <<>>, 0)
    BY <2>1 DEF Ordered, Rising
  <2> QED
    BY <1>1, <1>6, <2>2
<1>8. ASSUME NEW k \in 1..n, k - 1 \in S  PROVE k \in S
  <2>1. Ordered(kinds, m, f[k - 1], k - 1) /\ k \in DOMAIN kinds /\ k \in 0..n
    BY <1>1, <1>8
  <2>2. f[k] = f[k - 1] \o Row(kinds, m, k)
    BY <1>6
  <2>3. Ordered(kinds, m, f[k], k)
    BY <2>1, <2>2, OrderedNext
  <2> QED
    BY <2>1, <2>3
<1>9. n \in S
  <2> HIDE DEF S
  <2>1. \A k \in 0..n : k \in S
    BY <1>1, <1>7, <1>8, AllUpTo
  <2>2. n \in 0..n
    BY <1>1
  <2> QED
    BY <2>1, <2>2
<1> QED
  BY <1>4, <1>5, <1>9 DEF n

LEMMA WhereofRising ==
  ASSUME NEW kinds \in Seq(KindNames), NEW m, MessageFits(kinds, m),
         \A num \in DOMAIN kinds : Len(m.field[num]) <= 1, Len(m.unknown) <= 1,
         \A y \in DOMAIN m.unknown : Number(m.unknown[y]) > Len(kinds)
  PROVE  LET w == Whereof(kinds, m) IN
         /\ w \in Seq(Field) /\ Rising(w)
         /\ \A x \in DOMAIN w :
              \/ \E num \in DOMAIN kinds : m.field[num] # <<>> /\ w[x] = Only(kinds, m, num)
              \/ \E y \in DOMAIN m.unknown : w[x] = m.unknown[y]
         /\ \A num \in DOMAIN kinds :
              m.field[num] # <<>> => \E x \in DOMAIN w : w[x] = Only(kinds, m, num)
         /\ \A y \in DOMAIN m.unknown : \E x \in DOMAIN w : w[x] = m.unknown[y]
<1> DEFINE s == KnownFields(kinds, m)
           u == m.unknown
           n == Len(kinds)
           w == Whereof(kinds, m)
<1>1. n \in Nat /\ DOMAIN kinds = 1..n
  OBVIOUS
<1>2. /\ s \in Seq(Field) /\ Rising(s)
      /\ \A x \in DOMAIN s : \E num \in 1..n : m.field[num] # <<>> /\ s[x] = Only(kinds, m, num)
      /\ \A num \in 1..n : m.field[num] # <<>> => \E x \in DOMAIN s : s[x] = Only(kinds, m, num)
  BY KnownOrdered DEF Ordered
<1>3. \A num \in 1..n : m.field[num] # <<>> => Number(Only(kinds, m, num)) = num
  BY <1>1, OnlyIs
<1>4. u \in Seq(Field) /\ DOMAIN u = 1..Len(u) /\ Len(u) \in Nat
  <2>1. Sound(u)
    BY FitsMeans, Zenon
  <2> QED
    BY <2>1 DEF Sound
<1>5. w = s \o u
  BY DEF Whereof
<1> HIDE DEF s, u, n, w
<1>6. CASE u = <<>>
  <2>1. w = s
    BY <1>2, <1>5, <1>6
  <2>2. DOMAIN u = {}
    BY <1>6
  <2> QED
    BY <1>1, <1>2, <2>1, <2>2 DEF w, u
<1>7. CASE u # <<>>
  <2> DEFINE g == u[1]
  <2>1. Len(u) = 1 /\ u = <<g>> /\ g \in Field /\ DOMAIN u = {1}
    <3>1. Len(u) = 1
      BY <1>4, <1>7, NotNone DEF u
    <3> QED
      BY <1>4, <3>1
  <2>2. Number(g) > n
    BY <2>1 DEF u, n
  <2> HIDE DEF g
  <2>3. w = Append(s, g)
    BY <1>2, <1>5, <2>1
  <2>4. \A x \in DOMAIN s : Number(s[x]) < Number(g)
    <3> TAKE x \in DOMAIN s
    <3>1. PICK num \in 1..n : m.field[num] # <<>> /\ s[x] = Only(kinds, m, num)
      BY <1>2
    <3>2. Number(s[x]) = num
      BY <1>3, <3>1
    <3>3. Number(g) \in Nat
      BY <2>1, NumberType
    <3> QED
      BY <1>1, <2>2, <3>2, <3>3
  <2>5. Rising(w)
    BY <1>2, <2>1, <2>3, <2>4, RisingAppend
  <2> DEFINE a == Len(s)
  <2>6. /\ w \in Seq(Field) /\ a \in Nat /\ DOMAIN s = 1..a /\ DOMAIN w = 1..(a + 1)
        /\ w[a + 1] = g /\ \A x \in DOMAIN s : w[x] = s[x]
    BY <1>2, <2>1, <2>3
  <2> HIDE DEF a
  <2>7. /\ \A x \in DOMAIN w : x \in DOMAIN s \/ x = a + 1
        /\ a + 1 \in DOMAIN w /\ \A x \in DOMAIN s : x \in DOMAIN w
    BY <2>6
  <2>8. \A y \in DOMAIN u : u[y] = g
    BY <2>1 DEF g
  <2>9. \A y \in DOMAIN u : \E x \in DOMAIN w : w[x] = u[y]
    BY <2>6, <2>7, <2>8
  <2>10. \A num \in 1..n : m.field[num] # <<>> => \E x \in DOMAIN w : w[x] = Only(kinds, m, num)
    BY <1>2, <2>6, <2>7
  <2>11. \A x \in DOMAIN w :
           \/ \E num \in 1..n : m.field[num] # <<>> /\ w[x] = Only(kinds, m, num)
           \/ \E y \in DOMAIN u : w[x] = u[y]
    <3> TAKE x \in DOMAIN w
    <3>1. CASE x \in DOMAIN s
      BY <1>2, <2>6, <3>1
    <3>2. CASE x = a + 1
      BY <2>1, <2>6, <2>8, <3>2
    <3> QED
      BY <2>7, <3>1, <3>2
  <2> QED
    BY <1>1, <2>5, <2>6, <2>9, <2>10, <2>11 DEF w, u
<1> QED
  BY <1>6, <1>7

-----------------------------------------------------------------------------
(* What is hashed is what was written, with the signature emptied.         *)
LEMMA SignatureKinds ==
  ASSUME type \in {"request", "invoice"}
  PROVE  /\ type \in Types /\ KindsOf(type) \in Seq(KindNames) /\ 1 \in DOMAIN KindsOf(type)
         /\ SignatureField \in DOMAIN KindsOf(type) /\ KindsOf(type)[SignatureField] = "bytes"
         /\ \A num \in DOMAIN KindsOf(type) : KindsOf(type)[num] # "messages"
<1>1. type \in Types
  BY DEF Types
<1>2. KindsOf(type) \in Seq(KindNames) /\ 1 \in DOMAIN KindsOf(type)
  BY <1>1, TypeKinds
<1>3. CASE type = "request"
  <2>1. KindsOf(type) = RequestKinds /\ DOMAIN RequestKinds = 1..5 /\ SignatureField = 5
    BY <1>3, KindsAre DEF KindsOf, SignatureField
  <2>2. \A num \in 1..5 : num = 1 \/ num = 2 \/ num = 3 \/ num = 4 \/ num = 5
    OBVIOUS
  <2>3. RequestKinds[5] = "bytes" /\ \A num \in 1..5 : RequestKinds[num] # "messages"
    BY <2>2 DEF RequestKinds
  <2> QED
    BY <1>1, <1>2, <2>1, <2>3
<1>4. CASE type = "invoice"
  <2>1. KindsOf(type) = InvoiceRequestKinds /\ DOMAIN InvoiceRequestKinds = 1..7 /\ SignatureField = 7
    BY <1>4, KindsAre DEF KindsOf, SignatureField
  <2>2. \A num \in 1..7 : num = 1 \/ num = 2 \/ num = 3 \/ num = 4 \/ num = 5 \/ num = 6 \/ num = 7
    OBVIOUS
  <2>3. InvoiceRequestKinds[7] = "bytes" /\ \A num \in 1..7 : InvoiceRequestKinds[num] # "messages"
    BY <2>2 DEF InvoiceRequestKinds
  <2> QED
    BY <1>1, <1>2, <2>1, <2>3
<1> QED
  BY <1>3, <1>4

LEMMA UnsignedIs ==
  ASSUME NEW kinds \in Seq(KindNames), NEW m, MessageFits(kinds, m),
         NEW num \in DOMAIN kinds, kinds[num] = "bytes"
  PROVE  /\ MessageFits(kinds, Unsigned(m, num)) /\ Unsigned(m, num).unknown = m.unknown
         /\ \A i \in DOMAIN kinds :
              Unsigned(m, num).field[i] =
                IF i = num /\ m.field[num] # <<>> THEN <<<<>>>> ELSE m.field[i]
<1>1. CASE m.field[num] = <<>>
  BY <1>1 DEF Unsigned
<1>2. CASE m.field[num] # <<>>
  <2>1. Unsigned(m, num) = With(m, num, <<<<>>>>)
    BY <1>2 DEF Unsigned, With
  <2>2. Fits(kinds[num], <<<<>>>>)
    <3>1. <<>> \in Seq(Nat) /\ <<>> \in Seq(Byte) /\ "bytes" \in KindNames
      BY DEF KindNames
    <3>2. ValueFits("bytes", <<>>)
      BY <3>1 DEF ValueFits
    <3> QED
      BY <3>1, <3>2, OneFits
  <2>3. /\ MessageFits(kinds, With(m, num, <<<<>>>>)) /\ With(m, num, <<<<>>>>).unknown = m.unknown
        /\ \A i \in DOMAIN kinds : With(m, num, <<<<>>>>).field[i] = IF i = num THEN <<<<>>>> ELSE m.field[i]
    BY <2>2, Replaced
  <2> QED
    BY <1>2, <2>1, <2>3
<1> QED
  BY <1>1, <1>2

LEMMA GivenValue ==
  ASSUME Inv, msg # NULL, sent = NULL, log # <<>>, NEW num \in DOMAIN KindsOf(type),
         KindsOf(type)[num] # "messages", msg.field[num] # <<>>
  PROVE  \E j \in DOMAIN log : Number(log[j]) = num
<1> DEFINE kind == KindsOf(type)[num]
           value == msg.field[num]
<1>1. ValueAsWritten(kind, num, value)
  BY ValuesAsWritten
<1>2. kind \in KindNames
  <2>1. KindsOf(type) \in Seq(KindNames)
    BY TypeKinds DEF Inv
  <2> QED
    BY <2>1
<1> HIDE DEF kind, value
<1>3. GivenTo(num) # {}
  <2>1. CASE kind \in {"int", "uint32", "pubkey", "script"}
    BY <1>1, <2>1 DEF ValueAsWritten, value
  <2>2. CASE kind \in {"bytes", "string", "message"}
    <3>1. FilledFor(num) # {}
      BY <1>1, <2>2 DEF ValueAsWritten, value
    <3> QED
      BY <3>1 DEF FilledFor
  <2> QED
    BY <1>2, <2>1, <2>2 DEF KindNames, kind
<1> QED
  BY <1>3 DEF GivenTo, Number

Emptied(f) == IF Number(f) # SignatureField THEN f ELSE [f EXCEPT !.data = <<<<>>>>]

LEMMA EmptiedIs ==
  ASSUME NEW f \in Field
  PROVE  Emptied(f) \in Field /\ Number(Emptied(f)) = Number(f)
<1>1. CASE Number(f) # SignatureField
  BY <1>1 DEF Emptied
<1>2. CASE Number(f) = SignatureField
  <2>1. <<<<>>>> \in Seq(Seq(Byte))
    OBVIOUS
  <2>2. Emptied(f) = [key |-> f.key, int |-> f.int, data |-> <<<<>>>>]
    BY <1>2 DEF Emptied, Field
  <2>3. Emptied(f) \in Field /\ Emptied(f).key = f.key
    BY <2>1, <2>2 DEF Field
  <2> QED
    BY <2>3 DEF Number
<1> QED
  BY <1>1, <1>2

(* A field that was written as it would be here is the only one of its     *)
(* number in the message.                                                  *)
LEMMA EmptiedOnly ==
  ASSUME type \in {"request", "invoice"}, MessageFits(KindsOf(type), msg),
         NEW num \in DOMAIN KindsOf(type), NEW v \in ToSet(msg.field[num])
  PROVE  LET m == Unsigned(msg, SignatureField) IN
         /\ msg.field[num] # <<>> /\ m.field[num] # <<>>
         /\ Number(FieldOf(KindsOf(type)[num], num, v)) = num =>
              Emptied(FieldOf(KindsOf(type)[num], num, v)) = Only(KindsOf(type), m, num)
<1> DEFINE kinds == KindsOf(type)
           sf == SignatureField
           m == Unsigned(msg, sf)
           f == FieldOf(kinds[num], num, v)
           value == msg.field[num]
<1>1. /\ kinds \in Seq(KindNames) /\ sf \in DOMAIN kinds /\ kinds[sf] = "bytes"
      /\ \A i \in DOMAIN kinds : kinds[i] # "messages"
  BY SignatureKinds
<1>2. m.field[num] = IF num = sf /\ value # <<>> THEN <<<<>>>> ELSE value
  <2> HIDE DEF kinds, sf
  <2> QED
    BY <1>1, UnsignedIs DEF kinds
<1>3. Fits(kinds[num], value)
  <2> HIDE DEF kinds
  <2>1. \A i \in DOMAIN kinds : Fits(kinds[i], msg.field[i])
    BY <1>1, FitsMeans, Zenon DEF kinds
  <2> QED
    BY <2>1 DEF kinds
<1>4. value \in Seq(Seq(Nat)) /\ Len(value) <= 1
  BY <1>1, <1>3 DEF Fits
<1>5. value # <<>> /\ v = value[1]
  <2>1. PICK k \in DOMAIN value : v = value[k]
    BY DEF ToSet
  <2>2. DOMAIN value = 1..Len(value) /\ Len(value) \in Nat
    BY <1>4
  <2> HIDE DEF value
  <2>3. value # <<>>
    BY <2>1
  <2>4. Len(value) = 1
    BY <1>4, <2>3, NotNone
  <2>5. k = 1
    BY <2>1, <2>2, <2>4
  <2> QED
    BY <2>1, <2>3, <2>5
<1>6. ASSUME num # sf, Number(f) = num  PROVE Emptied(f) = Only(kinds, m, num)
  <2>1. Emptied(f) = f
    BY <1>6 DEF Emptied
  <2>2. m.field[num] = value
    BY <1>2, <1>6
  <2> HIDE DEF m, kinds
  <2> QED
    BY <1>5, <2>1, <2>2 DEF Only
<1>7. ASSUME num = sf, Number(f) = num  PROVE Emptied(f) = Only(kinds, m, num)
  <2>1. Emptied(f) = [f EXCEPT !.data = <<<<>>>>]
    BY <1>7 DEF Emptied
  <2>2. \A x : FieldOf("bytes", num, x) = AField(num * 8 + PROTOBUF_LENDELIM, 0, <<x>>)
    BY DEF FieldOf, ProtoBufSetBytes
  <2>3. [f EXCEPT !.data = <<<<>>>>] = AField(num * 8 + PROTOBUF_LENDELIM, 0, <<<<>>>>)
    BY <1>1, <1>7, <2>2 DEF AField
  <2>4. m.field[num][1] = <<>>
    BY <1>2, <1>5, <1>7
  <2>5. Only(kinds, m, num) = FieldOf("bytes", num, <<>>)
    <3> HIDE DEF m, kinds
    <3> QED
      BY <1>1, <1>7, <2>4 DEF Only
  <2> QED
    BY <2>1, <2>2, <2>3, <2>5
<1>8. m.field[num] # <<>>
  BY <1>2, <1>5
<1> QED
  BY <1>5, <1>6, <1>7, <1>8

LEMMA SignedAsWritten ==
  ASSUME Inv, msg # NULL, sent = NULL, log # <<>>, type \in {"request", "invoice"}, WrittenAsHere
  PROVE  Serialized(KindsOf(type), Unsigned(msg, SignatureField)) = WhatWasSigned
<1> DEFINE kinds == KindsOf(type)
           sf == SignatureField
           m == Unsigned(msg, sf)
           n == Len(kinds)
           t == [j \in DOMAIN log |-> Emptied(log[j])]
           w == Whereof(kinds, m)
<1>1. /\ kinds \in Seq(KindNames) /\ 1 \in DOMAIN kinds /\ sf \in DOMAIN kinds /\ kinds[sf] = "bytes"
      /\ \A num \in DOMAIN kinds : kinds[num] # "messages"
  BY SignatureKinds
<1>2. /\ AllOf(type, log) /\ MessageFits(kinds, msg)
      /\ msg.unknown = Stored(kinds, Blank(kinds), log).unknown
  BY Straight DEF Made
<1>3. Sound(log) /\ log \in Seq(Field) /\ DOMAIN log = 1..Len(log) /\ Len(log) \in Nat
  BY <1>2 DEF AllOf, Sound
<1>4. /\ Rising(log)
      /\ \A j, k \in DOMAIN log :
           Number(log[j]) \notin DOMAIN kinds /\ Number(log[k]) \notin DOMAIN kinds => j = k
      /\ \A j \in DOMAIN log :
           /\ Number(log[j]) > 0
           /\ Number(log[j]) \in DOMAIN kinds =>
                \E v \in ToSet(msg.field[Number(log[j])]) :
                  log[j] = FieldOf(kinds[Number(log[j])], Number(log[j]), v)
  BY DEF WrittenAsHere, Rising, Number
<1>5. WhatWasSigned = Written(t)
  BY DEF WhatWasSigned, Emptied, Number
<1>6. /\ MessageFits(kinds, m) /\ m.unknown = msg.unknown
      /\ \A num \in DOMAIN kinds :
           m.field[num] = IF num = sf /\ msg.field[sf] # <<>> THEN <<<<>>>> ELSE msg.field[num]
  <2> HIDE DEF kinds, sf
  <2> QED
    BY <1>1, <1>2, UnsignedIs
<1>7. \A num \in DOMAIN kinds : Len(m.field[num]) <= 1
  <2> HIDE DEF kinds, m
  <2>1. \A num \in DOMAIN kinds : Fits(kinds[num], m.field[num])
    BY <1>1, <1>6, FitsMeans, Zenon
  <2> QED
    BY <1>1, <2>1 DEF Fits
<1>8. n \in Nat /\ DOMAIN kinds = 1..n
  BY <1>1
<1>9. /\ t \in Seq(Field) /\ DOMAIN t = DOMAIN log
      /\ \A j \in DOMAIN log : t[j] = Emptied(log[j]) /\ Number(t[j]) = Number(log[j])
  <2>1. \A j \in DOMAIN log : Emptied(log[j]) \in Field /\ Number(Emptied(log[j])) = Number(log[j])
    BY <1>3, EmptiedIs
  <2>2. t \in [1..Len(log) -> Field]
    BY <1>3, <2>1
  <2>3. t \in Seq(Field)
    BY <1>3, <2>2
  <2> QED
    BY <2>1, <2>3
<1>10. \A j \in DOMAIN log : Number(log[j]) \in Nat
  BY <1>3, NumberType
<1> HIDE DEF t
<1>11. Rising(t)
  BY <1>4, <1>9 DEF Rising
<1> HIDE DEF kinds, n, w, m
(* The unknown field.                                                      *)
<1>12. /\ Len(m.unknown) <= 1
       /\ \A y \in DOMAIN m.unknown :
            \E j \in DOMAIN log : Number(log[j]) \notin DOMAIN kinds /\ m.unknown[y] = log[j]
       /\ \A j \in DOMAIN log : Number(log[j]) \notin DOMAIN kinds =>
            \E y \in DOMAIN m.unknown : m.unknown[y] = log[j]
  <2>1. ASSUME NEW at \in Nat, \A j \in DOMAIN log : Number(log[j]) \notin DOMAIN kinds <=> j = at
        PROVE  m.unknown = IF at \in DOMAIN log THEN <<log[at]>> ELSE <<>>
    <3>1. \A j \in DOMAIN log : log[j].key \div 8 \notin DOMAIN kinds <=> j = at
      BY <2>1 DEF Number
    <3>2. MessageFits(kinds, Blank(kinds)) /\ Blank(kinds).unknown = <<>>
      BY <1>1, BlankFits
    <3> QED
      BY <1>1, <1>2, <1>3, <1>6, <3>1, <3>2, OneUnknown
  <2>2. CASE \E j \in DOMAIN log : Number(log[j]) \notin DOMAIN kinds
    <3>1. PICK at \in DOMAIN log : Number(log[at]) \notin DOMAIN kinds
      BY <2>2
    <3>2. at \in Nat /\ \A j \in DOMAIN log : Number(log[j]) \notin DOMAIN kinds <=> j = at
      BY <1>3, <1>4, <3>1
    <3>3. m.unknown = <<log[at]>>
      BY <2>1, <3>1, <3>2
    <3>4. Len(m.unknown) <= 1 /\ DOMAIN m.unknown = {1} /\ m.unknown[1] = log[at]
      BY <3>3
    <3> QED
      BY <3>1, <3>2, <3>4
  <2>3. CASE ~\E j \in DOMAIN log : Number(log[j]) \notin DOMAIN kinds
    <3>1. 0 \notin DOMAIN log
      BY <1>3
    <3>2. m.unknown = <<>>
      BY <2>1, <2>3, <3>1
    <3>3. Len(m.unknown) <= 1 /\ DOMAIN m.unknown = {}
      BY <3>2
    <3> QED
      BY <2>3, <3>3
  <2> QED
    BY <2>2, <2>3
<1>13. \A y \in DOMAIN m.unknown : Number(m.unknown[y]) > n
  <2> TAKE y \in DOMAIN m.unknown
  <2>1. PICK j \in DOMAIN log : Number(log[j]) \notin DOMAIN kinds /\ m.unknown[y] = log[j]
    BY <1>12
  <2>2. Number(log[j]) \in Nat /\ Number(log[j]) > 0
    BY <1>4, <1>10
  <2> QED
    BY <1>8, <2>1, <2>2
<1>14. /\ w \in Seq(Field) /\ Rising(w)
       /\ \A x \in DOMAIN w :
            \/ \E num \in DOMAIN kinds : m.field[num] # <<>> /\ w[x] = Only(kinds, m, num)
            \/ \E y \in DOMAIN m.unknown : w[x] = m.unknown[y]
       /\ \A num \in DOMAIN kinds :
            m.field[num] # <<>> => \E x \in DOMAIN w : w[x] = Only(kinds, m, num)
       /\ \A y \in DOMAIN m.unknown : \E x \in DOMAIN w : w[x] = m.unknown[y]
  BY <1>1, <1>6, <1>7, <1>12, <1>13, WhereofRising DEF w, n
<1>15. ASSUME NEW j \in DOMAIN log, Number(log[j]) \notin DOMAIN kinds  PROVE t[j] = log[j]
  BY <1>1, <1>9, <1>15 DEF Emptied
<1>16. ASSUME NEW j \in DOMAIN log, Number(log[j]) \in DOMAIN kinds
       PROVE  m.field[Number(log[j])] # <<>> /\ t[j] = Only(kinds, m, Number(log[j]))
  <2> DEFINE num == Number(log[j])
  <2>1. PICK v \in ToSet(msg.field[num]) : log[j] = FieldOf(kinds[num], num, v)
    BY <1>4, <1>16
  <2>2. num \in DOMAIN kinds /\ Number(log[j]) = num
    BY <1>16
  <2> HIDE DEF num
  <2>3. /\ m.field[num] # <<>>
        /\ Number(FieldOf(kinds[num], num, v)) = num =>
             Emptied(FieldOf(kinds[num], num, v)) = Only(kinds, m, num)
    BY <1>2, <2>2, EmptiedOnly DEF m, kinds
  <2>4. t[j] = Only(kinds, m, num)
    BY <1>9, <2>1, <2>2, <2>3
  <2> QED
    BY <2>3, <2>4 DEF num
<1>17. \A j \in DOMAIN t : \E x \in DOMAIN w : t[j] = w[x]
  <2> TAKE j \in DOMAIN t
  <2>1. CASE Number(log[j]) \notin DOMAIN kinds
    <3>1. PICK y \in DOMAIN m.unknown : m.unknown[y] = log[j]
      BY <1>9, <1>12, <2>1
    <3>2. PICK x \in DOMAIN w : w[x] = m.unknown[y]
      BY <1>14
    <3> QED
      BY <1>9, <1>15, <2>1, <3>1, <3>2
  <2>2. CASE Number(log[j]) \in DOMAIN kinds
    BY <1>9, <1>14, <1>16, <2>2
  <2> QED
    BY <2>1, <2>2
<1>18. \A x \in DOMAIN w : \E j \in DOMAIN t : w[x] = t[j]
  <2> TAKE x \in DOMAIN w
  <2>1. CASE \E y \in DOMAIN m.unknown : w[x] = m.unknown[y]
    BY <1>9, <1>12, <1>15, <2>1
  <2>2. CASE \E num \in DOMAIN kinds : m.field[num] # <<>> /\ w[x] = Only(kinds, m, num)
    <3>1. PICK num \in DOMAIN kinds : m.field[num] # <<>> /\ w[x] = Only(kinds, m, num)
      BY <2>2
    <3>2. msg.field[num] # <<>>
      BY <1>6, <3>1
    <3>3. PICK j \in DOMAIN log : Number(log[j]) = num
      BY <1>1, <3>2, GivenValue DEF kinds
    <3> QED
      BY <1>9, <1>16, <3>1, <3>3
  <2> QED
    BY <1>14, <2>1, <2>2
<1>19. t = w
  BY <1>9, <1>11, <1>14, <1>17, <1>18, SameRising
<1>20. Serialized(kinds, m) = Written(w)
  BY <1>1, <1>6, WhereofIs DEF w
<1> QED
  BY <1>5, <1>19, <1>20 DEF kinds, m

(* The certificates, where the pki data holds nothing else.                *)
LEMMA CertsAre ==
  ASSUME NEW pki \in Seq(Byte), NEW fields, fields = FieldsFrom(pki),
         \A k \in DOMAIN fields : fields[k].key \div 8 = 1 /\ fields[k].data # <<>>
  PROVE  /\ \A k \in DOMAIN fields : Cert(pki, k - 1) = fields[k].data[1]
         /\ Cert(pki, Len(fields)) = <<>>
<1> DEFINE n == Len(fields)
           certs == {k \in DOMAIN fields : fields[k].key \div 8 = 1 /\ fields[k].data # <<>>}
           Before(k) == Cardinality({j \in certs : j < k})
           Places(idx) == {k \in certs : Before(k) = idx}
<1>1. n \in Nat /\ DOMAIN fields = 1..n
  <2>1. fields \in Seq(Field)
    BY FieldsType
  <2> QED
    BY <2>1
<1>2. certs = 1..n
  BY <1>1
<1>3. \A idx : Cert(pki, idx) = IF Places(idx) = {} THEN <<>>
                                ELSE fields[CHOOSE k \in Places(idx) : TRUE].data[1]
  BY DEF Cert
<1> HIDE DEF n, certs
<1>4. \A k \in 1..n : Before(k) = k - 1
  <2> TAKE k \in 1..n
  <2>1. {j \in certs : j < k} = 1..(k - 1)
    BY <1>1, <1>2
  <2>2. 1 \in Int /\ k - 1 \in Int /\ (1 > k - 1 => k = 1)
    BY <1>1
  <2>3. Cardinality(1..(k - 1)) = IF 1 > k - 1 THEN 0 ELSE (k - 1) - 1 + 1
    BY <2>2, FS_Interval
  <2>4. Cardinality(1..(k - 1)) = k - 1
    BY <2>2, <2>3
  <2> QED
    BY <2>1, <2>4
<1> HIDE DEF Before
<1>5. ASSUME NEW k \in 1..n  PROVE Places(k - 1) = {k}
  BY <1>1, <1>2, <1>4
<1>6. Places(n) = {}
  BY <1>1, <1>2, <1>4
<1> HIDE DEF Places
<1>7. ASSUME NEW k \in 1..n  PROVE Cert(pki, k - 1) = fields[k].data[1]
  <2>1. Places(k - 1) = {k}
    BY <1>5
  <2>2. (CHOOSE x \in {k} : TRUE) = k
    OBVIOUS
  <2> QED
    BY <1>3, <2>1, <2>2
<1> QED
  BY <1>1, <1>3, <1>6, <1>7 DEF n

LEMMA InvDigest ==
  ASSUME Inv
  PROVE  DigestAsSigned
<1> DEFINE num == IF type = "request" THEN 3 ELSE 4
           pki == msg.field[num]
           CertAt(idx) == IF type = "request" THEN RequestCert(msg, idx)
                          ELSE InvoiceRequestCert(msg, idx)
           fields == FieldsFrom(pki[1])
           digest == IF type = "request" THEN RequestDigest(msg) ELSE InvoiceRequestDigest(msg)
<1> SUFFICES ASSUME msg # NULL, sent = NULL, log # <<>>, type \in {"request", "invoice"}
    PROVE /\ WrittenAsHere => digest \in {<<>>, Sha256(WhatWasSigned), Sha1(WhatWasSigned)}
          /\ pki # <<>> /\ (\A k \in DOMAIN fields : /\ fields[k].key \div 8 = 1
                                                     /\ fields[k].data # <<>>)
               => /\ \A k \in DOMAIN fields : CertAt(k - 1) = fields[k].data[1]
                  /\ CertAt(Len(fields)) = <<>>
  BY DEF DigestAsSigned
<1>1. ASSUME WrittenAsHere
      PROVE  digest \in {<<>>, Sha256(WhatWasSigned), Sha1(WhatWasSigned)}
  <2>1. Serialized(KindsOf(type), Unsigned(msg, SignatureField)) = WhatWasSigned
    BY <1>1, SignedAsWritten
  <2>2. CASE type = "request"
    <3>1. RequestSerialize(Unsigned(msg, 5)) = WhatWasSigned
      BY <2>1, <2>2 DEF KindsOf, SignatureField, RequestSerialize
    <3>2. RequestDigest(msg) \in {<<>>, Sha256(WhatWasSigned), Sha1(WhatWasSigned)}
      BY <3>1 DEF RequestDigest
    <3> QED
      BY <2>2, <3>2
  <2>3. CASE type = "invoice"
    <3>1. InvoiceRequestSerialize(Unsigned(msg, 7)) = WhatWasSigned
      BY <2>1, <2>3 DEF KindsOf, SignatureField, InvoiceRequestSerialize
    <3>2. InvoiceRequestDigest(msg) \in {<<>>, Sha256(WhatWasSigned), Sha1(WhatWasSigned)}
      BY <3>1 DEF InvoiceRequestDigest
    <3> QED
      BY <2>3, <3>2
  <2> QED
    BY <2>2, <2>3
<1>2. ASSUME pki # <<>>,
             \A k \in DOMAIN fields : fields[k].key \div 8 = 1 /\ fields[k].data # <<>>
      PROVE  /\ \A k \in DOMAIN fields : CertAt(k - 1) = fields[k].data[1]
             /\ CertAt(Len(fields)) = <<>>
  <2>1. pki[1] \in Seq(Byte)
    <3>1. /\ num \in DOMAIN KindsOf(type) /\ KindsOf(type)[num] = "bytes"
          /\ KindsOf(type) \in Seq(KindNames)
      <4>1. CASE type = "request"
        BY <4>1, KindsAre DEF KindsOf, RequestKinds
      <4>2. CASE type = "invoice"
        BY <4>2, KindsAre DEF KindsOf, InvoiceRequestKinds
      <4> QED
        BY <4>1, <4>2
    <3> DEFINE kinds == KindsOf(type)
    <3>2. MessageFits(kinds, msg)
      BY Straight DEF Made
    <3> HIDE DEF kinds, num
    <3>3. \A i \in DOMAIN kinds : Fits(kinds[i], msg.field[i])
      BY <3>1, <3>2, FitsMeans, Zenon DEF kinds
    <3>4. Fits("bytes", pki)
      BY <3>1, <3>3 DEF kinds
    <3>5. pki \in Seq(Seq(Byte))
      BY <3>4, ListFits
    <3> HIDE DEF pki
    <3> QED
      BY <1>2, <3>5
  <2>2. \A idx : CertAt(idx) = Cert(pki[1], idx)
    <3>1. CASE type = "request"
      BY <1>2, <3>1 DEF RequestCert
    <3>2. CASE type = "invoice"
      BY <1>2, <3>2 DEF InvoiceRequestCert
    <3> QED
      BY <3>1, <3>2
  <2> HIDE DEF pki, CertAt
  <2> DEFINE b == pki[1]
  <2> HIDE DEF b
  <2>3. /\ \A k \in DOMAIN fields : Cert(b, k - 1) = fields[k].data[1]
        /\ Cert(b, Len(fields)) = <<>>
    <3>1. b \in Seq(Byte) /\ fields = FieldsFrom(b)
      BY <2>1 DEF b
    <3> HIDE DEF fields
    <3> QED
      BY <1>2, <3>1, CertsAre
  <2> QED
    BY <2>2, <2>3 DEF b
<1> QED
  BY <1>1, <1>2

(* What is hashed to verify a request is what its author signed, if it was *)
(* written in order and with at most one unknown field, and the            *)
(* certificates are those of the pki data, in their order (RequestDigest,  *)
(* InvoiceRequestDigest, RequestCert, InvoiceRequestCert).                 *)
THEOREM DigestAlwaysAsSigned == Spec => []DigestAsSigned
BY PaymentInvariance, InvDigest, PTL

-----------------------------------------------------------------------------
(* An encrypted message, as it was made: the secret of its cipher is that  *)
(* of both sides, whichever made it.                                       *)
Maker(x) == IF x.own = "receiver" THEN x.receiver ELSE x.sender
Shared(x) == Derive(ECDH(x.receiver, PubKey[x.sender]), x.nonce)
Adds(x) == Decimal(x.code) \o StringOf(x.status)

LEMMA SecretIs ==
  ASSUME NEW x \in Letters, NEW m, m.field[3] = <<PubKey[x.receiver]>>, m.field[4] = <<PubKey[x.sender]>>,
         m.field[5] = OneInt(x.nonce), NEW k \in Key, PubKey[k] \in {PubKey[x.receiver], PubKey[x.sender]}
  PROVE  EncryptedMessageCEK(m, k) = Shared(x)
<1>1. x.receiver \in Key /\ x.sender \in Key
  BY LettersAssumption
<1>2. \A i, j \in Key : ECDH(i, PubKey[j]) = ECDH(j, PubKey[i])
  BY CipherAssumption
<1>3. m.field[3][1] = PubKey[x.receiver] /\ m.field[4][1] = PubKey[x.sender] /\ m.field[5][1][1] = x.nonce
  BY DEF OneInt
<1>4. CASE PubKey[k] # PubKey[x.receiver]
  <2>1. ECDH(k, PubKey[x.receiver]) = ECDH(x.receiver, PubKey[k]) /\ PubKey[k] = PubKey[x.sender]
    BY <1>1, <1>2, <1>4
  <2> QED
    BY <1>3, <1>4, <2>1 DEF EncryptedMessageCEK, Shared
<1>5. CASE PubKey[k] = PubKey[x.receiver]
  <2>1. ECDH(k, PubKey[x.sender]) = ECDH(x.sender, PubKey[k])
    BY <1>1, <1>2
  <2>2. ECDH(x.sender, PubKey[x.receiver]) = ECDH(x.receiver, PubKey[x.sender])
    BY <1>1, <1>2
  <2> QED
    BY <1>3, <1>5, <2>1, <2>2 DEF EncryptedMessageCEK, Shared
<1> QED
  BY <1>4, <1>5

LEMMA ExceptIs ==
  ASSUME NEW m, m = [field |-> m.field, unknown |-> <<>>], m.field = [num \in 1..9 |-> m.field[num]],
         NEW n \in 1..9, NEW v
  PROVE  LET e == With(m, n, v) IN
         /\ e = [field |-> e.field, unknown |-> <<>>]
         /\ e.field = [num \in 1..9 |-> IF num = n THEN v ELSE m.field[num]]
<1> DEFINE f == m.field
           g == [f EXCEPT ![n] = v]
           e == With(m, n, v)
<1>1. m = [field |-> f, unknown |-> <<>>] /\ f = [num \in 1..9 |-> f[num]]
  OBVIOUS
<1>2. e = [m EXCEPT !.field = g]
  BY DEF With
<1> HIDE DEF f
<1>3. g = [num \in 1..9 |-> IF num = n THEN v ELSE f[num]]
  BY <1>1
<1> HIDE DEF g
<1>4. [m EXCEPT !.field = g] = [field |-> g, unknown |-> <<>>]
  BY <1>1
<1> HIDE DEF e
<1>5. e = [field |-> g, unknown |-> <<>>] /\ e.field = g
  BY <1>2, <1>4
<1> QED
  BY <1>3, <1>5 DEF e, f

LEMMA EncryptedIs ==
  ASSUME NEW x \in Letters
  PROVE  LET m == EncryptedOf(x) IN
         /\ m.field[2] = <<AEADEncrypt(Shared(x), x.message, Adds(x))>>
         /\ m.field[3] = <<PubKey[x.receiver]>> /\ m.field[4] = <<PubKey[x.sender]>>
         /\ m.field[5] = OneInt(x.nonce) /\ m.field[8] = OneInt(x.code) /\ m.field[9] = x.status
         /\ m.field[6] = <<KeySign(Maker(x), Sha256(EncryptedMessageSerialize(Unsigned(m, 6))))>>
<1> DEFINE key == Maker(x)
           open == Message(<<OneInt(x.kind), <<<<>>>>, <<PubKey[x.receiver]>>,
                             <<PubKey[x.sender]>>, OneInt(x.nonce), <<<<>>>>, x.id,
                             OneInt(x.code), x.status>>)
           text == AEADEncrypt(EncryptedMessageCEK(open, key), x.message, Adds(x))
           plain == [open EXCEPT !.field[2] = <<text>>]
           sig == KeySign(key, Sha256(EncryptedMessageSerialize(plain)))
           m == [plain EXCEPT !.field[6] = <<sig>>]
<1>1. EncryptedOf(x) = m
  BY DEF EncryptedOf, EncryptedMessageNew, Maker, Adds
<1>2. /\ open.field[3] = <<PubKey[x.receiver]>> /\ open.field[4] = <<PubKey[x.sender]>>
      /\ open.field[5] = OneInt(x.nonce) /\ open.field[8] = OneInt(x.code) /\ open.field[9] = x.status
      /\ open.field[6] = <<<<>>>>
      /\ open = [field |-> open.field, unknown |-> <<>>]
      /\ open.field = [num \in 1..9 |-> open.field[num]]
  BY DEF Message
<1>3. EncryptedMessageCEK(open, key) = Shared(x)
  <2>1. key \in Key /\ PubKey[key] \in {PubKey[x.receiver], PubKey[x.sender]}
    BY LettersAssumption DEF Maker
  <2> HIDE DEF open, key
  <2> QED
    BY <1>2, <2>1, SecretIs
<1> HIDE DEF open, text
<1>4. /\ plain = [field |-> plain.field, unknown |-> <<>>]
      /\ plain.field = [num \in 1..9 |-> IF num = 2 THEN <<text>> ELSE open.field[num]]
  BY <1>2
<1> HIDE DEF plain, sig
<1>5. /\ m = [field |-> m.field, unknown |-> <<>>]
      /\ m.field = [num \in 1..9 |-> IF num = 6 THEN <<sig>> ELSE plain.field[num]]
  <2>1. plain = [field |-> plain.field, unknown |-> <<>>] /\ plain.field = [num \in 1..9 |-> plain.field[num]]
    BY <1>4
  <2>2. m = With(plain, 6, <<sig>>) /\ 6 \in 1..9
    BY DEF With
  <2> HIDE DEF m
  <2> QED
    BY <2>1, <2>2, ExceptIs
<1>6. plain.field[6] = <<<<>>>>
  BY <1>2, <1>4
<1> HIDE DEF m
<1>7. Unsigned(m, 6) = plain
  <2> DEFINE u == [m EXCEPT !.field[6] = <<<<>>>>]
  <2>1. m.field[6] # <<>>
    BY <1>5
  <2>2. /\ u = [field |-> u.field, unknown |-> <<>>]
        /\ u.field = [num \in 1..9 |-> IF num = 6 THEN <<<<>>>> ELSE m.field[num]]
    <3>1. m = [field |-> m.field, unknown |-> <<>>] /\ m.field = [num \in 1..9 |-> m.field[num]]
      BY <1>5
    <3>2. u = With(m, 6, <<<<>>>>) /\ 6 \in 1..9
      BY DEF With
    <3> HIDE DEF u
    <3> QED
      BY <3>1, <3>2, ExceptIs
  <2> HIDE DEF u
  <2>3. u.field = plain.field
    BY <1>4, <1>5, <1>6, <2>2
  <2>4. u = plain
    BY <1>4, <2>2, <2>3
  <2> QED
    BY <2>1, <2>4 DEF Unsigned, u
<1>8. m.field[2] = <<text>> /\ text = AEADEncrypt(Shared(x), x.message, Adds(x))
  BY <1>3, <1>4, <1>5 DEF text
<1>9. \A num \in {3, 4, 5, 8, 9} : m.field[num] = open.field[num]
  BY <1>4, <1>5
<1>10. m.field[6] = <<KeySign(Maker(x), Sha256(EncryptedMessageSerialize(Unsigned(m, 6))))>>
  BY <1>5, <1>7 DEF sig
<1> QED
  BY <1>1, <1>2, <1>8, <1>9, <1>10

LEMMA Understood ==
  ASSUME NEW x \in Letters
  PROVE  UnderstoodByBoth(EncryptedOf(x))
<1> DEFINE m == EncryptedOf(x)
           sides == {k \in Key : PubKey[k] \in {m.field[3][1], m.field[4][1]}}
<1>1. /\ m.field[2] = <<AEADEncrypt(Shared(x), x.message, Adds(x))>>
      /\ m.field[3] = <<PubKey[x.receiver]>> /\ m.field[4] = <<PubKey[x.sender]>>
      /\ m.field[5] = OneInt(x.nonce) /\ m.field[8] = OneInt(x.code) /\ m.field[9] = x.status
      /\ m.field[6] = <<KeySign(Maker(x), Sha256(EncryptedMessageSerialize(Unsigned(m, 6))))>>
  BY EncryptedIs
<1>2. x.receiver \in Key /\ x.sender \in Key /\ x.message # <<>> /\ m \in Created["encrypted"]
  BY LettersAssumption
<1> HIDE DEF m
<1>3. sides = {k \in Key : PubKey[k] \in {PubKey[x.receiver], PubKey[x.sender]}}
  BY <1>1
<1> HIDE DEF sides
<1>4. Maker(x) \in sides /\ Maker(x) \in Key
  BY <1>2, <1>3 DEF Maker
<1>5. EncryptedMessageVerify(m, Maker(x))
  <2> DEFINE md == Sha256(EncryptedMessageSerialize(Unsigned(m, 6)))
  <2>1. KeyVerify(Maker(x), md, KeySign(Maker(x), md))
    BY <1>2, <1>4, CipherAssumption
  <2>2. m.field[6] # <<>> /\ m.field[6][1] = KeySign(Maker(x), md)
    BY <1>1
  <2> QED
    BY <2>1, <2>2 DEF EncryptedMessageVerify
<1>6. ASSUME NEW k \in sides  PROVE EncryptedMessageDecrypt(m, k) = x.message
  <2>1. k \in Key /\ PubKey[k] \in {PubKey[x.receiver], PubKey[x.sender]}
    BY <1>3
  <2>2. EncryptedMessageCEK(m, k) = Shared(x)
    BY <1>1, <2>1, SecretIs
  <2>3. AEADDecrypt(Shared(x), AEADEncrypt(Shared(x), x.message, Adds(x)), Adds(x)) = x.message
    BY <1>2, CipherAssumption DEF Shared, Adds
  <2>4. /\ m.field[8] # <<>> /\ m.field[8][1][1] = x.code
        /\ m.field[2][1] = AEADEncrypt(Shared(x), x.message, Adds(x))
    BY <1>1 DEF OneInt
  <2> QED
    BY <1>1, <2>2, <2>3, <2>4 DEF EncryptedMessageDecrypt, Adds
<1>7. /\ \E k \in sides : EncryptedMessageVerify(m, k)
      /\ \A k, l \in sides :
           /\ EncryptedMessageDecrypt(m, k) = EncryptedMessageDecrypt(m, l)
           /\ EncryptedMessageDecrypt(m, k) # <<>>
  BY <1>2, <1>4, <1>5, <1>6
<1> QED
  BY <1>7 DEF UnderstoodByBoth, m, sides

(* It has no unknown fields and no messages within it, and so it arrives   *)
(* as it was sent.                                                         *)
LEMMA InvUnderstood ==
  ASSUME Inv
  PROVE  BothSidesAgree
<1> SUFFICES ASSUME type = "encrypted", sent \in Created[type]
    PROVE /\ log = <<>> => UnderstoodByBoth(ParseOf(type, wire))
          /\ msg = sent => UnderstoodByBoth(msg)
  BY DEF BothSidesAgree
<1>1. PICK x \in Letters : sent = EncryptedOf(x)
  BY LettersAssumption
<1>2. UnderstoodByBoth(sent)
  BY <1>1, Understood
<1>3. ASSUME log = <<>>  PROVE ParseOf(type, wire) = sent
  <2> DEFINE kinds == KindsOf(type)
             w == Serialized(kinds, sent)
  <2>1. type \in Types /\ Made(type, sent) /\ sent # NULL /\ wire = Written(Begun \o log)
    <3>1. type \in Types /\ wire = Written(Begun \o log)
      BY DEF Inv
    <3>2. Made(type, sent)
      BY <3>1, CreatedMade
    <3>3. sent # NULL
      <4>1. /\ KindsOf(type) \in Seq(KindNames) /\ 1 \in DOMAIN KindsOf(type)
            /\ MessageFits(KindsOf(type), sent)
        BY <3>1, <3>2, TypeKinds DEF Made
      <4> QED
        BY <4>1, Complete
    <3> QED
      BY <3>1, <3>2, <3>3
  <2>2. wire = w
    <3>1. AllOf(type, Whereof(kinds, sent)) /\ w = Written(Whereof(kinds, sent))
      BY <2>1, RelayMade
    <3>2. Begun \o log = Whereof(kinds, sent)
      BY <1>3, <2>1, <3>1 DEF Begun, AllOf, Sound
    <3> QED
      BY <2>1, <3>1, <3>2
  <2>3. sent.unknown = <<>>
    BY <1>1 DEF EncryptedOf, EncryptedMessageNew, Message
  <2>4. Read(kinds, w) = sent
    <3>1. kinds \in Seq(KindNames) /\ MessageFits(kinds, sent) /\ Len(sent.unknown) <= 1
      BY <2>1, <2>3, TypeKinds DEF Made
    <3> QED
      BY <3>1, Relayed
  <2>5. \A num \in Required(type) : sent.field[num] # <<>>
    BY <2>1 DEF Made
  <2>6. ParseOf(type, w) = IfComplete(sent, Required(type))
    <3> HIDE DEF w
    <3> QED
      BY <2>1, <2>4, ParseIs DEF Again
  <2> QED
    BY <2>2, <2>5, <2>6 DEF IfComplete
<1> QED
  BY <1>2, <1>3

(* Both sides read an encrypted message alike: for every letter made here  *)
(* and every cipher that keeps CipherAssumption, what arrives without a    *)
(* field written on the way is verified with its maker's key, and the      *)
(* receiver and the sender decrypt it to the same text, which was not      *)
(* empty (EncryptedMessageNew, CEK, Verify and Decrypt).                   *)
THEOREM BothSidesAlwaysAgree == Spec => []BothSidesAgree
BY PaymentInvariance, InvUnderstood, PTL
=============================================================================
