----------------------------- MODULE FieldLimbs -----------------------------
(***************************************************************************)
(* libsecp256k1, field_10x26_impl.h: numbers modulo a prime 2^FIELD_BITS - *)
(* C, in limbs of LIMB bits, the lowest first, the highest of TOP bits.    *)
(* The limbs lie in words with room for more: a number of magnitude m has  *)
(* limbs of up to 2m times their size.  The magnitude and whether a number *)
(* is normalized are fields of secp256k1_fe in builds with VERIFY only;    *)
(* there is no check of them in the library that is shipped.               *)
(***************************************************************************)
EXTENDS Integers, SequencesExt

CONSTANTS
  LIMBS, LIMB, TOP,     \* 10 limbs of 26 bits, 22 in the highest
  C0, C1,               \* the limbs of C: 0x3D1 and 0x40
  UINT32, UINT64,       \* bits of the words for limbs and for products
  STORAGE,              \* bits of a word of secp256k1_fe_storage
  MAX_MAGNITUDE         \* 32; the factors of a product have a quarter of it

ASSUME FieldAssumption ==
  /\ LIMBS \in Nat /\ LIMBS > 3 /\ TOP \in 1..LIMB
  /\ 2 * MAX_MAGNITUDE <= 2^TOP /\ MAX_MAGNITUDE % 4 = 0
  /\ (LIMB * (LIMBS - 1) + TOP) % STORAGE = 0
  /\ C0 \in 1..(2^LIMB - 1) /\ C1 \in 1..(2^LIMB - 2)

B == 2^LIMB
T == 2^TOP
SLACK == 2^(LIMB - TOP)
FIELD_BITS == LIMB * (LIMBS - 1) + TOP
MODULUS == 2^FIELD_BITS - C1 * B - C0
Uint32(x) == x % 2^UINT32
Uint64(x) == x % 2^UINT64

Fe(n, magnitude, normalized) ==
  [n |-> n, magnitude |-> magnitude, normalized |-> normalized]
NumberOf(n) == FoldLeftDomain(LAMBDA sum, i : sum + n[i] * B^(i - 1), 0, n)
LimbsOf(v) == [i \in 1..LIMBS |-> (v \div B^(i - 1)) % B]

(* MODULUS itself, limb by limb.                                           *)
ModulusLimbs == [i \in 1..LIMBS |->
  CASE i = 1 -> B - C0 [] i = 2 -> B - 1 - C1 [] i = LIMBS -> T - 1 [] OTHER -> B - 1]

(***************************************************************************)
(* Normalizing                                                             *)
(***************************************************************************)
(* x times 2^FIELD_BITS is added as x times C and carried upwards.         *)
PlusC(t, x) ==
  LET c[i \in 1..LIMBS] ==
        CASE i = 1 -> Uint32(t[1] + x * C0)
          [] i = 2 -> Uint32(Uint32(t[2] + x * C1) + c[1] \div B)
          [] OTHER -> Uint32(t[i] + c[i - 1] \div B)
  IN  [i \in 1..LIMBS |-> IF i = LIMBS THEN c[i] ELSE c[i] % B]

FirstPass(n) == PlusC([n EXCEPT ![LIMBS] = @ % T], n[LIMBS] \div T)

(* Mutated form: the carry out of the lowest limb is forgotten.            *)
ReachedWithoutCarry(t) ==
  \/ t[LIMBS] >= T
  \/ /\ t[LIMBS] = T - 1
     /\ \A i \in 3..(LIMBS - 1) : t[i] = B - 1
     /\ t[2] + C1 > B - 1

(* Whether one more reduction is due: 2^FIELD_BITS or MODULUS is reached.  *)
Reached(t) ==
  \/ t[LIMBS] >= T
  \/ /\ t[LIMBS] = T - 1
     /\ \A i \in 3..(LIMBS - 1) : t[i] = B - 1
     /\ t[2] + C1 + (t[1] + C0) \div B > B - 1

FinalPass(t) == LET s == PlusC(t, IF Reached(t) THEN 1 ELSE 0) IN [s EXCEPT ![LIMBS] = @ % T]

Normalize(a) == Fe(FinalPass(FirstPass(a.n)), 1, TRUE)
NormalizeVar(a) ==
  LET t == FirstPass(a.n) IN Fe(IF Reached(t) THEN FinalPass(t) ELSE t, 1, TRUE)
NormalizeWeak(a) == Fe(FirstPass(a.n), 1, a.normalized)

NormalizesToZero(a) ==
  LET t == FirstPass(a.n) IN (\A i \in 1..LIMBS : t[i] = 0) \/ t = ModulusLimbs

(* Most numbers are told from their lowest limb.                           *)
NormalizesToZeroVar(a) ==
  LET t1 == Uint32(a.n[1] + (a.n[LIMBS] \div T) * C0) % B
  IN  t1 \in {0, B - C0} /\ NormalizesToZero(a)

(***************************************************************************)
(* Sums                                                                    *)
(***************************************************************************)
SetInt(v) == Fe([i \in 1..LIMBS |-> IF i = 1 THEN v ELSE 0], 1, TRUE)

(* secp256k1_fe_verify: the limbs fit the magnitude, and the number is     *)
(* below MODULUS once it is normalized.                                    *)
Verify(a) ==
  LET m == IF a.normalized THEN 1 ELSE 2 * a.magnitude
  IN  /\ a.magnitude \in 0..MAX_MAGNITUDE
      /\ \A i \in 1..LIMBS : a.n[i] <= m * (IF i = LIMBS THEN T - 1 ELSE B - 1)
      /\ a.normalized => a.magnitude <= 1 /\ ~Reached(a.n)

(* The limbs are taken from a multiple of MODULUS that exceeds them.       *)
FeNegate(a, m) ==
  Fe([i \in 1..LIMBS |-> Uint32(ModulusLimbs[i] * 2 * (m + 1) - a.n[i])], m + 1, FALSE)
MulInt(a, i) == Fe([j \in 1..LIMBS |-> Uint32(a.n[j] * i)], a.magnitude * i, FALSE)
FeAdd(a, b) ==
  Fe([i \in 1..LIMBS |-> Uint32(a.n[i] + b.n[i])], a.magnitude + b.magnitude, FALSE)

(* The limbs of one of two numbers, which may have the other's magnitude.  *)
FeCmov(a, b, flag) ==
  Fe(IF flag THEN b.n ELSE a.n,
     IF b.magnitude > a.magnitude THEN b.magnitude ELSE a.magnitude,
     a.normalized /\ b.normalized)

(* -1, 0 or 1.  Both are normalized.                                       *)
CmpVar(a, b) ==
  LET differ == {i \in 1..LIMBS : a.n[i] # b.n[i]}
      i == CHOOSE j \in differ : \A k \in differ : k <= j
  IN  IF differ = {} THEN 0 ELSE IF a.n[i] > b.n[i] THEN 1 ELSE -1

(***************************************************************************)
(* Products                                                                *)
(***************************************************************************)
R0 == C0 * SLACK
R1 == C1 * SLACK

(* The k-th column of a product, of limbs counted from 0.                  *)
MulColumn(a, b, k) ==
  FoldLeft(LAMBDA sum, i : IF k - i \in 0..(LIMBS - 1)
                           THEN Uint64(sum + a[i + 1] * b[k - i + 1]) ELSE sum,
           0, [i \in 1..LIMBS |-> i - 1])

(* The same for a square: pairs once, one of them doubled in its word.     *)
SqrColumn(a, k) ==
  FoldLeft(LAMBDA sum, i :
             IF k - i \notin 0..(LIMBS - 1) \/ k - i < i THEN sum
             ELSE Uint64(sum + (IF k - i = i THEN a[i + 1] ELSE Uint32(a[i + 1] * 2))
                                 * a[k - i + 1]),
           0, [i \in 1..LIMBS |-> i - 1])

(* The columns from LIMBS upwards are added, a limb u at a time, as u * R0 *)
(* and u * R1 to the columns from 0.  c and d are the two running sums.    *)
Columns(p) ==
  LET d0 == p[LIMBS - 1]
      s[i \in 0..(LIMBS - 1)] ==
        IF i = 0 THEN [c |-> p[0], d |-> d0 \div B, t |-> <<>>]
        ELSE LET d == Uint64(s[i - 1].d + p[LIMBS - 1 + i])
                 u == d % B
                 c == Uint64(s[i - 1].c + u * R0)
             IN  [c |-> Uint64(c \div B + u * R1 + (IF i < LIMBS - 1 THEN p[i] ELSE 0)),
                  d |-> d \div B,
                  t |-> Append(s[i - 1].t, c % B)]
  IN  [s[LIMBS - 1] EXCEPT !.c = Uint64(@ + s[LIMBS - 1].d * R0 + (d0 % B))]

(* What is above the highest limb is added to the lowest ones; the third   *)
(* limb takes the last carry.                                              *)
FromColumns(p) ==
  LET s == Columns(p)
      c == Uint64(s.c \div T + s.d * R1 * SLACK)
      e0 == Uint64(c * C0 + s.t[1])
      e1 == Uint64(e0 \div B + c * C1 + s.t[2])
  IN  [i \in 1..LIMBS |->
         CASE i = 1 -> e0 % B [] i = 2 -> e1 % B
           [] i = 3 -> Uint32(e1 \div B + s.t[3])
           [] i = LIMBS -> s.c % T
           [] OTHER -> s.t[i]]

FeMul(a, b) == Fe(FromColumns([k \in 0..(2 * LIMBS - 2) |-> MulColumn(a.n, b.n, k)]), 1, FALSE)
FeSqr(a) == Fe(FromColumns([k \in 0..(2 * LIMBS - 2) |-> SqrColumn(a.n, k)]), 1, FALSE)

(***************************************************************************)
(* Bytes and words.  Reading bytes succeeds below MODULUS.  Stored numbers *)
(* are packed into words without room.                                     *)
(***************************************************************************)
FeSetB32(v) == [ok |-> ~Reached(LimbsOf(v)), fe |-> Fe(LimbsOf(v), 1, TRUE)]
FeGetB32(a) == NumberOf(a.n)
ToStorage(a) ==
  [i \in 0..(FIELD_BITS \div STORAGE - 1) |-> (NumberOf(a.n) \div 2^(STORAGE * i)) % 2^STORAGE]
FromStorage(words) ==
  LET count == FIELD_BITS \div STORAGE
  IN  Fe(LimbsOf(FoldLeft(LAMBDA sum, i : sum * 2^STORAGE + words[count - i],
                          0, [i \in 1..count |-> i])), 1, TRUE)
=============================================================================
