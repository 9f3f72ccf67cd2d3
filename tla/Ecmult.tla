------------------------------ MODULE Ecmult -------------------------------
(***************************************************************************)
(* libsecp256k1, ecmult_impl.h, ecmult_const_impl.h and ecmult_gen_impl.h: *)
(* multiples of points, from tables of odd multiples and, for the          *)
(* generator alone, from a blinded table.  Scalars are below N.            *)
(***************************************************************************)
EXTENDS Curve, FiniteSets

CONSTANTS
  WINDOW_A, WINDOW_G,   \* bits of a digit, for a point and for the generator
  SCALAR_BITS,                 \* the bits of a scalar: 256 in the code
  DIGITS, DIGIT_BITS,   \* the digits of the blinded table: 64 of 4 bits
  NUMS_X                \* "The scalar for this x is unknown"

ASSUME EcmultAssumption ==
  /\ {WINDOW_A, WINDOW_G, SCALAR_BITS, DIGITS, DIGIT_BITS} \subseteq Nat \ {0}
  /\ WINDOW_A > 2 /\ WINDOW_G > 1 /\ DIGITS > 1
  /\ N < 2^SCALAR_BITS /\ N > 2^(SCALAR_BITS - 1) /\ SCALAR_BITS <= DIGITS * DIGIT_BITS

(***************************************************************************)
(* Scalars                                                                 *)
(***************************************************************************)
ScalarNegate(a) == IF a = 0 THEN 0 ELSE N - a
ScalarIsHigh(a) == a > N \div 2
GetBits(a, offset, count) == (a \div 2^offset) % 2^count
ScalarInverse(x) == PowerMod(x, N - 2, N)

(***************************************************************************)
(* Tables of 1, 3, 5 ... (2n - 1) times a point                            *)
(***************************************************************************)
TableSize(w) == 2^(w - 2)

(* The sums are taken where d = 2a has denominator 1, and only the last    *)
(* denominator is brought back.                                            *)
OddSums(n, a, d) ==
  LET aGe == GeSetGejZinv(a, d.z)
      sum[i \in 1..n] == IF i = 1 THEN Gej(aGe.x, aGe.y, a.z)
                         ELSE GejAddGeVar(sum[i - 1], Ge(d.x, d.y))
  IN  sum
TableOfSums(n, d, sum) ==
  [prej |-> [sum EXCEPT ![n].z = F(@ * d.z)],
   zr |-> [i \in 1..n |-> IF i = 1 THEN d.z ELSE AddGeRatio(sum[i - 1], Ge(d.x, d.y))]]
TableByDoubled(n, a, d) == TableOfSums(n, d, OddSums(n, a, d))
OddMultiplesTable(n, a) == TableByDoubled(n, a, GejDoubleVar(a))

GlobalzOf(table) == GeGlobalzSetTableGej(table.prej, table.zr)
TableGlobalz(a) == GlobalzOf(OddMultiplesTable(TableSize(WINDOW_A), a))
StorageOf(table) == GeSetTableGejVar(table.prej, table.zr)
TableStorage(n, a) == StorageOf(OddMultiplesTable(n, a))

TableGetGe(pre, n) ==
  IF n > 0 THEN pre[(n + 1) \div 2] ELSE Negated(pre[(1 - n) \div 2])

(* pre_g of the context.                                                   *)
PreG == TableStorage(TableSize(WINDOW_G), GejSetGe(ConstG))

(***************************************************************************)
(* a * na + G * ng                                                         *)
(***************************************************************************)
(* The digits of a as <<position, digit>>; all other positions are zero.   *)
EcmultWnaf(a, w) ==
  LET high == GetBits(a, SCALAR_BITS - 1, 1) = 1
      s == IF high THEN ScalarNegate(a) ELSE a
      sign == IF high THEN -1 ELSE 1
      go[bit \in 0..SCALAR_BITS, carry \in {0, 1}] ==
        IF bit = SCALAR_BITS THEN {}
        ELSE IF GetBits(s, bit, 1) = carry THEN go[bit + 1, carry]
        ELSE LET now == IF w > SCALAR_BITS - bit THEN SCALAR_BITS - bit ELSE w
                 word == GetBits(s, bit, now) + carry
                 over == GetBits(word, w - 1, 1)
             IN  {<<bit, sign * (word - over * 2^w)>>} \cup go[bit + now, over]
  IN  go[0, 0]

DigitsAt(wnaf, i) == {d[2] : d \in {e \in wnaf : e[1] = i}}
AddDigitA(r, table, digits) ==
  IF digits = {} THEN r
  ELSE GejAddGeVar(r, TableGetGe(table.pre, CHOOSE n \in digits : TRUE))
AddDigitG(r, table, preG, digits) ==
  IF digits = {} THEN r
  ELSE GejAddZinvVar(r, TableGetGe(preG, CHOOSE n \in digits : TRUE), table.globalz)
EcmultBy(table, preG, wnafA, wnafG) ==
  LET r[i \in 0..SCALAR_BITS] ==
        IF i = SCALAR_BITS THEN GejInfinity
        ELSE AddDigitG(AddDigitA(GejDoubleVar(r[i + 1]), table, DigitsAt(wnafA, i)),
                       table, preG, DigitsAt(wnafG, i))
  IN  [r[0] EXCEPT !.z = F(@ * table.globalz)]

(* a is not infinite.                                                      *)
EcmultOf(a, na, ng) ==
  EcmultBy(TableGlobalz(a), PreG, EcmultWnaf(na, WINDOW_A), EcmultWnaf(ng, WINDOW_G))

(***************************************************************************)
(* a * scalar, with the same steps for every scalar                        *)
(***************************************************************************)
WNAF_SIZE(w) == (SCALAR_BITS + w - 1) \div w

(* One digit for each word, all of them odd, after s was made odd by       *)
(* adding the skew, 1 or 2.                                                *)
WnafConst(a, w) ==
  LET flip == ScalarIsHigh(a)
      bit == IF flip = (a % 2 = 0) THEN 1 ELSE 0
      minusOne == ScalarNegate(a) = 1
      s == IF minusOne THEN a ELSE a + 2^bit
      odd == IF flip THEN ScalarNegate(s) ELSE s
      sign == IF flip # minusOne THEN -1 ELSE 1
      size == WNAF_SIZE(w)
      \* u_last as it is stored for word k, and as the next word finds it
      u[k \in 0..size] ==
        IF k = 0 THEN GetBits(odd, 0, w)
        ELSE LET raw == GetBits(odd, k * w, w)
             IN  IF raw % 2 = 1 THEN raw ELSE IF u[k - 1] > 0 THEN raw + 1 ELSE raw - 1
      back(k) == IF GetBits(odd, (k + 1) * w, 1) = 1 THEN 0
                 ELSE IF u[k] > 0 THEN 2^w ELSE -2^w
  IN  [skew |-> 2^bit,
       wnaf |-> [k \in 0..size |-> sign * (IF k = size THEN u[k] ELSE u[k] - back(k))]]

Doubled(a, times) ==
  LET d[i \in 0..times] == IF i = 0 THEN a ELSE GejDoubleVar(d[i - 1]) IN d[times]

EcmultConstBy(a, w, digits, table) ==
  LET r[i \in 0..WNAF_SIZE(w)] ==
        LET point == TableGetGe(table.pre, digits.wnaf[i])
        IN  IF i = WNAF_SIZE(w) THEN GejSetGe(point)
            ELSE GejAddGe(Doubled(r[i + 1], w), point)
      correction == IF digits.skew = 2 THEN GeSetGej(GejDoubleVar(GejSetGe(a))) ELSE a
  IN  GejAddGe([r[0] EXCEPT !.z = F(@ * table.globalz)], Negated(correction))
EcmultConst(a, scalar) ==
  EcmultConstBy(a, WINDOW_A - 1, WnafConst(scalar, WINDOW_A - 1), TableGlobalz(GejSetGe(a)))

(***************************************************************************)
(* G * gn, blinded: (gn - b) G + b G                                       *)
(***************************************************************************)
(* prec[j][i] is i * 2^(DIGIT_BITS * j) * G, with points added that cancel *)
(* over the digits: 2^j times an unknown point, and its negated sum last.  *)
Nums == GejAddGeVar(GejSetGe(GeSetXoVar(NUMS_X, FALSE)[1]), ConstG)
NumsBase(nums) ==
  LET base[j \in 0..(DIGITS - 1)] == IF j = 0 THEN nums ELSE GejDoubleVar(base[j - 1])
  IN  [base EXCEPT ![DIGITS - 1] = GejAddVar(Negated(@), nums)]
GBase[j \in 0..(DIGITS - 1)] ==
  IF j = 0 THEN GejSetGe(ConstG) ELSE Doubled(GBase[j - 1], DIGIT_BITS)
PrecRow(base, step) ==
  LET p[i \in 1..(2^DIGIT_BITS)] == IF i = 1 THEN base ELSE GejAddVar(p[i - 1], step)
  IN  p
PrecBy(numsbase, gbase) ==
  [j \in 0..(DIGITS - 1) |-> GeSetAllGejVar(PrecRow(numsbase[j], gbase[j]))]
Prec == PrecBy(NumsBase(Nums), GBase)

(* A table entry is stored without a flag for infinity.                    *)
ASSUME PrecAssumption ==
  \A j \in 0..(DIGITS - 1) : \A i \in DOMAIN Prec[j] : ~Prec[j][i].infinity

(* gen is the context: blind and initial.                                  *)
EcmultGenBy(prec, gen, gnb) ==
  LET r[j \in 0..DIGITS] ==
        IF j = 0 THEN gen.initial
        ELSE GejAddGe(r[j - 1],
                      prec[j - 1][GetBits(gnb, (j - 1) * DIGIT_BITS, DIGIT_BITS) + 1])
  IN  r[DIGITS]
EcmultGen(gen, gn) == EcmultGenBy(Prec, gen, (gn + gen.blind) % N)

(* s and b are what the generator seeded with the old blind and the seed   *)
(* draws; without a seed the old blind is 1.                               *)
EcmultGenBlind(gen, s, b) ==
  [blind |-> ScalarNegate(b),
   initial |-> EcmultGen([gen EXCEPT !.initial = GejRescale(@, s)], b)]
GenReset == [blind |-> 1, initial |-> Negated(GejSetGe(ConstG))]
=============================================================================
