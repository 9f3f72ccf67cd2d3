---------------------------- MODULE ScalarLimbs -----------------------------
(***************************************************************************)
(* libsecp256k1, scalar_8x32_impl.h: numbers modulo the order of the       *)
(* generator, in WORDS words of WORD_BITS bits, the lowest first.  NC is   *)
(* 2^(WORDS * WORD_BITS) minus the order; its highest limb, the one at     *)
(* half of the words, is 1.                                                *)
(***************************************************************************)
EXTENDS Integers, SequencesExt

CONSTANTS
  WORDS, WORD_BITS,  \* 8 words of 32 bits
  NC                 \* SECP256K1_N_C_0, ...: WORDS \div 2 + 1 limbs

ASSUME ScalarAssumption ==
  /\ WORDS \in Nat \ {0, 2} /\ WORDS % 2 = 0
  /\ Len(NC) = WORDS \div 2 + 1 /\ NC[Len(NC)] = 1

W == 2^WORD_BITS
NCAt(k) == IF k \in 0..(WORDS \div 2) THEN NC[k + 1] ELSE 0
ScalarValue(d) == FoldLeftDomain(LAMBDA sum, i : sum + d[i] * W^(i - 1), 0, d)
WordsOf(v) == [i \in 1..WORDS |-> (v \div W^(i - 1)) % W]
ORDER == W^WORDS - ScalarValue(NC)

NWords == WordsOf(ORDER)
HalfWords == WordsOf(ORDER \div 2)

(* Compared from the highest word down.  Mutated form: the order itself is *)
(* taken for a scalar.                                                     *)
Above(d, e) == \E i \in 1..WORDS : d[i] > e[i] /\ \A j \in (i + 1)..WORDS : d[j] = e[j]
CheckOverflowBeyond(d) == IF Above(d, NWords) THEN 1 ELSE 0
CheckOverflow(d) == IF d = NWords \/ Above(d, NWords) THEN 1 ELSE 0
ScalarHigh(d) == Above(d, HalfWords)

(* The words of a sum of words, and the carry out of the highest one.      *)
Carried(sum) ==
  LET t[i \in 1..WORDS] == sum[i] + (IF i = 1 THEN 0 ELSE t[i - 1] \div W)
  IN  [d |-> [i \in 1..WORDS |-> t[i] % W], over |-> t[WORDS] \div W]

(* overflow is 0 or 1.                                                     *)
Reduce(d, overflow) == Carried([i \in 1..WORDS |-> d[i] + overflow * NCAt(i - 1)]).d

(* The number of 32 bytes, reduced once.                                   *)
ScalarSetB32(v) == Reduce(WordsOf(v), CheckOverflow(WordsOf(v)))

ScalarAdd(a, b) ==
  LET s == Carried([i \in 1..WORDS |-> a[i] + b[i]])
  IN  Reduce(s.d, s.over + CheckOverflow(s.d))

(* 2^bit is added, when the sum is known to stay below the order.          *)
CaddBit(d, bit) ==
  Carried([i \in 1..WORDS |->
             d[i] + (IF bit \div WORD_BITS = i - 1 THEN 2^(bit % WORD_BITS) ELSE 0)]).d

NegateWords(d) ==
  IF \A i \in 1..WORDS : d[i] = 0 THEN d
  ELSE Carried([i \in 1..WORDS |-> W - 1 - d[i] + NWords[i] + (IF i = 1 THEN 1 ELSE 0)]).d
CondNegate(d, flag) == IF flag THEN NegateWords(d) ELSE d

(* Bits that may lie in two words.                                         *)
GetBitsVar(d, offset, count) ==
  LET i == offset \div WORD_BITS
      low == d[i + 1] \div 2^(offset % WORD_BITS)
  IN  IF (offset + count - 1) \div WORD_BITS = i THEN low % 2^count
      ELSE (low + ((d[i + 2] * 2^(WORD_BITS - (offset % WORD_BITS))) % W)) % 2^count

ShrInt(d, n) == [i \in 1..WORDS |->
  (d[i] \div 2^n + (IF i < WORDS THEN d[i + 1] * 2^(WORD_BITS - n) ELSE 0)) % W]

(***************************************************************************)
(* Products.  The accumulator has three words.  A sum that is known to     *)
(* leave the third one alone is added to the other two only.               *)
(***************************************************************************)
Accumulate(acc, x, fast) ==
  IF fast THEN (((acc % (W * W)) + x) % (W * W)) + (acc \div (W * W)) * W * W
          ELSE (acc + x) % (W * W * W)
Extract(acc, fast) ==
  IF fast THEN ((acc \div W) % W) + (acc \div (W * W)) * W * W ELSE acc \div W

(* The lowest words of the columns' sums, and what is left after them.     *)
Extracted(columns, fast) ==
  FoldLeftDomain(LAMBDA s, k :
      LET acc == Accumulate(s.acc, columns[k], k \in fast)
      IN  [words |-> Append(s.words, acc % W), acc |-> Extract(acc, k \in fast)],
    [words |-> <<>>, acc |-> 0], columns)

SumOver(n, Term(_)) == FoldLeft(LAMBDA sum, i : sum + Term(i - 1), 0, [i \in 1..n |-> i])

(* As 2 * WORDS words; the first and the last column are the short ones.   *)
Mul512(a, b) ==
  LET columns == [k \in 1..(2 * WORDS - 1) |->
        SumOver(WORDS, LAMBDA i : IF k - 1 - i \in 0..(WORDS - 1)
                                  THEN a[i + 1] * b[k - i] ELSE 0)]
      s == Extracted(columns, {1, 2 * WORDS - 1})
  IN  Append(s.words, s.acc % W)
Sqr512(a) ==
  LET columns == [k \in 1..(2 * WORDS - 1) |->
        SumOver(WORDS, LAMBDA i :
          IF k - 1 - i \notin 0..(WORDS - 1) \/ k - 1 - i < i THEN 0
          ELSE (IF k - 1 - i = i THEN 1 ELSE 2) * a[i + 1] * a[k - i])]
      s == Extracted(columns, {1, 2 * WORDS - 1})
  IN  Append(s.words, s.acc % W)

(* The words above WORDS, times NC, are added to those below.              *)
Folded(words, count) ==
  LET columns == [k \in 1..count |->
        (IF k <= WORDS THEN words[k] ELSE 0)
          + SumOver(Len(words) - WORDS, LAMBDA i : words[WORDS + i + 1] * NCAt(k - 1 - i))]
  IN  Extracted(columns, {1, count})

(* Three times: to one and a half times the words and a bit, to two bits   *)
(* above them, and to the words.                                           *)
Reduce512(l) ==
  LET half == WORDS \div 2
      first == Folded(l, WORDS + half)
      m == Append(first.words, first.acc % W)
      second == Folded(m, WORDS)
      top == ((second.acc % W) + m[WORDS + half + 1]) % W
      r == Carried([i \in 1..WORDS |-> second.words[i] + top * NCAt(i - 1)])
  IN  Reduce(r.d, r.over + CheckOverflow(r.d))

ScalarMul(a, b) == Reduce512(Mul512(a, b))
ScalarSqr(a) == Reduce512(Sqr512(a))
=============================================================================
