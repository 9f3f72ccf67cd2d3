------------------------------- MODULE Limbs -------------------------------
(***************************************************************************)
(* Calculations with the two kinds of numbers of libsecp256k1, as its      *)
(* callers carry them out: any of the field's functions within the limits  *)
(* on magnitudes that its comments state, and any of the scalars'.  fe and *)
(* d are what the functions have left, fv and dv what the numbers should   *)
(* be.  Second operands come from small sets.                              *)
(***************************************************************************)
EXTENDS FieldLimbs, ScalarLimbs

CONSTANTS
  FeOperand,      \* numbers that are added and multiplied, below MODULUS
  ScalarOperand,  \* numbers read from 32 bytes: ORDER and more are among them
  Factor,         \* small factors
  Shift,          \* distances to shift by
  MAX_STEPS       \* bound on the length of a calculation

ASSUME LimbsAssumption ==
  /\ FeOperand \subseteq 0..(MODULUS - 1) /\ ScalarOperand \subseteq 0..(W^WORDS - 1)
  /\ Factor \subseteq 1..MAX_MAGNITUDE /\ Shift \subseteq 1..(WORD_BITS - 1) /\ MAX_STEPS \in Nat

VARIABLES fe, fv, d, dv, steps
limbVars == <<fe, fv, d, dv, steps>>

(***************************************************************************)
(* Field elements                                                          *)
(***************************************************************************)
Field(a, v) ==
  /\ steps < MAX_STEPS
  /\ steps' = steps + 1
  /\ fe' = a
  /\ fv' = v % MODULUS
  /\ UNCHANGED <<d, dv>>

(* a * b modulo MODULUS, for less than 2^24, one byte of b at a time.      *)
ProductOf(a, b) ==
  FoldLeft(LAMBDA sum, i : (((sum * 2^8) % MODULUS) + a * ((b \div 2^(8 * i)) % 2^8)) % MODULUS,
           0, <<2, 1, 0>>)

(* An operand, as it is read and as doubling and negating leave it.        *)
FeOperands(v) == {FeSetB32(v).fe, FeNegate(FeNegate(FeSetB32(v).fe, 1), 2)}

NormalizeField == Field(Normalize(fe), fv) \/ Field(NormalizeVar(fe), fv) \/ Field(NormalizeWeak(fe), fv)
NegateField == fe.magnitude < MAX_MAGNITUDE /\ Field(FeNegate(fe, fe.magnitude), -fv)
ScaleField == \E i \in Factor : fe.magnitude * i <= MAX_MAGNITUDE /\ Field(MulInt(fe, i), i * fv)
AddField == \E v \in FeOperand : \E a \in FeOperands(v) :
  fe.magnitude + a.magnitude <= MAX_MAGNITUDE /\ Field(FeAdd(fe, a), fv + v)
ChooseField == \E v \in FeOperand, flag \in BOOLEAN : \E a \in FeOperands(v) :
  Field(FeCmov(fe, a, flag), IF flag THEN v ELSE fv)
MultiplyField == \E v \in FeOperand : \E a \in FeOperands(v) :
  fe.magnitude <= MAX_MAGNITUDE \div 4 /\ a.magnitude <= MAX_MAGNITUDE \div 4 /\ Field(FeMul(fe, a), ProductOf(fv, v))
SquareField == fe.magnitude <= MAX_MAGNITUDE \div 4 /\ Field(FeSqr(fe), ProductOf(fv, fv))
StoreField == fe.normalized /\ Field(FromStorage(ToStorage(fe)), fv)

FieldStep ==
  \/ NormalizeField \/ NegateField \/ ScaleField \/ AddField
  \/ ChooseField \/ MultiplyField \/ SquareField \/ StoreField

(***************************************************************************)
(* Scalars                                                                 *)
(***************************************************************************)
Scalars(words, v) ==
  /\ steps < MAX_STEPS
  /\ steps' = steps + 1
  /\ d' = words
  /\ dv' = v % ORDER
  /\ UNCHANGED <<fe, fv>>

AddScalar == \E v \in ScalarOperand : Scalars(ScalarAdd(d, ScalarSetB32(v)), dv + v)
MultiplyScalar == \E v \in ScalarOperand :
  Scalars(ScalarMul(d, ScalarSetB32(v)), dv * v)
SquareScalar == Scalars(ScalarSqr(d), dv * dv)
NegateScalar == \E flag \in BOOLEAN : Scalars(CondNegate(d, flag), IF flag THEN -dv ELSE dv)
ShiftScalar == \E n \in Shift : Scalars(ShrInt(d, n), dv \div 2^n)
SetBitOfScalar == \E bit \in 0..(WORDS * WORD_BITS - 1) :
  dv + 2^bit < ORDER /\ Scalars(CaddBit(d, bit), dv + 2^bit)

ScalarStep ==
  \/ AddScalar \/ MultiplyScalar \/ SquareScalar
  \/ NegateScalar \/ ShiftScalar \/ SetBitOfScalar

(***************************************************************************)
(* Properties                                                              *)
(***************************************************************************)
(* A field element is the number it should be whichever functions have     *)
(* left its limbs as they are: no carry is lost, no word overflows, and    *)
(* its limbs fit the magnitude it is said to have (secp256k1_fe_verify).   *)
(* Once normalized it is written in one way, so that comparing and writing *)
(* it are right, and both tests for zero are right before that.            *)
FieldExact ==
  /\ NumberOf(fe.n) % MODULUS = fv
  /\ Verify(fe)
  /\ fe.normalized => /\ FeGetB32(fe) = fv
                      /\ \A v \in FeOperand :
                           CmpVar(fe, FeSetB32(v).fe) = (IF fv = v THEN 0 ELSE IF fv > v THEN 1 ELSE -1)
  /\ NormalizesToZero(fe) <=> fv = 0
  /\ NormalizesToZeroVar(fe) <=> fv = 0

(* A scalar is the number it should be, and below the order, whichever     *)
(* functions have computed it; its high half and its bits are read right.  *)
ScalarExact ==
  /\ ScalarValue(d) = dv
  /\ ScalarHigh(d) <=> dv > ORDER \div 2
  /\ \A offset \in 0..(WORDS * WORD_BITS - 2) :
       GetBitsVar(d, offset, 2) = (dv \div 2^offset) % 4
=============================================================================
