----------------------------- MODULE Arithmetic -----------------------------
(***************************************************************************)
(* The arithmetic below keys and signatures: a calculation with points, in *)
(* coordinates that are taken as numbers (Multiples), or one with the      *)
(* numbers themselves, in limbs (Limbs).  The layers share no state.       *)
(***************************************************************************)
EXTENDS Multiples, Limbs

VARIABLE subject

arithmeticVars == <<subject, vars, limbVars>>

IdleLimbs ==
  /\ fe = SetInt(0) /\ fv = 0
  /\ d = ScalarSetB32(0) /\ dv = 0
  /\ steps = 0
IdlePoints == r = GejInfinity /\ gen = GenReset /\ k = 0 /\ blinds = 0

ArithmeticInit ==
  \/ subject = "point" /\ Init /\ IdleLimbs
  \/ subject = "field" /\ IdlePoints /\ IdleLimbs
  \/ subject = "scalar" /\ IdlePoints /\ IdleLimbs

ArithmeticNext ==
  /\ UNCHANGED subject
  /\ \/ subject = "point" /\ Next /\ UNCHANGED limbVars
     \/ subject = "field" /\ FieldStep /\ UNCHANGED vars
     \/ subject = "scalar" /\ ScalarStep /\ UNCHANGED vars

ArithmeticSpec == ArithmeticInit /\ [][ArithmeticNext]_arithmeticVars
=============================================================================
