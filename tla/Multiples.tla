----------------------------- MODULE Multiples -----------------------------
(***************************************************************************)
(* A calculation with points, as libsecp256k1's functions carry one out:   *)
(* r is the point, in whatever denominator the steps so far have left it,  *)
(* gen the blinded context, and k the multiple of the generator that the   *)
(* calls have asked for.  The second operands come from small sets.        *)
(***************************************************************************)
EXTENDS Ecmult

CONSTANTS
  Operand,      \* multiples of the generator that are added
  Scalar,       \* factors of points
  Denominator,  \* denominators of operands, and of blinding
  MAX_BLINDS    \* bound on the calls of secp256k1_context_randomize

ASSUME MultiplesAssumption ==
  /\ Operand \subseteq 1..(N - 1) /\ Scalar \subseteq 0..(N - 1)
  /\ Denominator \subseteq 1..(P - 1) /\ MAX_BLINDS \in Nat

VARIABLES r, gen, k, blinds
vars == <<r, gen, k, blinds>>

(***************************************************************************)
(* The reference: chords and tangents in affine coordinates, with division *)
(* by search.                                                              *)
(***************************************************************************)
Quotient(a, b) == CHOOSE q \in 0..(P - 1) : F(q * b - a) = 0
Chord(a, b) ==
  LET slope == IF a.x = b.x THEN Quotient(3 * a.x * a.x, 2 * a.y)
                            ELSE Quotient(b.y - a.y, b.x - a.x)
      x == F(slope * slope - a.x - b.x)
  IN  IF a.infinity THEN b
      ELSE IF b.infinity THEN a
      ELSE IF a.x = b.x /\ F(a.y + b.y) = 0 THEN GeInfinity
      ELSE Ge(x, F(slope * (a.x - x) - a.y))
MultipleOfG ==
  LET m[i \in 0..(N - 1)] == IF i = 0 THEN GeInfinity ELSE Chord(m[i - 1], ConstG)
  IN  [i \in 0..(N - 1) |-> m[i]]
Affine(a) == IF a.infinity THEN GeInfinity
             ELSE Ge(Quotient(a.x, a.z * a.z), Quotient(a.y, a.z * a.z * a.z))

(* N is the order of the generator.                                        *)
ASSUME OrderAssumption ==
  /\ Chord(MultipleOfG[N - 1], ConstG) = GeInfinity
  /\ \A i \in 1..(N - 1) : ~MultipleOfG[i].infinity

(***************************************************************************)
(* Init and the steps                                                      *)
(***************************************************************************)
Init ==
  /\ r = GejInfinity
  /\ k = 0
  /\ blinds = 0
  /\ \E s \in Denominator, b \in Scalar \ {0} : gen = EcmultGenBlind(GenReset, s, b)

Computed(point, multiple) ==
  /\ r' = point
  /\ k' = multiple % N
  /\ UNCHANGED <<gen, blinds>>

Double == Computed(GejDoubleVar(r), 2 * k)

Add == \E b \in Operand :
  LET ge == MultipleOfG[b]
  IN  \/ \E z \in Denominator :
           \/ Computed(GejAddVar(r, GejRescale(GejSetGe(ge), z)), k + b)
           \/ Computed(GejAddZinvVar(r, Ge(F(ge.x * Sqr(z)), F(ge.y * Cube(z))), FeInv(z)), k + b)
      \/ Computed(GejAddGeVar(r, ge), k + b)
      \/ Computed(GejAddGe(r, ge), k + b)

Negate == Computed(Negated(r), -k)

Rescale == ~r.infinity /\ \E s \in Denominator : Computed(GejRescale(r, s), k)

(* Written with one coordinate and a parity, and read again.               *)
Compress ==
  /\ ~r.infinity
  /\ LET ge == GeSetGej(r)
     IN  Computed(GejSetGe(GeSetXoVar(ge.x, IsOdd(ge.y))[1]), k)

Ecmult ==
  /\ ~r.infinity
  /\ \E na, ng \in Scalar : Computed(EcmultOf(r, na, ng), na * k + ng)

MultiplyConst ==
  /\ ~r.infinity
  /\ \E s \in Scalar : Computed(EcmultConst(GeSetGej(r), s), s * k)

Generate == \E gn \in Scalar : Computed(EcmultGen(gen, gn), gn)

(* secp256k1_context_randomize                                             *)
Randomize ==
  /\ blinds < MAX_BLINDS
  /\ blinds' = blinds + 1
  /\ \E s \in Denominator, b \in Scalar \ {0} : gen' = EcmultGenBlind(gen, s, b)
  /\ UNCHANGED <<r, k>>

Next ==
  \/ Double \/ Add \/ Negate \/ Rescale \/ Compress
  \/ Ecmult \/ MultiplyConst \/ Generate \/ Randomize

Spec == Init /\ [][Next]_vars

(***************************************************************************)
(* Properties                                                              *)
(***************************************************************************)
(* Whatever mixture of formulas, tables, windows and blinding computed a   *)
(* point, and whatever denominator it has, it is the multiple that was     *)
(* asked for, and infinite exactly when that is 0: the special cases of    *)
(* the addition formulas (equal, opposite, infinite and degenerate         *)
(* operands) and the signed digits never go wrong.                         *)
RightMultiple == Affine(r) = MultipleOfG[k]
=============================================================================
