------------------------------- MODULE Curve -------------------------------
(***************************************************************************)
(* libsecp256k1, field_impl.h and group_impl.h: the points of              *)
(*   y^2 = x^3 + CURVE_B  over the integers modulo P,                      *)
(* affine (ge) and with a Jacobian denominator (gej: x / z^2, y / z^3).    *)
(* A field element is its value; how it is cut into limbs is left out.     *)
(* The coordinates of an infinite point are never read and are zero here.  *)
(***************************************************************************)
EXTENDS Integers, Sequences

CONSTANTS
  P,        \* the field prime
  N,        \* the order of the group
  CURVE_B,
  G         \* secp256k1_ge_const_g, as <<x, y>>

ASSUME CurveAssumption ==
  /\ {P, N, CURVE_B} \subseteq Nat /\ P > 3 /\ N > 1
  /\ P % 4 = 3               \* so that a square root is a power
  /\ N < P /\ P < 2 * N      \* an x is the remainder of at most two scalars
  /\ \A x \in 0..(P - 1) : (((x * x) % P) * x + CURVE_B) % P # 0

(***************************************************************************)
(* The field                                                               *)
(***************************************************************************)
F(a) == a % P
Sqr(a) == F(a * a)
Cube(a) == F(Sqr(a) * a)

PowerMod(a, e, m) ==
  LET pow[n \in 0..e] ==
        LET half == pow[n \div 2]  square == (half * half) % m
        IN  IF n = 0 THEN 1 ELSE IF n % 2 = 0 THEN square ELSE (square * a) % m
  IN  pow[e]
Power(a, e) == PowerMod(F(a), e, P)

(* The addition chain raises to the power P - 2; the inverse of 0 is 0.    *)
FeInv(a) == Power(a, P - 2)

(* <<>> for a number that has no root.                                     *)
IfRoot(r, a) == IF Sqr(r) = F(a) THEN <<r>> ELSE <<>>
FeSqrt(a) == IfRoot(Power(a, (P + 1) \div 4), a)

(* One inversion for all of a: r first holds the products of the prefixes. *)
FeInvAllVar(a) ==
  LET n == Len(a)
      prefix[i \in 1..n] == IF i = 1 THEN a[1] ELSE F(prefix[i - 1] * a[i])
      u[i \in 1..n] == IF i = n THEN FeInv(prefix[n]) ELSE F(u[i + 1] * a[i + 1])
  IN  [i \in 1..n |-> IF i = 1 THEN u[1] ELSE F(prefix[i - 1] * u[i])]

IsOdd(a) == a % 2 = 1

(***************************************************************************)
(* Points                                                                  *)
(***************************************************************************)
Ge(x, y) == [x |-> x, y |-> y, infinity |-> FALSE]
Gej(x, y, z) == [x |-> x, y |-> y, z |-> z, infinity |-> FALSE]
GejInfinity == [x |-> 0, y |-> 0, z |-> 0, infinity |-> TRUE]
GeInfinity == [x |-> 0, y |-> 0, infinity |-> TRUE]
ConstG == Ge(G[1], G[2])

GejSetGe(a) == IF a.infinity THEN GejInfinity ELSE Gej(a.x, a.y, 1)
GeSetGejZinv(a, zi) ==
  IF a.infinity THEN GeInfinity ELSE Ge(F(a.x * Sqr(zi)), F(a.y * Cube(zi)))
GeSetGej(a) == GeSetGejZinv(a, FeInv(a.z))

GeSetAllGejVar(a) ==
  LET finite == SelectSeq(a, LAMBDA p : ~p.infinity)
      azi == FeInvAllVar([i \in DOMAIN finite |-> finite[i].z])
      count(i) == Len(SelectSeq(SubSeq(a, 1, i), LAMBDA p : ~p.infinity))
  IN  [i \in 1..Len(a) |->
         IF a[i].infinity THEN GeInfinity ELSE GeSetGejZinv(a[i], azi[count(i)])]

(* zr[i] is the ratio of the denominator of a[i] to that of a[i - 1].      *)
GeSetTableGejVar(a, zr) ==
  LET n == Len(a)
      zi[i \in 1..n] == IF i = n THEN FeInv(a[n].z) ELSE F(zi[i + 1] * zr[i + 1])
  IN  [i \in 1..n |-> GeSetGejZinv(a[i], zi[i])]

(* Instead of denominator 1, all points get that of the last one.          *)
GeGlobalzSetTableGej(a, zr) ==
  LET n == Len(a)
      zs[i \in 1..n] == IF i = n THEN 1 ELSE F(zs[i + 1] * zr[i + 1])
  IN  [pre |-> [i \in 1..n |-> GeSetGejZinv(a[i], zs[i])], globalz |-> a[n].z]

Negated(a) == [a EXCEPT !.y = F(-@)]

Points(x, ys) == [i \in DOMAIN ys |-> Ge(x, ys[i])]
GeSetXquad(x) == Points(x, FeSqrt(Cube(x) + CURVE_B))
WithParity(r, odd) ==
  [i \in DOMAIN r |-> IF IsOdd(r[i].y) = odd THEN r[i] ELSE Negated(r[i])]
GeSetXoVar(x, odd) == WithParity(GeSetXquad(x), odd)

GeIsValidVar(a) == ~a.infinity /\ Sqr(a.y) = F(Cube(a.x) + CURVE_B)
GejIsValidVar(a) == ~a.infinity /\ Sqr(a.y) = F(Cube(a.x) + CURVE_B * Sqr(Cube(a.z)))
GejEqXVar(x, a) == F(Sqr(a.z) * x) = a.x
GejRescale(a, s) ==
  [a EXCEPT !.x = F(@ * Sqr(s)), !.y = F(@ * Cube(s)), !.z = F(@ * s)]

(***************************************************************************)
(* Addition                                                                *)
(***************************************************************************)
GejDoubleVar(a) ==
  LET t1 == F(3 * Sqr(a.x))
      t3 == F(2 * Sqr(a.y) * a.x)
      t4 == F(8 * Sqr(Sqr(a.y)))
  IN  IF a.infinity THEN GejInfinity
      ELSE Gej(F(Sqr(t1) - 4 * t3), F(t1 * F(6 * t3 - Sqr(t1)) - t4), F(2 * a.y * a.z))

(* The sum of points with numerators u1, u2 and s1, s2 over one            *)
(* denominator; the sum's denominator is z times u2 - u1.                  *)
SumOf(a, u1, u2, s1, s2, z) ==
  LET h == F(u2 - u1)
      i == F(s2 - s1)
      t == F(u1 * Sqr(h))
      x == F(Sqr(i) - Cube(h) - 2 * t)
  IN  IF h # 0 THEN Gej(x, F(F(t - x) * i - F(Cube(h) * s1)), F(z * h))
      ELSE IF i = 0 THEN GejDoubleVar(a)
      ELSE GejInfinity

GejAddVar(a, b) ==
  IF a.infinity THEN b
  ELSE IF b.infinity THEN a
  ELSE SumOf(a, F(a.x * Sqr(b.z)), F(b.x * Sqr(a.z)),
             F(a.y * Cube(b.z)), F(b.y * Cube(a.z)), F(a.z * b.z))

GejAddGeVar(a, b) ==
  IF a.infinity THEN GejSetGe(b)
  ELSE IF b.infinity THEN a
  ELSE SumOf(a, a.x, F(b.x * Sqr(a.z)), a.y, F(b.y * Cube(a.z)), a.z)

(* *rzr of gej_add_ge_var: the ratio of the new denominator to a's.        *)
AddGeRatio(a, b) ==
  LET h == F(b.x * Sqr(a.z) - a.x)
  IN  IF h # 0 \/ b.infinity THEN IF b.infinity THEN 1 ELSE h
      ELSE IF F(b.y * Cube(a.z)) = a.y THEN F(2 * a.y) ELSE 0

(* b's denominator is 1 / bzinv.                                           *)
GejAddZinvVar(a, b, bzinv) ==
  LET az == F(a.z * bzinv)
  IN  IF b.infinity THEN a
      ELSE IF a.infinity THEN GejSetGe(GeSetGejZinv(b, bzinv))
      ELSE SumOf(a, a.x, F(b.x * Sqr(az)), a.y, F(b.y * Cube(az)), a.z)

(* Mutated form: the formula without its degenerate case.            *)
AddWithoutDegenerate(a, b) ==
  LET u2 == F(b.x * Sqr(a.z))
      t == F(a.x + u2)
      m == F(a.y + F(b.y * Cube(a.z)))
      rr == F(Sqr(t) - a.x * u2)
      q == F(Sqr(m) * t)
      x == F(Sqr(rr) - q)
      z == F(a.z * m)
  IN  IF a.infinity THEN Gej(b.x, b.y, 1)
      ELSE IF z = 0 THEN GejInfinity
      ELSE Gej(F(4 * x), F(-4 * F(rr * F(2 * x - q) + Sqr(Sqr(m)))), F(2 * z))

(* The sum by a slope of rr / m, where t is the sum of the x coordinates.  *)
SumBySlope(a, t, rr, m, n) ==
  LET q == F(Sqr(m) * t)
      x == F(Sqr(rr) - q)
      z == F(a.z * m)
  IN  IF z = 0 THEN GejInfinity
      ELSE Gej(F(4 * x), F(-4 * F(rr * F(2 * x - q) + n)), F(2 * z))

(* One formula for sums and doubles.  Where it is 0/0, as x1 # x2 but      *)
(* x1^3 = x2^3 and y1 = -y2, the slope is (y1 - y2) / (x1 - x2).           *)
GejAddGe(a, b) ==
  LET u2 == F(b.x * Sqr(a.z))
      t == F(a.x + u2)
      m == F(a.y + F(b.y * Cube(a.z)))
      rr == F(Sqr(t) - a.x * u2)
  IN  IF a.infinity THEN Gej(b.x, b.y, 1)
      ELSE IF m = 0 /\ rr = 0
           THEN SumBySlope(a, t, F(2 * a.y), F(a.x - u2), m)
           ELSE SumBySlope(a, t, rr, m, Sqr(Sqr(m)))
=============================================================================
