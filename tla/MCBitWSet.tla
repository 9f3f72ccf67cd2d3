----------------------------- MODULE MCBitWSet ------------------------------
(***************************************************************************)
(* Two sets and items whose hash values collide in each of the tables and  *)
(* wrap around the end of the second one.  x1 and y1 are equal.            *)
(***************************************************************************)
EXTENDS BitWSet

CONSTANTS s1, s2, x1, y1, x2, x3, x4

MCHash == [x \in Item |->
  CASE x \in {x1, y1} -> 6 [] x = x2 -> 20 [] x = x3 -> 7 [] x = x4 -> 2]
MCKey == [x \in Item |-> IF x = y1 THEN x1 ELSE x]
MCTableSizes == <<1, 3, 7, 13>>
MCCapacity == [s \in SetId |-> 0]
=============================================================================
