-------------------------------- MODULE Sums --------------------------------
(***************************************************************************)
(* Sums of the amounts in a list, as the code adds them up: one after the  *)
(* other, in the order of the list.                                        *)
(***************************************************************************)
EXTENDS Integers, Sequences

(* PartialSums(s)[n] is the sum of the first n amounts of s.               *)
PartialSums(s) ==
  LET sum[n \in 0..Len(s)] == IF n = 0 THEN 0 ELSE sum[n - 1] + s[n]
  IN sum

Total(s) == PartialSums(s)[Len(s)]
=============================================================================
