---------------------------- MODULE MCArithmetic ----------------------------
(* Points of the curve y^2 = x^3 + 7 over 43 elements, whose group has 31, *)
(* like secp256k1: both primes, 43 = 3 modulo 4 and 1 modulo 3, 31 < 43.   *)
(* Numbers modulo 2^22 - 67, in four limbs of 6 bits, 4 in the highest,    *)
(* and modulo 2^12 - 81, in four words of 3 bits.                          *)
EXTENDS Arithmetic
MCG == <<2, 12>>
MCNC == <<1, 2, 1>>
=============================================================================
