------------------------------ MODULE MCWallet ------------------------------
(***************************************************************************)
(* Instances of Wallet for TLC.                                            *)
(*                                                                         *)
(* a pays the wallet; c is a replacement of a that pays another of its     *)
(* addresses; b sends a's coin on and keeps the change; d sends the change *)
(* away, so that only the wallet's knowledge of b makes it a wallet        *)
(* transaction.                                                            *)
(***************************************************************************)
EXTENDS Wallet, FiniteSetsExt, TLC

CONSTANTS a, b, c, d, x

Coin(t, i) == [hash |-> t, n |-> i]

MCIn == [t \in Tx |->
  CASE t = a -> {Coin(x, 1)}
    [] t = b -> {Coin(a, 1)}
    [] t = c -> {Coin(x, 1)}
    [] t = d -> {Coin(b, 2)}]
MCOut == [t \in Tx |->
  CASE t = a -> <<"e1", "e2">>
    [] t = b -> <<NoAddr, "i1">>
    [] t = c -> <<"e2">>
    [] t = d -> <<"z">>]
MCLockHeight == [t \in Tx |-> IF t = d THEN 2 ELSE 0]
MCDerived == [external |-> <<"e1", "e2", "e3", "e4", "e5">>,
              internal |-> <<"i1", "i2", "i3">>]
MCGap == [external |-> 2, internal |-> 1]
MCChain == {"external", "internal"}
MCSaved == {<<>>} \cup {s \in {<<a, b>>} : Range(s) \subseteq Tx}

(* Every amount is distinct, and no two sets of outputs have the same sum. *)
Satoshis(u) ==
  u.n * CASE u.hash = a -> 1 [] u.hash = b -> 3 [] u.hash = c -> 10 [] u.hash = d -> 40
MCValue == [S \in SUBSET Outputs |-> MapThenSumSet(Satoshis, S)]

(* What GapStaysRestored assumes of the chains.                            *)
ASSUME ChainsSuffice == ChainsLastOut

(* The threads are interchangeable.                                        *)
Symmetry == Permutations(Thread)
=============================================================================
