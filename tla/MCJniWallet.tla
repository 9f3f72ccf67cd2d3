---------------------------- MODULE MCJniWallet ----------------------------
(* Instances of JniWallet for TLC.  a pays the wallet; b sends a's coin on *)
(* and keeps the change; c returns what b sent, to an address the wallet   *)
(* generates once its first two are used.                                  *)
EXTENDS JniWallet, FiniteSetsExt

CONSTANTS a, b, c, x

Coin(t, i) == [hash |-> t, n |-> i]

MCIn == [t \in Tx |-> CASE t = a -> {Coin(x, 1)} [] t = b -> {Coin(a, 1)} [] t = c -> {Coin(b, 1)}]
MCOut == [t \in Tx |->
  CASE t = a -> <<"e1", "e2">> [] t = b -> <<NoAddr, "i1">> [] t = c -> <<"z", "e3">>]
MCLockHeight == [t \in Tx |-> IF t = c THEN 2 ELSE 0]
MCDerived == [external |-> <<"e1", "e2", "e3", "e4", "e5">>, internal |-> <<"i1", "i2">>]
MCGap == [external |-> 2, internal |-> 1]
MCChain == {"external", "internal"}

Satoshis(u) == u.n * (IF u.hash = a THEN 1 ELSE IF u.hash = b THEN 3 ELSE 10)
MCValue == [S \in SUBSET Outputs |-> MapThenSumSet(Satoshis, S)]
MCTxFee(ins, outs) == ins + outs

Request(length, parses, network, outs) ==
  [length |-> length, parses |-> parses, network |-> network, outs |-> outs]
Pay(addr, amount) == [addr |-> addr, amount |-> amount]
MCRequests ==
  {Request(9, TRUE, "main", <<>>), Request(2, FALSE, "main", <<>>),
   Request(2, TRUE, "test", <<>>), Request(2, TRUE, "main", <<Pay("z", 1)>>),
   Request(2, TRUE, "main", <<Pay("z", 1), Pay("e1", 1)>>)}
MCSweepInputs == {[amount |-> 5, addr |-> "k"]}

(* What SweepAlwaysPaysInputs assumes of the coins.                        *)
ASSUME SweepsSuffice == SweepsFit
=============================================================================
