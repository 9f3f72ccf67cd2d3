---------------------------- MODULE MCWalletSend ----------------------------
(***************************************************************************)
(* Instances of WalletSend for TLC, with sizes and amounts scaled down: a  *)
(* transaction with one output and change has room for three inputs.       *)
(***************************************************************************)
EXTENDS WalletSend

MCUtxoLists ==
  {<<>>, <<13>>, <<2, 13>>, <<1, 1, 13, 13>>, <<1, 2, 1, 40>>, <<6, 13, 13, 1>>,
   <<12, 12, 12, 12, 12>>, <<13, 13, 13, 13, 13>>}
MCRequests == {<<4>>, <<11>>, <<27>>, <<31>>, <<5, 4>>, <<5, 27>>, <<24, 4>>, <<5, 16, 4>>}
=============================================================================
