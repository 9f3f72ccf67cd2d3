--------------------------- MODULE MCTransactions ---------------------------
(* Instances of Transactions with a byte of 16 values and short hashes.    *)
EXTENDS Transactions

Mix(bytes, seed, n) ==
  LET h[k \in 0..Len(bytes)] ==
        IF k = 0 THEN seed ELSE (h[k - 1] * 31 + bytes[k] + 7) % 65521
  IN LE(h[Len(bytes)], n)
MCSha256d(bytes) == Mix(bytes, 1, HASH)
MCHash160(bytes) == Mix(bytes, 2, HASH160_LEN)
MCKeySign(k, md) == Mix(PubKey[k] \o md, 3, HASH)

MCPubkeyAddress == [c \in {"BTC", "QTUM"} |-> IF c = "BTC" THEN 0 ELSE 11]
MCScriptAddress == [c \in {"BTC", "QTUM"} |-> IF c = "BTC" THEN 5 ELSE 10]
MCPubKey == [k \in {"k", "u"} |-> IF k = "k" THEN <<2, 6, 1>> ELSE <<4, 3, 9, 9>>]
PayTo(k) == BitWAddressScriptPubKey(BitWKeyAddress(k, "BTC"), "BTC")
PayToPubkey(k) == BitWScriptPushData(PubKey[k]) \o <<OP_CHECKSIG>>
PayToScript == BitWAddressScriptPubKey(<<5, 9, 9>>, "BTC")

Coin(n, index, amount, script, sequence) ==
  [txHash |-> <<n, n, 9, 9>>, index |-> index, amount |-> amount,
   script |-> script, sequence |-> sequence]
MCPrevouts == {Coin(1, 0, 300, PayTo("k"), TXIN_SEQUENCE),
               Coin(2, 1, 17, PayTo("u"), TXIN_SEQUENCE - 1),
               Coin(3, 0, 0, PayToPubkey("k"), TXIN_SEQUENCE)}
(* A script that is paid, and one that is cut off within a push, of which  *)
(* the length needs a longer integer.                                      *)
MCPayments == {[amount |-> 250, script |-> PayToScript],
               [amount |-> 40, script |-> <<OP_PUSHDATA1, 12>> \o Zeros(11)]}

(* What SizeAlwaysRight assumes of the keys.                               *)
ASSUME KeysSuffice == SignaturesFit /\ EstimateFits
=============================================================================
