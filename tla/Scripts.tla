------------------------------ MODULE Scripts ------------------------------
(***************************************************************************)
(* Scripts and the addresses they pay, as BitWAddress.c reads and writes   *)
(* them.  An address is the byte string its Base58Check form encodes: a    *)
(* version byte and a hash.  The opcodes keep their order, and the lengths *)
(* of hashes, public keys and signatures keep theirs below OP_PUSHDATA1.   *)
(***************************************************************************)
EXTENDS Bytes

CONSTANTS
  OP_PUSHDATA1, OP_PUSHDATA2, OP_PUSHDATA4, OP_DUP, OP_EQUAL,
  OP_EQUALVERIFY, OP_HASH160, OP_CHECKSIG,
  HASH160_LEN,         \* 20
  PUBKEY_LEN,          \* {33, 65}: compressed and uncompressed
  MAX_SCRIPT_LENGTH,   \* longer scripts are not parsed for an address
  PubkeyAddress,       \* PubkeyAddress[c]: the version byte of coin type c
  ScriptAddress,       \* ScriptAddress[c]: that of its script addresses
  Hash160(_)           \* BitWHash160

ASSUME OpcodeAssumption ==
  /\ {OP_PUSHDATA1, OP_PUSHDATA2, OP_PUSHDATA4} \subseteq Nat
  /\ {HASH160_LEN} \cup PUBKEY_LEN \subseteq 1..(OP_PUSHDATA1 - 1)
  /\ HASH160_LEN \notin PUBKEY_LEN
  /\ OP_PUSHDATA1 < OP_PUSHDATA2 /\ OP_PUSHDATA2 < OP_PUSHDATA4
  /\ {OP_DUP, OP_EQUAL, OP_EQUALVERIFY, OP_HASH160, OP_CHECKSIG}
       \subseteq (OP_PUSHDATA4 + 1)..(BYTE - 1)
  /\ 2 * OP_PUSHDATA1 < VAR_INT16_HEADER
  /\ MAX_SCRIPT_LENGTH \in Nat /\ 2 * OP_PUSHDATA1 <= MAX_SCRIPT_LENGTH

ASSUME VersionAssumption ==
  /\ "BTC" \in DOMAIN PubkeyAddress
  /\ {PubkeyAddress, ScriptAddress} \subseteq [DOMAIN PubkeyAddress -> Byte]

CoinType == DOMAIN PubkeyAddress

LenWidth(op) == CASE op = OP_PUSHDATA1 -> 1 [] op = OP_PUSHDATA2 -> W16
                  [] op = OP_PUSHDATA4 -> W32 [] OTHER -> 0

(* The data length the element at off announces.  A length that is cut off *)
(* is not read: the one of the element before it is used again.            *)
ElementLen(script, off, before) ==
  LET op == script[off + 1]  w == LenWidth(op)
  IN CASE w = 0 -> IF op > OP_PUSHDATA4 THEN 0 ELSE op
       [] w > 0 /\ off + 1 + w <= Len(script) -> GetLE(script, off + 1, w)
       [] OTHER -> before

(* The offsets of the script's elements; none if the last one is cut off.  *)
(* Every turn of the loop passes a byte at least.                          *)
NextElement(script, s) ==
  LET len == ElementLen(script, s.off, s.len)
  IN IF s.off >= Len(script) THEN s
     ELSE [off |-> s.off + 1 + LenWidth(script[s.off + 1]) + len, len |-> len,
           found |-> Append(s.found, s.off)]
ElementsWalk(script) ==
  LET walk[k \in 0..Len(script)] ==
        IF k = 0 THEN [off |-> 0, len |-> 0, found |-> <<>>]
        ELSE NextElement(script, walk[k - 1])
  IN walk
BitWScriptElements(script) ==
  LET end == ElementsWalk(script)[Len(script)]
  IN IF end.off = Len(script) THEN end.found ELSE <<>>

(* The bytes the element at off pushes, <<>> for NULL.                     *)
BitWScriptData(script, off) ==
  At(script, off + 1 + LenWidth(script[off + 1]), ElementLen(script, off, 0))

BitWScriptPushData(data) ==
  (CASE Len(data) < OP_PUSHDATA1 -> <<Len(data)>>
     [] Len(data) >= OP_PUSHDATA1 /\ Len(data) < BYTE - 1 ->
          <<OP_PUSHDATA1, Len(data)>>
     [] Len(data) >= BYTE - 1 /\ Len(data) < Span(W16) - 1 ->
          <<OP_PUSHDATA2>> \o LE(Len(data), W16)
     [] OTHER -> <<OP_PUSHDATA4>> \o LE(Len(data), W32)) \o data

(* The heads of the elements of a script that may be read for an address.  *)
HeadsAt(script, at) == [n \in DOMAIN at |-> script[at[n] + 1]]
Heads(script) ==
  IF Len(script) > MAX_SCRIPT_LENGTH THEN <<>>
  ELSE HeadsAt(script, BitWScriptElements(script))

PaysPubkeyHash(h) == h = <<OP_DUP, OP_HASH160, HASH160_LEN, OP_EQUALVERIFY,
                           OP_CHECKSIG>>
PaysScriptHash(h) == h = <<OP_HASH160, HASH160_LEN, OP_EQUAL>>
PaysPubkey(h) == Len(h) = 2 /\ h[1] \in PUBKEY_LEN /\ h[2] = OP_CHECKSIG

(* The address a scriptPubKey pays, <<>> if the script is none of the      *)
(* three forms the wallet can spend.                                       *)
AddressPaid(script, h, at, coin) ==
  CASE PaysPubkeyHash(h) ->
         <<PubkeyAddress[coin]>> \o BitWScriptData(script, at[3])
    [] PaysScriptHash(h) ->
         <<ScriptAddress[coin]>> \o BitWScriptData(script, at[2])
    [] PaysPubkey(h) ->
         <<PubkeyAddress[coin]>> \o Hash160(BitWScriptData(script, at[1]))
    [] OTHER -> <<>>
BitWAddressFromScriptPubKey(script, coin) ==
  AddressPaid(script, Heads(script), BitWScriptElements(script), coin)

(* The address a scriptSig spends from, permissively: a last element of    *)
(* the length of a public key is taken for one, any other for a script.    *)
AddressSpent(h, data, coin) ==
  LET n == Len(h)
      pushes == n >= 2 /\ h[n - 1] <= OP_PUSHDATA4 /\ h[n] \in 1..OP_PUSHDATA4
  IN CASE pushes /\ h[n] \in PUBKEY_LEN ->
            <<PubkeyAddress[coin]>> \o Hash160(data)
       [] pushes /\ h[n] \notin PUBKEY_LEN /\ data # <<>> ->
            <<ScriptAddress[coin]>> \o Hash160(data)
       [] OTHER -> <<>>
BitWAddressFromScriptSig(script, coin) ==
  AddressSpent(Heads(script),
               BitWScriptData(script, Last(BitWScriptElements(script))), coin)

(* The script that pays an address; <<>> for another coin's address.       *)
BitWAddressScriptPubKey(addr, coin) ==
  CASE addr = <<>> -> <<>>
    [] addr # <<>> /\ addr[1] = PubkeyAddress[coin] ->
         <<OP_DUP, OP_HASH160, HASH160_LEN>> \o Tail(addr)
           \o <<OP_EQUALVERIFY, OP_CHECKSIG>>
    [] addr # <<>> /\ addr[1] = ScriptAddress[coin] ->
         <<OP_HASH160, HASH160_LEN>> \o Tail(addr) \o <<OP_EQUAL>>
    [] OTHER -> <<>>

BitWAddressIsValid(addr, coin) ==
  Len(addr) = 1 + HASH160_LEN
    /\ addr[1] \in {PubkeyAddress[coin], ScriptAddress[coin]}

(* The hash of an address, whatever its version byte.                      *)
BitWAddressHash160(addr) ==
  IF Len(addr) = 1 + HASH160_LEN THEN Tail(addr) ELSE <<>>
=============================================================================
