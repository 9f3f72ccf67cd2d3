------------------------------ MODULE BitWKey ------------------------------
(***************************************************************************)
(* BitWKey.c: private and public keys, their texts, addresses and          *)
(* signatures.  A BitWKey holds a secret, whether its public key is        *)
(* written compressed, and the buffer in which that public key is kept     *)
(* once it was computed.                                                   *)
(***************************************************************************)
EXTENDS Secp256k1, Base58

CONSTANTS
  Sha256(_), Hash160(_), Rmd160(_),
  HASH160,                                \* sizeof(UInt160)
  HEX,                                    \* 16: HEX * HEX = BYTE
  MINI_LENGTHS, CHAR_S, QUESTION_MARK,    \* 30 and 22, 'S', '?'
  PRIVKEY, PUBKEY_ADDRESS, QTUM_ADDRESS,  \* version bytes
  BTC, ETH, EOS, QTUM,                    \* coin types
  EOS_CHECK                               \* the bytes of EOS's checksum: 4

(***************************************************************************)
(* Arithmetic of the curve                                                 *)
(***************************************************************************)
BitWSecp256k1ModAdd(a, b) == PrivkeyTweakAdd(a, b)
BitWSecp256k1ModMul(a, b) == PrivkeyTweakMul(a, b)

Serialized(q, compressed) ==
  IF q = <<>> THEN <<>> ELSE PubkeySerialize(q[1], compressed)
BitWSecp256k1PointGen(i) == Serialized(PubkeyCreate(i), TRUE)
SumWith(q, i) == IF q = <<>> THEN <<>> ELSE Serialized(PubkeyTweakAdd(q[1], i), TRUE)
BitWSecp256k1PointAdd(p, i) == SumWith(PubkeyParse(p), i)
ProductWith(q, i) == IF q = <<>> THEN <<>> ELSE Serialized(PubkeyTweakMul(q[1], i), TRUE)
BitWSecp256k1PointMul(p, i) == ProductWith(PubkeyParse(p), i)

(***************************************************************************)
(* The texts of private keys                                               *)
(***************************************************************************)
NoPubKey == Zeros(UNCOMPRESSED_LEN)
BitWKeyClean == [secret |-> Zeros(HASH), compressed |-> FALSE, pubKey |-> NoPubKey]

(* The key of a secret; whether it is one, SeckeyVerify says.              *)
BitWKeySetSecret(secret, compressed) ==
  [BitWKeyClean EXCEPT !.secret = secret, !.compressed = compressed]

IsHex(c) == c \in 0..(HEX - 1)

(* sscanf("%2hhx"): a pair gives its first digit alone when its second     *)
(* character is none, and ends the number when its first is none.          *)
HexDecode(str, dataLen) ==
  LET pairs == {Len(str) \div 2, dataLen}
      ends == {n \in 1..Min(pairs) : ~IsHex(str[2 * n - 1])}
      count == Min({n - 1 : n \in ends} \cup pairs)
  IN  [n \in 1..count |-> IF IsHex(str[2 * n]) THEN str[2 * n - 1] * HEX + str[2 * n]
                                               ELSE str[2 * n - 1]]
(* u256_hex_encode                                                         *)
HexEncode(data) == [i \in 1..(2 * Len(data)) |->
  LET b == data[(i + 1) \div 2] IN IF IsOdd(i) THEN b \div HEX ELSE b % HEX]

WIF_LENGTHS == {HASH + 1, HASH + 2}
IsMini(str) == Len(str) \in MINI_LENGTHS /\ str[1] = CHAR_S

ValidAs(data, str) ==
  LET notHex == SelectInSeq(str, LAMBDA c : ~IsHex(c))
  IN  CASE Len(data) \in WIF_LENGTHS -> data[1] = PRIVKEY
        [] Len(data) \notin WIF_LENGTHS /\ IsMini(str) ->
             Sha256(Append(str, QUESTION_MARK))[1] = 0
        [] OTHER -> (IF notHex = 0 THEN Len(str) ELSE notHex - 1) = 2 * HASH
BitWPrivKeyIsValid(str) == ValidAs(BitWBase58CheckDecode(str, HASH + 2), str)

(* What the text is read as: base58 with a checksum, base58 without one,   *)
(* or hexadecimal, whichever first has the length of a key.                *)
UncheckedOr(checked, str) ==
  IF Len(checked) \in {0, HASH - CHECK} THEN BitWBase58Decode(str, HASH + 2) ELSE checked
HexUnless(data, str) ==
  IF Len(data) \in HASH..(HASH + 2) THEN data ELSE HexDecode(str, HASH + 2)
KeyData(str) == HexUnless(UncheckedOr(BitWBase58CheckDecode(str, HASH + 2), str), str)

(* A text that is none leaves the key as it was.                           *)
KeyRead(key) == [ok |-> SeckeyVerify(key.secret), key |-> key]
KeyFromData(key, data) ==
  CASE Len(data) \in WIF_LENGTHS /\ data[1] = PRIVKEY ->
         KeyRead(BitWKeySetSecret(SubSeq(data, 2, HASH + 1), Len(data) = HASH + 2))
    [] Len(data) = HASH -> KeyRead(BitWKeySetSecret(data, FALSE))
    [] OTHER -> [ok |-> FALSE, key |-> key]
BitWKeySetPrivKey(key, str) ==
  CASE IsMini(str) /\ BitWPrivKeyIsValid(str) -> KeyRead(BitWKeySetSecret(Sha256(str), FALSE))
    [] ~IsMini(str) -> KeyFromData(key, KeyData(str))
    [] OTHER -> [ok |-> FALSE, key |-> key]

BitWKeyPrivKey(key) ==
  IF SeckeyVerify(key.secret)
  THEN BitWBase58CheckEncode(<<PRIVKEY>> \o key.secret
                               \o (IF key.compressed THEN <<1>> ELSE <<>>))
  ELSE <<>>

(***************************************************************************)
(* Public keys and addresses                                               *)
(***************************************************************************)
Padded(pubKey) == pubKey \o Zeros(UNCOMPRESSED_LEN - Len(pubKey))

BitWKeySetPubKey(pubKey) ==
  [ok |-> PubkeyParse(pubKey) # <<>>,
   key |-> [BitWKeyClean EXCEPT !.pubKey = Padded(pubKey),
                                !.compressed = Len(pubKey) <= COMPRESSED_LEN]]

(* The public key, taken from the key's buffer unless the bytes of its     *)
(* size are zero there; it is computed and kept then.                      *)
KeepPubKey(key, pubKey) ==
  [pubKey |-> pubKey,
   key |-> IF pubKey = <<>> THEN key
           ELSE [key EXCEPT !.pubKey = pubKey \o SubSeq(@, Len(pubKey) + 1, Len(@))]]
BitWKeyPubKey(key) ==
  LET size == IF key.compressed THEN COMPRESSED_LEN ELSE UNCOMPRESSED_LEN
      kept == SubSeq(key.pubKey, 1, size)
  IN  KeepPubKey(key, IF kept = Zeros(size)
                      THEN Serialized(PubkeyCreate(key.secret), key.compressed)
                      ELSE kept)

HashOf(pubKey) ==
  IF pubKey # <<>> /\ PubkeyParse(pubKey) # <<>> THEN Hash160(pubKey)
  ELSE Zeros(HASH160)
BitWKeyHash160(key) == HashOf(BitWKeyPubKey(key).pubKey)

(* The address after the call for the hash has filled the buffer.          *)
AddressOf(hash, buffer, coinType) ==
  LET first == SubSeq(buffer, 1, COMPRESSED_LEN)
      version == IF coinType = QTUM THEN QTUM_ADDRESS ELSE PUBKEY_ADDRESS
  IN  CASE hash = Zeros(HASH160) -> <<>>
        [] hash # Zeros(HASH160) /\ coinType = EOS ->
             BitWBase58Encode(first \o SubSeq(Rmd160(first), 1, EOS_CHECK))
        [] OTHER -> BitWBase58CheckEncode(<<version>> \o hash)
AddressFrom(kept, coinType) == AddressOf(HashOf(kept.pubKey), kept.key.pubKey, coinType)
BitWKeyAddressByCoinType(key, coinType) == AddressFrom(BitWKeyPubKey(key), coinType)

(***************************************************************************)
(* Signatures.  The header of a compact one is a byte of its own range; of *)
(* a key without a secret only the length of one can be asked, which is 0. *)
(***************************************************************************)
DerOrNone(s) == IF s = <<>> THEN <<>> ELSE DerSerialize(s[1])
BitWKeySign(key, md) == DerOrNone(EcdsaSign(md, key.secret))

VerifiedBy(pk, s, md) == pk # <<>> /\ s # <<>> /\ EcdsaVerify(s[1], md, pk[1])
ParsedIfAny(pubKey) == IF pubKey = <<>> THEN <<>> ELSE PubkeyParse(pubKey)
BitWKeyVerify(key, md, sig) ==
  VerifiedBy(ParsedIfAny(BitWKeyPubKey(key).pubKey), DerParse(sig), md)

CompactOrNone(s, compressed) ==
  IF s = <<>> THEN <<>>
  ELSE <<27 + s[1].recid + (IF compressed THEN 4 ELSE 0)>> \o CompactSerialize(s[1])
BitWKeyCompactSign(key, md) ==
  IF key.secret = Zeros(HASH) THEN <<>>
  ELSE CompactOrNone(SignRecoverable(md, key.secret), key.compressed)

(* The key recovered from a signature, or the key as it was.               *)
KeyOr(key, pubKey) ==
  IF pubKey = <<>> THEN [ok |-> FALSE, key |-> key] ELSE BitWKeySetPubKey(pubKey)
RecoveredFrom(s, md) == IF s = <<>> THEN <<>> ELSE EcdsaRecover(s[1], md)
BitWKeyRecoverPubKey(key, md, sig) ==
  KeyOr(key, Serialized(RecoveredFrom(CompactParse(Tail(sig), (sig[1] - 27) % 4), md),
                        sig[1] - 27 >= 4))
=============================================================================
