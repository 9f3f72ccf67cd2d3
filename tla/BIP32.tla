------------------------------- MODULE BIP32 -------------------------------
(***************************************************************************)
(* BitWBIP32Sequence.c: chains of keys derived from a seed, on the secrets *)
(* or, for steps that are not hardened, on the public keys alone.  A node  *)
(* is a key with its chain code.                                           *)
(***************************************************************************)
EXTENDS BitWKey

CONSTANTS
  HmacSha512(_, _),  \* of a key and a message: 2 * HASH bytes
  SEED_KEY,          \* "Bitcoin seed"
  FINGERPRINT        \* the bytes of a fingerprint: 4

BIP32_HARD == BYTE^W32 \div 2
Hard(i) == i + BIP32_HARD

Left(I) == SubSeq(I, 1, HASH)
Right(I) == SubSeq(I, HASH + 1, 2 * HASH)

(* A tweak that fails leaves the key as it is although the chain code has  *)
(* changed.                                                                *)
PublicStep(node, I, K) ==
  [key |-> IF K = <<>> THEN node.key ELSE K, chain |-> Right(I)]
PublicChild(node, I) == PublicStep(node, I, BitWSecp256k1PointAdd(node.key, Left(I)))
PublicHmac(node, i) == HmacSha512(node.chain, node.key \o BE(i, W32))

(* Mutated form: the parent's chain code is kept.                          *)
CKDWithParentChain(node, i) ==
  [PublicChild(node, PublicHmac(node, i)) EXCEPT !.chain = node.chain]

(* A step of a public node; a hardened one does nothing.                   *)
CKDpub(node, i) ==
  IF i >= BIP32_HARD THEN node ELSE PublicChild(node, PublicHmac(node, i))

(* A step of a private node.  The buffer holds what the stack held, junk,  *)
(* when the secret has no point, and a tweak that fails leaves zeros.      *)
DataOf(node, i, point, junk) ==
  CASE i >= BIP32_HARD -> <<0>> \o node.key
    [] i < BIP32_HARD /\ point # <<>> -> point
    [] OTHER -> junk
PrivateChild(node, I) ==
  [key |-> BitWSecp256k1ModAdd(node.key, Left(I)).key, chain |-> Right(I)]
CKDpriv(node, i, junk) ==
  PrivateChild(node,
    HmacSha512(node.chain,
               DataOf(node, i, BitWSecp256k1PointGen(node.key), junk) \o BE(i, W32)))

MasterNode(seed) ==
  LET I == HmacSha512(SEED_KEY, seed) IN [key |-> Left(I), chain |-> Right(I)]

Path(seed, path, junk) ==
  LET node[n \in 0..Len(path)] ==
        IF n = 0 THEN MasterNode(seed) ELSE CKDpriv(node[n - 1], path[n], junk)
  IN  node[Len(path)]

BitWBIP32PrivKeyPath(seed, path, junk) ==
  BitWKeySetSecret(Path(seed, path, junk).key, TRUE)

(* The key buffer of a master public key is zeros when there is no point.  *)
MasterPubKey(master, chain, pubKey) ==
  [fingerPrint |-> SubSeq(BitWKeyHash160(master), 1, FINGERPRINT),
   chainCode |-> chain,
   pubKey |-> IF pubKey = <<>> THEN Zeros(COMPRESSED_LEN) ELSE pubKey]
MasterPubKeyAt(seed, node) ==
  MasterPubKey(BitWKeySetSecret(MasterNode(seed).key, TRUE), node.chain,
               BitWKeyPubKey(BitWKeySetSecret(node.key, TRUE)).pubKey)
BitWBIP32PubKeyPath(seed, path, junk) == MasterPubKeyAt(seed, Path(seed, path, junk))

NodeOf(mpk) == [key |-> mpk.pubKey, chain |-> mpk.chainCode]
BitWBIP32PubKey(mpk, chain, index) == CKDpub(CKDpub(NodeOf(mpk), chain), index).key

BitWBIP44PubKey(mpk, chain, index) == BitWBIP32PubKey(mpk, chain, index)

(***************************************************************************)
(* The paths in use                                                        *)
(***************************************************************************)
AccountPath(coinType) == <<Hard(44), Hard(coinType), Hard(0)>>

BitWBIP32MasterPubKey(seed, junk) == BitWBIP32PubKeyPath(seed, <<Hard(0)>>, junk)
BitWBIP44MasterPubKey(seed, coinType, junk) ==
  BitWBIP32PubKeyPath(seed, AccountPath(coinType), junk)
BitWBIP44PrivKey(seed, coinType, change, index, junk) ==
  BitWBIP32PrivKeyPath(seed, AccountPath(coinType) \o <<change, index>>, junk)
BitWBIP32APIAuthKey(seed, junk) == BitWBIP32PrivKeyPath(seed, <<Hard(1), 0>>, junk)

(* The keys of one chain, from the node they have in common.               *)
KeysBelow(common, indexes, junk) ==
  [i \in DOMAIN indexes |->
     BitWKeySetSecret(CKDpriv(common, indexes[i], junk).key, TRUE)]
KeyList(account, seed, chain, indexes, junk) ==
  KeysBelow(Path(seed, account \o <<chain>>, junk), indexes, junk)
BitWBIP32PrivKeyList(seed, chain, indexes, junk) ==
  KeyList(<<Hard(0)>>, seed, chain, indexes, junk)
BitWBIP44PrivKeyList(coinType, seed, chain, indexes, junk) ==
  KeyList(AccountPath(coinType), seed, chain, indexes, junk)
=============================================================================
