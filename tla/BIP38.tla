------------------------------- MODULE BIP38 -------------------------------
(***************************************************************************)
(* BitWBIP38Key.c: private keys encrypted with a passphrase.  A text holds *)
(* a prefix, flags, a part of the hash of the key's address and either the *)
(* encrypted secret or, for keys made by multiplication, an entropy and    *)
(* the encrypted factor of another party.  The lengths keep the code's     *)
(* proportions: a word, its uint64_t, is a quarter of a hash.  The flags   *)
(* keep their eight bits, in FLAG_LEN bytes.  AES256 is a permutation of   *)
(* double words under a key, with its inverse.                             *)
(***************************************************************************)
EXTENDS BitWKey, Bitwise

CONSTANTS
  Scrypt(_, _, _),                     \* of a password and a salt: a length
  AesEncrypt(_, _), AesDecrypt(_, _),  \* _BitWAES256ECBEncrypt, ...Decrypt
  FLAG_LEN,
  ADDRESS_HASH,                        \* the bytes of the address's hash: 4
  NOEC_PREFIX, EC_PREFIX

BIP38_NOEC_FLAG == 192
BIP38_COMPRESSED_FLAG == 32
BIP38_LOTSEQUENCE_FLAG == 4
BIP38_INVALID_FLAG == 27

WORD == HASH \div 4
BIP38_LEN == 1 + FLAG_LEN + ADDRESS_HASH + HASH
Has(flag, mask) == (flag & mask) # 0
XorBytes(a, b) == [i \in DOMAIN a |-> a[i] ^^ b[i]]

(* The n-th words of a byte string, from the first to the last of them.    *)
Words(s, from, to) == SubSeq(s, (from - 1) * WORD + 1, to * WORD)

PrefixOf(data) == data[1]
FlagOf(data) == ValueBE(At(data, 1, FLAG_LEN))
AddressHashOf(data) == At(data, 1 + FLAG_LEN, ADDRESS_HASH)
BodyOf(data) == At(data, 1 + FLAG_LEN + ADDRESS_HASH, HASH)

IsBIP38Data(data) ==
  LET flag == FlagOf(data)
  IN  /\ Len(data) = BIP38_LEN
      /\ ~Has(flag, BIP38_INVALID_FLAG)
      /\ \/ /\ PrefixOf(data) = NOEC_PREFIX
            /\ (flag & BIP38_NOEC_FLAG) = BIP38_NOEC_FLAG
            /\ ~Has(flag, BIP38_LOTSEQUENCE_FLAG)
         \/ PrefixOf(data) = EC_PREFIX /\ ~Has(flag, BIP38_NOEC_FLAG)
BitWBIP38KeyIsValid(str) == IsBIP38Data(BitWBase58CheckDecode(str, BIP38_LEN))

(* Of an entropy that holds a lot and a sequence number only the first     *)
(* half is the salt, and the whole enters the factor.                      *)
FirstHalf(entropy) == <<ValueBE(entropy) \div HEX^Len(entropy)>>
DerivePassfactor(flag, entropy, passphrase) ==
  LET lot == Has(flag, BIP38_LOTSEQUENCE_FLAG)
      prefactor == Scrypt(passphrase, IF lot THEN FirstHalf(entropy) ELSE entropy, HASH)
  IN  IF lot THEN Sha256d(prefactor \o entropy) ELSE prefactor

DeriveKey(passpoint, addresshash, entropy) ==
  Scrypt(passpoint, addresshash \o entropy, 2 * HASH)

AddressHash(key) ==
  SubSeq(Sha256d(BitWKeyAddressByCoinType(key, BTC)), 1, ADDRESS_HASH)

(* The secret of a key that was encrypted as it is.                        *)
SecretOf(data, passphrase) ==
  LET derived == Scrypt(passphrase, AddressHashOf(data), 2 * HASH)
      Half(i) == AesDecrypt(Words(derived, 5, 8), Words(BodyOf(data), 2 * i - 1, 2 * i))
  IN  XorBytes(Half(1) \o Half(2), Words(derived, 1, 4))

(* The secret of a key made by multiplication.  The second double word is  *)
(* decrypted first: it holds the other half of the first one.              *)
ProductSecret(passfactor, first, second, derived) ==
  BitWSecp256k1ModMul(passfactor,
    Sha256d(XorBytes(first, Words(derived, 1, 2)) \o Words(second, 2, 2))).key
BehindSecond(body, passfactor, second, derived) ==
  ProductSecret(passfactor,
                AesDecrypt(Words(derived, 5, 8), Words(body, 2, 2) \o Words(second, 1, 1)),
                second, derived)
WithDerived(body, passfactor, derived) ==
  BehindSecond(body, passfactor,
               XorBytes(AesDecrypt(Words(derived, 5, 8), Words(body, 3, 4)),
                        Words(derived, 3, 4)),
               derived)
Passpoint(point, junk) == IF point = <<>> THEN junk ELSE point
WithPassfactor(data, entropy, passfactor, junk) ==
  WithDerived(BodyOf(data), passfactor,
    DeriveKey(Passpoint(BitWSecp256k1PointGen(passfactor), junk),
              AddressHashOf(data), entropy))
MultipliedSecretOf(data, passphrase, junk) ==
  LET entropy == Words(BodyOf(data), 1, 1)
  IN  WithPassfactor(data, entropy, DerivePassfactor(FlagOf(data), entropy, passphrase), junk)

(* An unknown prefix leaves the secret as the stack held it, which is what *)
(* junk holds after its first byte.  Whether the secret is one is not      *)
(* asked: the hash of the address decides.                                 *)
DecryptedSecret(data, passphrase, junk) ==
  CASE PrefixOf(data) = NOEC_PREFIX -> SecretOf(data, passphrase)
    [] PrefixOf(data) = EC_PREFIX -> MultipliedSecretOf(data, passphrase, junk)
    [] OTHER -> Tail(junk)
CheckedKey(kept, address, hash) ==
  [ok |-> address # <<>> /\ SubSeq(Sha256d(address), 1, ADDRESS_HASH) = hash,
   key |-> kept.key]
KeyWithAddress(kept, hash) == CheckedKey(kept, AddressFrom(kept, BTC), hash)
KeyFromBIP38(key, data, passphrase, junk) ==
  IF Len(data) # BIP38_LEN THEN [ok |-> FALSE, key |-> key]
  ELSE KeyWithAddress(
         BitWKeyPubKey(BitWKeySetSecret(DecryptedSecret(data, passphrase, junk),
                                        Has(FlagOf(data), BIP38_COMPRESSED_FLAG))),
         AddressHashOf(data))
BitWKeySetBIP38Key(key, str, passphrase, junk) ==
  KeyFromBIP38(key, BitWBase58CheckDecode(str, BIP38_LEN), passphrase, junk)

EncryptedBy(key, salt, derived) ==
  LET masked == XorBytes(key.secret, Words(derived, 1, 4))
      Half(i) == AesEncrypt(Words(derived, 5, 8), Words(masked, 2 * i - 1, 2 * i))
      flag == BIP38_NOEC_FLAG + (IF key.compressed THEN BIP38_COMPRESSED_FLAG ELSE 0)
  IN  BitWBase58CheckEncode(<<NOEC_PREFIX>> \o BE(flag, FLAG_LEN) \o salt \o Half(1) \o Half(2))
EncryptedWithSalt(key, salt, passphrase) ==
  EncryptedBy(key, salt, Scrypt(passphrase, salt, 2 * HASH))

(* Mutated form: the hash is of the address of the compressed key.         *)
EncryptAsCompressed(key, passphrase) ==
  EncryptedWithSalt(key, AddressHash([key EXCEPT !.compressed = TRUE]), passphrase)

BitWKeyBIP38Key(key, passphrase) == EncryptedWithSalt(key, AddressHash(key), passphrase)
=============================================================================
