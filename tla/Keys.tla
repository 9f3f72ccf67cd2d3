-------------------------------- MODULE Keys --------------------------------
(***************************************************************************)
(* The keys of the app, from a recovery phrase to addresses, texts of      *)
(* private keys and signatures: the functions of jni/transition/wallet.c   *)
(* for MnemonicCode and BitWallet that handle keys, and JNIKey.c, over     *)
(* BitWKey, BIP32, BIP38 and Mnemonic.  Only JNIKey.c keeps anything, its  *)
(* _key; the other variables are what the callers hold of the results.     *)
(* A text of a private key comes with the key it was made from.            *)
(***************************************************************************)
EXTENDS BIP32, BIP38, Mnemonic

CONSTANTS
  ENTROPIES,     \* what a new wallet may draw
  TYPED,         \* words a user may type in the place of another
  COINS, CHANGES, INDEXES,
  PASSPHRASES,
  SEEDBS, ENTROPY_WORDS,  \* what another party draws to make a key
  MINI_KEYS,              \* mini private keys from elsewhere
  DIGESTS,                \* what is signed
  JUNK                    \* what a stack may hold: COMPRESSED_LEN bytes

VARIABLES
  phrase,     \* the words a caller holds, and whether they were accepted
  seed,       \* of the accepted phrase
  mpk,        \* the master public key of a coin
  issued,     \* an address given out, with its place in the sequence
  text,       \* a text of a private key, with the key it stands for
  owner,      \* the address or the public key that text was imported to
  key,        \* _key, whether it was set, and the text it was set from
  proof       \* a signature made with _key

vars == <<phrase, seed, mpk, issued, text, owner, key, proof>>

NONE == <<>>
(* A BitWKey of a function's own, before anything is written to it.        *)
Unset(junk) == [secret |-> Tail(junk), compressed |-> IsOdd(junk[1]), pubKey |-> Padded(junk)]

(* A text and what it was made of; lock is the passphrase that opens it.   *)
Text(form, str, of) == [form |-> form, str |-> str, lock |-> NONE,
                        secret |-> of.secret, compressed |-> of.compressed]

Init ==
  /\ phrase = NONE /\ seed = NONE /\ mpk = NONE /\ issued = NONE
  /\ text = NONE /\ owner = NONE /\ proof = NONE
  /\ key = [key |-> BitWKeyClean, ok |-> FALSE, of |-> NONE]

NewText(t) ==
  /\ text' = t
  /\ owner' = NONE /\ proof' = NONE
  /\ key' = [key EXCEPT !.ok = FALSE, !.of = NONE]

(***************************************************************************)
(* Phrases and seeds                                                       *)
(***************************************************************************)
(* Of the accepted phrases, those made here are followed further.          *)
IsMade == phrase # NONE /\ phrase.of # NONE

EncodeSeed(entropy) ==
  /\ phrase = NONE
  /\ phrase' = [words |-> BitWBIP39Encode(entropy), accepted |-> TRUE, of |-> entropy]
  /\ UNCHANGED <<seed, mpk, issued, text, owner, key, proof>>

(* The user types the phrase, with one word perhaps wrong or the last few  *)
(* missing.                                                                *)
TypePhrase(i, w) ==
  /\ IsMade /\ seed = NONE /\ mpk = NONE
  /\ i \in DOMAIN phrase.words
  /\ \E words \in {[phrase.words EXCEPT ![i] = w], SubSeq(phrase.words, 1, i)} :
       phrase' = [words |-> words, accepted |-> FALSE, of |-> NONE]
  /\ UNCHANGED <<seed, mpk, issued, text, owner, key, proof>>

ValidateRecoveryPhrase ==
  /\ phrase # NONE /\ ~phrase.accepted
  /\ phrase' = [phrase EXCEPT !.accepted = BitWBIP39PhraseIsValid(phrase.words)]
  /\ phrase'.accepted
  /\ UNCHANGED <<seed, mpk, issued, text, owner, key, proof>>

GetSeedFromPhrase ==
  /\ IsMade /\ seed = NONE
  /\ seed' = BitWBIP39DeriveKey(phrase.words)
  /\ UNCHANGED <<phrase, mpk, issued, text, owner, key, proof>>

GetMasterPubKey(coinType, junk) ==
  /\ IsMade /\ mpk = NONE /\ text = NONE
  /\ mpk' = [coinType |-> coinType,
             key |-> BitWBIP44MasterPubKey(BitWBIP39DeriveKey(phrase.words), coinType, junk)]
  /\ UNCHANGED <<phrase, seed, issued, text, owner, key, proof>>

(***************************************************************************)
(* Addresses and private keys of the sequence                              *)
(***************************************************************************)
GetAddress(change, index) ==
  /\ mpk # NONE /\ issued = NONE
  /\ issued' =
       [coinType |-> mpk.coinType, change |-> change, index |-> index,
        str |-> BitWKeyAddressByCoinType(
                  BitWKeySetPubKey(BitWBIP44PubKey(mpk.key, change, index)).key, mpk.coinType)]
  /\ UNCHANGED <<phrase, seed, mpk, text, owner, key, proof>>

(* The private key of the address given out: in hexadecimal for ETH, as an *)
(* uncompressed key for EOS.                                               *)
TextInForm(k, coinType) ==
  IF coinType = ETH THEN Text("hex", HexEncode(k.secret), k)
                    ELSE Text("wif", BitWKeyPrivKey(k), k)
GetPrivKeyByCoinType(junk) ==
  /\ seed # NONE /\ issued # NONE /\ text = NONE
  /\ NewText(TextInForm(
       [BitWBIP44PrivKey(seed, issued.coinType, issued.change, issued.index, junk)
          EXCEPT !.compressed = issued.coinType \notin {ETH, EOS}],
       issued.coinType))
  /\ UNCHANGED <<phrase, seed, mpk, issued>>

AuthText(k) == Text("auth", BitWKeyPrivKey(k), k)
GetAuthPrivKeyForAPI(junk) ==
  /\ seed # NONE /\ mpk = NONE /\ text = NONE
  /\ NewText(AuthText(BitWBIP32APIAuthKey(seed, junk)))
  /\ UNCHANGED <<phrase, seed, mpk, issued>>

(***************************************************************************)
(* Keys made elsewhere.  A mini key hashes to its secret.  The maker of a  *)
(* multiplied key knows the passphrase's point, not its factor.            *)
(***************************************************************************)
ReceiveMini(str) ==
  /\ phrase = NONE /\ text = NONE
  /\ BitWPrivKeyIsValid(str)
  /\ NewText(Text("mini", str, BitWKeySetSecret(Sha256(str), FALSE)))
  /\ UNCHANGED <<phrase, seed, mpk, issued>>

MultipliedText(flag, entropy, seedb, salt, derived) ==
  LET first == AesEncrypt(Words(derived, 5, 8),
                          XorBytes(Words(seedb, 1, 2), Words(derived, 1, 2)))
      second == AesEncrypt(Words(derived, 5, 8),
                           XorBytes(Words(first, 2, 2) \o Words(seedb, 3, 3),
                                    Words(derived, 3, 4)))
  IN  BitWBase58CheckEncode(<<EC_PREFIX>> \o BE(flag, FLAG_LEN) \o salt \o entropy
                              \o Words(first, 1, 1) \o second)
MultipliedPubKey(flag, passpoint, seedb) ==
  PubkeySerialize(PubkeyParse(BitWSecp256k1PointMul(passpoint, Sha256d(seedb)))[1],
                  Has(flag, BIP38_COMPRESSED_FLAG))
MultipliedWithSalt(flag, entropy, passpoint, seedb, salt) ==
  MultipliedText(flag, entropy, seedb, salt, DeriveKey(passpoint, salt, entropy))
MultipliedKey(flag, entropy, passpoint, seedb) ==
  MultipliedWithSalt(flag, entropy, passpoint, seedb,
    AddressHash(BitWKeySetPubKey(MultipliedPubKey(flag, passpoint, seedb)).key))

ReceiveMultiplied(flag, entropy, passphrase, seedb) ==
  LET passfactor == DerivePassfactor(flag, entropy, passphrase)
      secret == BE((ValueBE(passfactor) * ValueBE(Sha256d(seedb))) % N, HASH)
  IN  /\ phrase = NONE /\ text = NONE
      /\ IsSecret(passfactor) /\ IsSecret(Sha256d(seedb))
      /\ NewText([Text("wif", MultipliedKey(flag, entropy, BitWSecp256k1PointGen(passfactor), seedb),
                       BitWKeySetSecret(secret, Has(flag, BIP38_COMPRESSED_FLAG)))
                    EXCEPT !.lock = passphrase])
      /\ UNCHANGED <<phrase, seed, mpk, issued>>

(***************************************************************************)
(* From one text to another                                                *)
(***************************************************************************)
(* A text is converted before it is put to use.                            *)
IsPlain == text # NONE /\ text.lock = NONE
IsEncrypted == text # NONE /\ text.lock # NONE
Unused == owner = NONE /\ proof = NONE

UncompressPrivKey(junk) ==
  /\ IsPlain /\ Unused /\ text.form = "wif" /\ text.compressed
  /\ NewText(
       LET k == [BitWKeySetPrivKey(Unset(junk), text.str).key EXCEPT !.compressed = FALSE]
       IN  [text EXCEPT !.str = BitWKeyPrivKey(k), !.compressed = FALSE])
  /\ UNCHANGED <<phrase, seed, mpk, issued>>

EncryptKey(passphrase, junk) ==
  /\ IsPlain /\ Unused /\ text.form # "hex"
  /\ NewText([text EXCEPT !.lock = passphrase,
        !.str = BitWKeyBIP38Key(BitWKeySetPrivKey(Unset(junk), text.str).key, passphrase)])
  /\ UNCHANGED <<phrase, seed, mpk, issued>>

DecryptedText(new) ==
  [text EXCEPT !.form = "wif", !.lock = NONE,
               !.str = IF new.ok THEN BitWKeyPrivKey(new.key) ELSE <<>>]
DecryptBip38Key(junk) ==
  /\ IsEncrypted
  /\ NewText(DecryptedText(BitWKeySetBIP38Key(Unset(junk), text.str, text.lock, junk)))
  /\ UNCHANGED <<phrase, seed, mpk, issued>>

(***************************************************************************)
(* Importing a text                                                        *)
(***************************************************************************)
GetAddressFromPrivKey(junk) ==
  /\ IsPlain /\ text.form # "auth" /\ owner = NONE
  /\ owner' = BitWKeyAddressByCoinType(BitWKeySetPrivKey(Unset(junk), text.str).key, BTC)
  /\ UNCHANGED <<phrase, seed, mpk, issued, text, key, proof>>

GetAuthPublicKeyForAPI(junk) ==
  /\ IsPlain /\ text.form = "auth" /\ owner = NONE
  /\ owner' = BitWBase58Encode(
                BitWKeyPubKey(BitWKeySetPrivKey(Unset(junk), text.str).key).pubKey)
  /\ UNCHANGED <<phrase, seed, mpk, issued, text, key, proof>>

(* JNIKey.c.  A text is taken to end where it ends: the Java byte array    *)
(* has no terminator, and what the C string functions read behind it is    *)
(* not modelled.                                                           *)
SetPrivKey ==
  /\ IsPlain /\ key.of = NONE
  /\ key' = LET new == BitWKeySetPrivKey(key.key, text.str)
            IN  [key |-> new.key, ok |-> new.ok, of |-> text]
  /\ proof' = NONE
  /\ UNCHANGED <<phrase, seed, mpk, issued, text, owner>>

(* hexToBytes of BitWKey.java gives the bytes; the key is compressed, and  *)
(* that it is a key is not asked.                                          *)
SetSecret ==
  /\ IsPlain /\ text.form = "hex" /\ key.of = NONE
  /\ key' = LET new == BitWKeySetSecret(HexDecode(text.str, HASH), TRUE)
            IN  [key |-> new, ok |-> SeckeyVerify(new.secret),
                 of |-> [text EXCEPT !.form = "secret", !.compressed = TRUE]]
  /\ proof' = NONE
  /\ UNCHANGED <<phrase, seed, mpk, issued, text, owner>>

(* A key without a secret fails the assertion on the signature's length,   *)
(* which ends the process: there is no step then.                          *)
CompactSign(md) ==
  /\ key.of # NONE /\ proof = NONE
  /\ key.key.secret # Zeros(HASH)
  /\ proof' = [md |-> md, sig |-> BitWKeyCompactSign(key.key, md)]
  /\ UNCHANGED <<phrase, seed, mpk, issued, text, owner, key>>

(* address() keeps the public key it computes in _key.                     *)
Address ==
  /\ key.of # NONE /\ key.ok /\ key.key.pubKey = NoPubKey
  /\ key' = [key EXCEPT !.key = BitWKeyPubKey(@).key]
  /\ UNCHANGED <<phrase, seed, mpk, issued, text, owner, proof>>

Next ==
  \/ \E entropy \in ENTROPIES : EncodeSeed(entropy)
  \/ \E i \in 1..MAX_WORDS, w \in TYPED : TypePhrase(i, w)
  \/ ValidateRecoveryPhrase
  \/ GetSeedFromPhrase
  \/ \E coinType \in COINS, junk \in JUNK : GetMasterPubKey(coinType, junk)
  \/ \E change \in CHANGES, index \in INDEXES : GetAddress(change, index)
  \/ \E junk \in JUNK : GetPrivKeyByCoinType(junk) \/ GetAuthPrivKeyForAPI(junk)
  \/ \E str \in MINI_KEYS : ReceiveMini(str)
  \/ \E flag \in {0, BIP38_COMPRESSED_FLAG, BIP38_LOTSEQUENCE_FLAG},
        entropy \in ENTROPY_WORDS, passphrase \in PASSPHRASES, seedb \in SEEDBS :
          ReceiveMultiplied(flag, entropy, passphrase, seedb)
  \/ \E junk \in JUNK : \/ UncompressPrivKey(junk) \/ DecryptBip38Key(junk)
                        \/ GetAddressFromPrivKey(junk) \/ GetAuthPublicKeyForAPI(junk)
  \/ \E passphrase \in PASSPHRASES, junk \in JUNK : EncryptKey(passphrase, junk)
  \/ SetPrivKey
  \/ SetSecret
  \/ \E md \in DIGESTS : CompactSign(md)
  \/ Address

Spec == Init /\ [][Next]_vars

(***************************************************************************)
(* Properties                                                              *)
(***************************************************************************)
(* Every step of a derivation gives a key, which fails once in 2^127.  The *)
(* first one that does not is the same whatever the stack holds.           *)
Derivable(path) == \A n \in 0..Len(path) :
  IsSecret(Path(seed, SubSeq(path, 1, n), Zeros(COMPRESSED_LEN)).key)

(* What the public derivation gives, the private one gives: a caller who   *)
(* imports the exported private key of an address gets that address back,  *)
(* whatever texts, encrypted or not, the key went through; the wallet's    *)
(* list of signing keys owns the addresses of the public sequence, for     *)
(* every coin and in both schemes; and so does the key for the API.        *)
(* (_CKDpriv, _CKDpub)                                                     *)
DerivedKeysAgree ==
  /\ owner # NONE /\ issued # NONE /\ issued.coinType = BTC /\ text.compressed =>
       \/ owner = issued.str
       \/ ~Derivable(AccountPath(BTC) \o <<issued.change, issued.index>>)
  /\ issued # NONE /\ seed # NONE /\ text = NONE => \A junk \in JUNK :
       \/ BitWKeyAddressByCoinType(
            BitWBIP44PrivKeyList(issued.coinType, seed, issued.change, <<issued.index>>, junk)[1],
            issued.coinType) = issued.str
       \/ ~Derivable(AccountPath(issued.coinType) \o <<issued.change, issued.index>>)
  /\ seed # NONE /\ mpk = NONE /\ text = NONE =>
       \A change \in CHANGES, index \in INDEXES, junk \in JUNK :
         \/ BitWBIP32PubKey(BitWBIP32MasterPubKey(seed, junk), change, index)
              = BitWKeyPubKey(BitWBIP32PrivKeyList(seed, change, <<index>>, junk)[1]).pubKey
         \/ ~Derivable(<<Hard(0), change, index>>)
  /\ owner # NONE /\ text.form = "auth" => \A junk \in JUNK :
       \/ owner = BitWBase58Encode(
            CKDpub(NodeOf(BitWBIP32PubKeyPath(seed, <<Hard(1)>>, junk)), 0).key)
       \/ ~Derivable(<<Hard(1), 0>>)

(* What AddressHelper.java takes for a private key.                        *)
IsKeyText(str) == BitWBIP38KeyIsValid(str) \/ BitWPrivKeyIsValid(str)

(* A text of a private key that the app made, encrypted, decrypted or was  *)
(* given is recognised as one and sets the key it stands for: the same     *)
(* secret, and a public key written in the same form.  Only a hexadecimal  *)
(* text may fail, see HexKept.                                             *)
KeyKept ==
  /\ text # NONE /\ text.form # "hex" /\ IsSecret(text.secret) => IsKeyText(text.str)
  /\ key.of # NONE /\ key.of.form # "hex" /\ IsSecret(key.of.secret) =>
       /\ key.ok
       /\ key.key.secret = key.of.secret /\ key.key.compressed = key.of.compressed

(* "privKey must be wallet import format (WIF), mini private key format,   *)
(* or hex string" (BitWKey.c:173): a hexadecimal private key, as           *)
(* getPrivKeyByCoinType writes it, sets the key it stands for.             *)
HexKept ==
  key.of # NONE /\ key.of.form = "hex" /\ IsSecret(key.of.secret) =>
    key.ok /\ key.key.secret = key.of.secret

IsOfSigner(recovered) ==
  /\ recovered.ok
  /\ BitWKeyAddressByCoinType(recovered.key, BTC) = BitWKeyAddressByCoinType(key.key, BTC)
  /\ BitWKeyVerify(recovered.key, proof.md, BitWKeySign(key.key, proof.md))
(* From a compact signature the signer's public key can be recovered, in   *)
(* the form that gives the signer's address, and the signature of the same *)
(* digest for transactions verifies.  A secret that is none signs nothing. *)
SignaturesHold ==
  proof # NONE =>
    IF ~IsSecret(key.key.secret) THEN proof.sig = <<>>
    ELSE IsOfSigner(BitWKeyRecoverPubKey(BitWKeyClean, proof.md, proof.sig))

(* A phrase is accepted only if it is the phrase of the entropy it decodes *)
(* to, and a phrase made for an entropy decodes to that entropy.           *)
PhraseIsEncoding ==
  phrase # NONE /\ phrase.accepted =>
    LET data == BitWBIP39Decode(phrase.words)
    IN  /\ BitWBIP39Encode(data) = phrase.words
        /\ phrase.of # NONE => data = phrase.of
=============================================================================
