----------------------------- MODULE Secp256k1 -----------------------------
(***************************************************************************)
(* The interface of libsecp256k1 that BitWKey.c uses (secp256k1.c,         *)
(* eckey_impl.h, ecdsa_impl.h and the recovery module), over the curve of  *)
(* Ecmult.  Scalars and coordinates are written with HASH bytes, which may *)
(* also hold numbers above the order N and above the prime P.  A function  *)
(* that can fail gives a sequence, empty on failure.  An opaque            *)
(* secp256k1_pubkey is its affine point.                                   *)
(***************************************************************************)
EXTENDS Ecmult, Bytes

CONSTANTS
  Hmac(_, _),   \* secp256k1_hmac_sha256 of a key and a message
  HIGH,         \* 0x80: a byte from here on is negative to DER
  LONG_FORM     \* 0x80: a length from here on is not one octet

ASSUME ScalarWidthAssumption == N < BYTE^HASH /\ P < BYTE^HASH

(***************************************************************************)
(* Numbers and bytes                                                       *)
(***************************************************************************)
SetB32(s) == [value |-> ValueBE(s) % N, overflow |-> ValueBE(s) >= N]
GetB32(v) == BE(v, HASH)
IsSecret(s) == ~SetB32(s).overflow /\ SetB32(s).value # 0
SeckeyVerify(seckey) == IsSecret(seckey)

(***************************************************************************)
(* The generator of RFC 6979                                               *)
(***************************************************************************)
RngStep(k, v, retry) == [k |-> k, v |-> Hmac(k, v), retry |-> retry]
RngRekey(rng, more) == RngStep(Hmac(rng.k, rng.v \o more), rng.v, FALSE)
RngInitialize(key) ==
  RngRekey(RngRekey([k |-> Zeros(HASH), v |-> [i \in 1..HASH |-> 1]], <<0>> \o key),
           <<1>> \o key)

(* The output is the new v.                                                *)
RngOutput(rng) == RngStep(rng.k, rng.v, TRUE)
RngGenerate(rng) == RngOutput(IF rng.retry THEN RngRekey(rng, <<0>>) ELSE rng)

(* Outputs are drawn until the number one stands for is acceptable.        *)
RECURSIVE RngFrom(_, _)
RngFrom(rng, acceptable) ==
  IF ValueBE(rng.v) \in acceptable THEN rng ELSE RngFrom(RngGenerate(rng), acceptable)
RngDraw(rng, acceptable) == RngFrom(RngGenerate(rng), acceptable)

(* nonce_function_rfc6979 without extra data, for one counter.             *)
Nonce(md, seckey, counter) ==
  LET rng[i \in 0..(counter + 1)] ==
        IF i = 0 THEN RngInitialize(seckey \o md) ELSE RngGenerate(rng[i - 1])
  IN  rng[counter + 1].v

(* The context, whose blinding value is drawn without a seed.              *)
ContextBy(s) ==
  EcmultGenBlind(GenReset, ValueBE(s.v), ValueBE(RngDraw(s, 1..(N - 1)).v))
Context == ContextBy(RngDraw(RngInitialize(GetB32(GenReset.blind)), 1..(P - 1)))

(***************************************************************************)
(* Public keys                                                             *)
(***************************************************************************)
COMPRESSED_LEN == 1 + HASH
UNCOMPRESSED_LEN == 1 + 2 * HASH

PubkeyParse(input) ==
  LET x == ValueBE(At(input, 1, HASH))  y == ValueBE(At(input, 1 + HASH, HASH))
  IN  CASE Len(input) = COMPRESSED_LEN /\ input[1] \in {2, 3} /\ x < P ->
             GeSetXoVar(x, input[1] = 3)
        [] /\ Len(input) = UNCOMPRESSED_LEN /\ x < P /\ y < P
           /\ input[1] = 4 \/ (input[1] \in {6, 7} /\ IsOdd(y) = (input[1] = 7))
           /\ GeIsValidVar(Ge(x, y)) -> <<Ge(x, y)>>
        [] OTHER -> <<>>

PubkeySerialize(q, compressed) ==
  IF compressed THEN <<IF IsOdd(q.y) THEN 3 ELSE 2>> \o GetB32(q.x)
                ELSE <<4>> \o GetB32(q.x) \o GetB32(q.y)

PubkeyCreate(seckey) ==
  IF IsSecret(seckey) THEN <<GeSetGej(EcmultGen(Context, SetB32(seckey).value))>> ELSE <<>>

Finite(gej) == IF gej.infinity THEN <<>> ELSE <<GeSetGej(gej)>>
PubkeyTweakAdd(q, tweak) ==
  IF SetB32(tweak).overflow THEN <<>>
  ELSE Finite(EcmultOf(GejSetGe(q), 1, SetB32(tweak).value))
PubkeyTweakMul(q, tweak) ==
  IF IsSecret(tweak) THEN Finite(EcmultOf(GejSetGe(q), SetB32(tweak).value, 0)) ELSE <<>>

(***************************************************************************)
(* Private keys.  On failure the key is overwritten with zeros.            *)
(***************************************************************************)
Tweaked(ok, scalar) == [ok |-> ok, key |-> IF ok THEN GetB32(scalar) ELSE Zeros(HASH)]
PrivkeyTweakAdd(seckey, tweak) ==
  LET sum == (SetB32(seckey).value + SetB32(tweak).value) % N
  IN  Tweaked(~SetB32(tweak).overflow /\ sum # 0, sum)
PrivkeyTweakMul(seckey, tweak) ==
  Tweaked(IsSecret(tweak), (SetB32(seckey).value * SetB32(tweak).value) % N)

(***************************************************************************)
(* Signatures                                                              *)
(***************************************************************************)
(* Mutated form: the parity is not turned with s.                          *)
SignatureWithoutFlip(q, s) ==
  IF s = 0 THEN <<>>
  ELSE <<[r |-> q.x % N, s |-> IF ScalarIsHigh(s) THEN ScalarNegate(s) ELSE s,
          recid |-> (IF q.x >= N THEN 2 ELSE 0) + (IF IsOdd(q.y) THEN 1 ELSE 0)]>>

(* recid: bit 1 says that r is x - N, bit 0 that y is odd; the latter is   *)
(* turned with s, which is always the low one of s and -s.                 *)
Signature(q, s) ==
  LET high == ScalarIsHigh(s)
  IN  IF s = 0 THEN <<>>
      ELSE <<[r |-> q.x % N, s |-> IF high THEN ScalarNegate(s) ELSE s,
              recid |-> (IF q.x >= N THEN 2 ELSE 0) + (IF IsOdd(q.y) # high THEN 1 ELSE 0)]>>
SignedAt(q, sec, message, nonce) ==
  Signature(q, (ScalarInverse(nonce) * (((q.x % N) * sec + message) % N)) % N)
SigSign(sec, message, nonce) ==
  SignedAt(GeSetGej(EcmultGen(Context, nonce)), sec, message, nonce)

(* Nonces are tried until one gives a signature.                           *)
SignWithNonce(md, seckey, nonce) ==
  IF IsSecret(nonce)
  THEN SigSign(SetB32(seckey).value, SetB32(md).value, SetB32(nonce).value) ELSE <<>>
RECURSIVE SignFrom(_, _, _), SignedOrNext(_, _, _, _)
SignFrom(md, seckey, count) ==
  SignedOrNext(SignWithNonce(md, seckey, Nonce(md, seckey, count)), md, seckey, count)
SignedOrNext(sig, md, seckey, count) ==
  IF sig # <<>> THEN sig ELSE SignFrom(md, seckey, count + 1)
SignRecoverable(md, seckey) == IF IsSecret(seckey) THEN SignFrom(md, seckey, 0) ELSE <<>>

(* The signature of secp256k1_ecdsa_sign is the same without recid.        *)
WithoutRecid(sigs) == [i \in DOMAIN sigs |-> [r |-> sigs[i].r, s |-> sigs[i].s]]
EcdsaSign(md, seckey) == WithoutRecid(SignRecoverable(md, seckey))

HasX(pr, r) ==
  ~pr.infinity /\ (GejEqXVar(r, pr) \/ (r < P - N /\ GejEqXVar(r + N, pr)))
SigVerify(r, s, q, message) ==
  LET sn == ScalarInverse(s)
  IN  /\ r # 0 /\ s # 0
      /\ HasX(EcmultOf(GejSetGe(q), (sn * r) % N, (sn * message) % N), r)
EcdsaVerify(sig, md, q) ==
  ~ScalarIsHigh(sig.s) /\ SigVerify(sig.r, sig.s, q, SetB32(md).value)

RecoverFrom(x, sig, md) ==
  LET rn == ScalarInverse(sig.r)
  IN  IF x = <<>> THEN <<>>
      ELSE Finite(EcmultOf(GejSetGe(x[1]), (rn * sig.s) % N,
                           ScalarNegate((rn * SetB32(md).value) % N)))
EcdsaRecover(sig, md) ==
  LET beyond == sig.recid \div 2 = 1
  IN  IF sig.r = 0 \/ sig.s = 0 \/ (beyond /\ sig.r >= P - N) THEN <<>>
      ELSE RecoverFrom(GeSetXoVar(IF beyond THEN sig.r + N ELSE sig.r, sig.recid % 2 = 1),
                       sig, md)

(***************************************************************************)
(* The forms of signatures                                                 *)
(***************************************************************************)
CompactSerialize(sig) == GetB32(sig.r) \o GetB32(sig.s)
CompactParse(input, recid) ==
  LET r == SetB32(SubSeq(input, 1, HASH))
      s == SetB32(SubSeq(input, HASH + 1, 2 * HASH))
  IN  IF r.overflow \/ s.overflow THEN <<>>
      ELSE <<[r |-> r.value, s |-> s.value, recid |-> recid]>>

(* An integer has as many bytes as keep its first below HIGH.              *)
DerInteger(v) ==
  LET all == <<0>> \o GetB32(v)
      from == CHOOSE i \in 1..Len(all) :
                /\ \A j \in 1..(i - 1) : all[j] = 0 /\ all[j + 1] < HIGH
                /\ i = Len(all) \/ all[i] # 0 \/ all[i + 1] >= HIGH
  IN  SubSeq(all, from, Len(all))
DerOf(r, s) == <<48, 4 + Len(r) + Len(s), 2, Len(r)>> \o r \o <<2, Len(s)>> \o s
DerSerialize(sig) == DerOf(DerInteger(sig.r), DerInteger(sig.s))

(* The integer at offset at, as its value and the offset after it.  Longer *)
(* lengths than LONG_FORM occur in no signature that is short enough, so   *)
(* that reading one always fails.                                          *)
DerParseInteger(sig, at) ==
  LET len == sig[at + 2]
      body == SubSeq(sig, at + 3, at + 2 + len)
      digits == [i \in 1..HASH |-> IF i > HASH - len THEN body[len - HASH + i] ELSE 0]
      long == SubSeq(body, len - HASH + 1, len)
      value == SetB32(IF len <= HASH THEN digits ELSE long)
      overflow == \/ body[1] >= HIGH
                  \/ len > HASH /\ \E i \in 1..(len - HASH) : body[i] # 0
                  \/ value.overflow
  IN  IF \/ Len(sig) < at + 2 \/ sig[at + 1] # 2
         \/ len = 0 \/ len >= LONG_FORM \/ at + 2 + len > Len(sig)
         \/ len > 1 /\ body[1] = 0 /\ body[2] < HIGH
         \/ len > 1 /\ body[1] = BYTE - 1 /\ body[2] >= HIGH
      THEN <<>>
      ELSE <<[value |-> IF overflow THEN 0 ELSE value.value, next |-> at + 2 + len]>>

DerOfBoth(sig, r, s) ==
  IF s = <<>> \/ s[1].next # Len(sig) THEN <<>>
  ELSE <<[r |-> r[1].value, s |-> s[1].value]>>
DerAfter(sig, r) ==
  IF r = <<>> THEN <<>> ELSE DerOfBoth(sig, r, DerParseInteger(sig, r[1].next))
DerParse(sig) ==
  IF \/ Len(sig) < 2 \/ sig[1] # 48
     \/ sig[2] >= LONG_FORM \/ 2 + sig[2] # Len(sig)
  THEN <<>> ELSE DerAfter(sig, DerParseInteger(sig, 2))
=============================================================================
