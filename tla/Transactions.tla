---------------------------- MODULE Transactions ---------------------------
(***************************************************************************)
(* BitWTransaction.c: a transaction is built input by input and output by  *)
(* output, shuffled, signed, perhaps more than once and with other keys,   *)
(* serialised, and parsed again.                                           *)
(***************************************************************************)
EXTENDS Scripts, FiniteSets

CONSTANTS
  SIGHASH_ALL, SIGHASH_NONE, SIGHASH_SINGLE,  \* the low bits of a hash type
  SIGHASH_FORKID, SIGHASH_ANYONECANPAY,       \* its two flags, powers of 2
  TX_INPUT_SIZE,       \* the estimated size of an input to be signed
  TX_VERSION, TXIN_SEQUENCE,
  Sha256d(_),          \* BitWSHA256_2, of HASH bytes
  Key, PubKey,         \* PubKey[k]: the bytes of k's public key
  KeySign(_, _),       \* BitWKeySign
  ForkIds,             \* the fork ids used for signing: 0 or SIGHASH_FORKID
  Prevouts,            \* the outputs that can be spent
  Payments,            \* the outputs that can be added, by their scripts
  Amounts,             \* the amounts of outputs that are added by address
  MaxInputs, MaxOutputs

ASSUME SighashAssumption ==
  /\ {SIGHASH_ALL, SIGHASH_NONE, SIGHASH_SINGLE} \subseteq 1..(SIGHASH_FORKID - 1)
  /\ ForkIds \subseteq {0, SIGHASH_FORKID}
  /\ SIGHASH_ALL # SIGHASH_NONE /\ SIGHASH_ALL # SIGHASH_SINGLE /\ SIGHASH_NONE # SIGHASH_SINGLE
  /\ SIGHASH_FORKID \in Nat
  /\ SIGHASH_ANYONECANPAY = 2 * SIGHASH_FORKID /\ 2 * SIGHASH_ANYONECANPAY <= BYTE

Script == {s \in Seq(Byte) : Len(s) < Span(W64)}

ASSUME DataAssumption ==
  /\ TX_VERSION \in Uint(W32) /\ TX_INPUT_SIZE \in Nat
  /\ {MaxInputs, MaxOutputs} \cup Amounts \subseteq Uint(W64)
  /\ PubKey \in [Key -> Seq(Byte)] /\ \A k \in Key : Len(PubKey[k]) \in PUBKEY_LEN
  /\ \A p \in Prevouts :
       /\ p.txHash \in Hash /\ p.script \in Script
       /\ p.index \in Uint(W32) /\ p.sequence \in Uint(W32) /\ p.amount \in Uint(W64)
  /\ \A p \in Payments : p.script \in Script /\ p.amount \in Uint(W64)

VARIABLES
  coin,   \* the coin type of the calls
  tx,     \* the transaction; no inputs and outputs before it is created
  phase   \* "build", "signed" or "parsed"

vars == <<coin, tx, phase>>

(* An input without a signature has <<>>, one with the script s has <<s>>. *)
NULL == <<>>
SIZE_MAX == 0  \* the index that stands for the whole transaction
IsSet(flag, hashType) == (hashType \div flag) % 2 = 1
SigHash(hashType) == hashType % SIGHASH_FORKID

BitWTransactionNew == [txHash |-> Zeros(HASH), version |-> TX_VERSION,
                       inputs |-> <<>>, outputs |-> <<>>, lockTime |-> 0]

(* The address of an input is always that of a Bitcoin script.             *)
BitWTxInputSetScript(in, script) ==
  [in EXCEPT !.script = script,
             !.address = BitWAddressFromScriptPubKey(script, "BTC")]
BitWTxInputSetSignature(in, sig, c) ==
  [in EXCEPT !.signature = <<sig>>,
             !.address = IF in.address # <<>> THEN in.address
                         ELSE BitWAddressFromScriptSig(sig, c)]
BitWTxOutputSetAddress(out, addr, c) ==
  [out EXCEPT !.script = BitWAddressScriptPubKey(addr, c), !.address = addr]
BitWTxOutputSetScript(out, script, c) ==
  [out EXCEPT !.script = script,
              !.address = BitWAddressFromScriptPubKey(script, c)]

NewInput(txHash, index, amount, sequence) ==
  [txHash |-> txHash, index |-> index, address |-> <<>>, amount |-> amount,
   script |-> <<>>, signature |-> NULL, sequence |-> sequence]

Outpoint(in) == in.txHash \o LE(in.index, W32)

NewOutput(amount) == [address |-> <<>>, amount |-> amount, script |-> <<>>]

(* _BitWTxInputData, of an input with the given script in its place.  Its  *)
(* amount is written only if it is not zero.                               *)
TxInputData(in, script) ==
  Outpoint(in) \o BitWVarIntSet(Len(script)) \o script
    \o (IF in.amount # 0 THEN LE(in.amount, W64) ELSE <<>>)
    \o LE(in.sequence, W32)

(* _BitWTransactionOutputData, of one output.                              *)
OutputData(out) ==
  LE(out.amount, W64) \o BitWVarIntSet(Len(out.script)) \o out.script

(* What is written of all inputs and of all outputs, in their order.       *)
AllOutpoints(t) == FlattenSeq([n \in DOMAIN t.inputs |-> Outpoint(t.inputs[n])])
AllSequences(t) ==
  FlattenSeq([n \in DOMAIN t.inputs |-> LE(t.inputs[n].sequence, W32)])
AllOutputs(outs) == FlattenSeq([n \in DOMAIN outs |-> OutputData(outs[n])])

(* _BitWTransactionWitnessData: what is signed for the input at i under a  *)
(* fork id.                                                                *)
WitnessData(t, i, hashType) ==
  LET any == IsSet(SIGHASH_ANYONECANPAY, hashType)
      all == SigHash(hashType) \notin {SIGHASH_SINGLE, SIGHASH_NONE}
      zero == Zeros(HASH)
  IN IF i \notin DOMAIN t.inputs THEN <<>>
     ELSE LE(t.version, W32)
       \o (IF any THEN zero ELSE Sha256d(AllOutpoints(t)))
       \o (IF any \/ ~all THEN zero
           ELSE Sha256d(AllSequences(t)))
       \o TxInputData(t.inputs[i], t.inputs[i].script)
       \o (CASE all -> Sha256d(AllOutputs(t.outputs))
             [] SigHash(hashType) = SIGHASH_SINGLE /\ i \in DOMAIN t.outputs ->
                  Sha256d(OutputData(t.outputs[i]))
             [] OTHER -> zero)
       \o LE(t.lockTime, W32) \o LE(hashType, W32)

(* Mutated forms: the signatures made before are signed too; sequences stay*)
(* when the outputs are left open.                                         *)
InputWithSignature(t, n, i, hashType) ==
  LET in == [t.inputs[n] EXCEPT !.amount = 0]
  IN TxInputData(in, IF n # i /\ in.signature # NULL THEN in.signature[1]
                     ELSE in.script)
InputWithSequence(t, n, i, hashType) ==
  LET in == t.inputs[n]
      bare == [in EXCEPT !.amount = 0]
  IN CASE n = i -> TxInputData(bare, in.script)
       [] n # i /\ i # SIZE_MAX -> TxInputData(bare, <<>>)
       [] OTHER -> TxInputData(bare, in.signature[1])

(* How the input at n is written in the data signed for the one at i, or,  *)
(* for SIZE_MAX, in the serialised transaction: one without a signature    *)
(* with its script, and then with its amount.                              *)
InputAs(t, n, i, hashType) ==
  LET in == t.inputs[n]
      ends == SigHash(hashType) \in {SIGHASH_NONE, SIGHASH_SINGLE}
      bare == [in EXCEPT !.amount = 0]
  IN CASE n = i -> TxInputData(bare, in.script)
       [] i = SIZE_MAX /\ in.signature = NULL -> TxInputData(in, in.script)
       [] i = SIZE_MAX /\ in.signature # NULL ->
            TxInputData(bare, in.signature[1])
       [] OTHER -> TxInputData(IF ends THEN [bare EXCEPT !.sequence = 0]
                               ELSE bare, <<>>)

(* _BitWTransactionData.                                                   *)
TransactionData(t, i, hashType) ==
  LET any == IsSet(SIGHASH_ANYONECANPAY, hashType)
      which == SigHash(hashType)
      shown == IF any THEN <<i>> ELSE [n \in DOMAIN t.inputs |-> n]
      outputs ==
        CASE which \notin {SIGHASH_SINGLE, SIGHASH_NONE} ->
               BitWVarIntSet(Len(t.outputs)) \o AllOutputs(t.outputs)
          [] which = SIGHASH_SINGLE /\ i \in DOMAIN t.outputs ->
               BitWVarIntSet(i)
                 \o FlattenSeq([n \in 1..(i - 1) |-> LE(Span(W64) - 1, W64) \o BitWVarIntSet(0)])
                 \o OutputData(t.outputs[i])
          [] OTHER -> BitWVarIntSet(0)
  IN CASE IsSet(SIGHASH_FORKID, hashType) -> WitnessData(t, i, hashType)
       [] ~IsSet(SIGHASH_FORKID, hashType) /\ any /\ i \notin DOMAIN t.inputs ->
            <<>>
       [] OTHER ->
            LE(t.version, W32) \o BitWVarIntSet(Len(shown))
              \o FlattenSeq([n \in DOMAIN shown |-> InputAs(t, shown[n], i, hashType)])
              \o outputs \o LE(t.lockTime, W32)
              \o (IF i = SIZE_MAX THEN <<>> ELSE LE(hashType, W32))

BitWTransactionSerialize(t) == TransactionData(t, SIZE_MAX, SIGHASH_ALL)

BitWTransactionIsSigned(t) ==
  \A n \in DOMAIN t.inputs : t.inputs[n].signature # NULL

SignedInputSize(in) ==
  IF in.signature = NULL THEN TX_INPUT_SIZE
  ELSE HASH + 2 * W32 + BitWVarIntSize(Len(in.signature[1])) + Len(in.signature[1])

(* Mutated form: the length of an output script takes a byte.              *)
OutputSizeShort(out) == W64 + 1 + Len(out.script)

OutputSize(out) == W64 + BitWVarIntSize(Len(out.script)) + Len(out.script)

(* The bytes if signed, an estimate for the inputs that are not.           *)
BitWTransactionSize(t) ==
  2 * W32 + BitWVarIntSize(Len(t.inputs)) + BitWVarIntSize(Len(t.outputs))
    + Total([n \in DOMAIN t.inputs |-> SignedInputSize(t.inputs[n])])
    + Total([n \in DOMAIN t.outputs |-> OutputSize(t.outputs[n])])

(* The fee of transactions of one kb or less, and of each further kb.      *)
BitWTransactionStandardFee(t, kb, feePerKb) ==
  ((BitWTransactionSize(t) + kb - 1) \div kb) * feePerKb

BitWKeyAddress(k, c) == <<PubkeyAddress[c]>> \o Hash160(PubKey[k])

(* The scriptSig for the input at i.  The sighash is added to the          *)
(* signature; a pay-to-pubkey output does not need the key.                *)
ScriptSig(t, i, k, forkId) ==
  LET hashType == forkId + SIGHASH_ALL
      h == Heads(t.inputs[i].script)
  IN BitWScriptPushData(KeySign(k, Sha256d(TransactionData(t, i, hashType)))
                          \o <<hashType>>)
       \o (IF Len(h) >= 2 /\ h[Len(h) - 1] = OP_EQUALVERIFY
           THEN BitWScriptPushData(PubKey[k]) ELSE <<>>)

(* One turn of the loop: the input at i is signed, again if it was signed, *)
(* with the key whose address its script pays, if that is among keys.      *)
SignWith(t, i, mine, forkId, c) ==
  IF mine = {} THEN t
  ELSE [t EXCEPT !.inputs[i] = BitWTxInputSetSignature(@,
          ScriptSig(t, i, CHOOSE k \in mine : TRUE, forkId), c)]
KeysOf(addr, keys, c) ==
  {k \in keys : addr # <<>> /\ BitWKeyAddress(k, c) = addr}
SignInput(t, i, keys, forkId, c) ==
  SignWith(t, i, KeysOf(BitWAddressFromScriptPubKey(t.inputs[i].script, c), keys, c),
           forkId, c)

(* The loop: what is signed after i turns.                                 *)
SignedUpTo(t, keys, forkId, c) ==
  LET u[i \in 0..Len(t.inputs)] ==
        IF i = 0 THEN t ELSE SignInput(u[i - 1], i, keys, forkId, c)
  IN u

Hashed(t) ==
  IF BitWTransactionIsSigned(t)
  THEN [t EXCEPT !.txHash = Sha256d(TransactionData(t, SIZE_MAX, 0))] ELSE t
BitWTransactionSign(t, keys, forkId, c) ==
  Hashed(SignedUpTo(t, keys, forkId, c)[Len(t.inputs)])

(* A script with its length in front, from off; it may end behind b.       *)
(* Numbers have no bound here: that an offset of 32 bits wraps around at a *)
(* length near 2^32, and that the inputs of any count are allocated, is    *)
(* not modelled.                                                           *)
ScriptBehind(b, len, at) ==
  [bytes |-> At(b, at, len.value), end |-> at + len.value]
ScriptOf(b, off, len) == ScriptBehind(b, len, off + len.len)
ScriptAt(b, off) == ScriptOf(b, off, BitWVarInt(b, off))

(* A script that could receive coins is taken for that of the output an    *)
(* input without a signature spends, and its amount is read but not passed.*)
ReadInput(b, c, off, script, unsigned) ==
  LET read == NewInput(At(b, off, HASH), GetLE(b, off + HASH, W32),
                       IF unsigned THEN GetLE(b, script.end, W64) ELSE 0,
                       GetLE(b, script.end, W32))
  IN CASE unsigned -> BitWTxInputSetScript(read, script.bytes)
       [] ~unsigned /\ script.end <= Len(b) ->
            BitWTxInputSetSignature(read, script.bytes, c)
       [] OTHER -> read
CouldReceive(b, c, script) ==
  script.end <= Len(b) /\ BitWAddressFromScriptPubKey(script.bytes, c) # <<>>
ReadOutput(b, c, off, script) ==
  IF script.end <= Len(b)
  THEN BitWTxOutputSetScript(NewOutput(GetLE(b, off, W64)), script.bytes, c)
  ELSE NewOutput(GetLE(b, off, W64))

(* The loops of BitWTransactionParse, from off: the offsets of the inputs, *)
(* or of the outputs, and of what follows them.  A turn passes a byte at   *)
(* least, and what is behind the end of b is not read; then nothing that   *)
(* was read is used.                                                       *)
InputScript(b, off) == ScriptAt(b, off + HASH + W32)
NextInput(b, off) == IF off > Len(b) THEN off ELSE InputScript(b, off).end + W32
InputAt(b, c, off) ==
  ReadInput(b, c, off, InputScript(b, off), CouldReceive(b, c, InputScript(b, off)))
InputOffsets(b, off, n) ==
  LET at[k \in 0..n] == IF k = 0 THEN off ELSE NextInput(b, at[k - 1])
  IN at
ParseInputs(b, c, off, count) ==
  LET n == Min2(count, Len(b))
      at == InputOffsets(b, off, n)
  IN [off |-> at[n], all |-> [k \in 1..n |-> InputAt(b, c, at[k - 1])]]

OutputScript(b, off) == ScriptAt(b, off + W64)
NextOutput(b, off) == IF off > Len(b) THEN off ELSE OutputScript(b, off).end
OutputAt(b, c, off) == ReadOutput(b, c, off, OutputScript(b, off))
OutputOffsets(b, off, n) ==
  LET at[k \in 0..n] == IF k = 0 THEN off ELSE NextOutput(b, at[k - 1])
  IN at
ParseOutputs(b, c, off, count) ==
  LET n == Min2(count, Len(b))
      at == OutputOffsets(b, off, n)
  IN [off |-> at[n], all |-> [k \in 1..n |-> OutputAt(b, c, at[k - 1])]]

(* Mutated form: what was cut off is not noticed.                          *)
WhatIsThere(b, ins, outs) ==
  <<[txHash |-> Sha256d(b), version |-> GetLE(b, 0, W32),
     inputs |-> ins.all, outputs |-> outs.all, lockTime |-> 0]>>

(* What was read, if its end is there: <<>> for NULL, else the transaction *)
(* in a sequence of its own.  A signed one has its hash.                   *)
Parsed(b, ins, outs) ==
  LET t == [txHash |-> Zeros(HASH), version |-> GetLE(b, 0, W32),
            inputs |-> ins.all, outputs |-> outs.all,
            lockTime |-> GetLE(b, outs.off, W32)]
      isSigned == \A n \in DOMAIN ins.all : ins.all[n].script = <<>>
      end == outs.off + W32
  IN IF end > Len(b) THEN NULL
     ELSE <<IF isSigned
            THEN [t EXCEPT !.txHash = Sha256d(SubSeq(b, 1, end))] ELSE t>>

ParseFromOutputs(b, c, ins, outCount) ==
  Parsed(b, ins,
         ParseOutputs(b, c, ins.off + outCount.len, outCount.value))
ParseBehindInputs(b, c, ins) == ParseFromOutputs(b, c, ins, BitWVarInt(b, ins.off))
ParseFromInputs(b, c, inCount) ==
  IF inCount.value = 0 THEN NULL
  ELSE ParseBehindInputs(b, c,
         ParseInputs(b, c, W32 + inCount.len, inCount.value))
BitWTransactionParse(b, c) == ParseFromInputs(b, c, BitWVarInt(b, W32))
-----------------------------------------------------------------------------
Init ==
  /\ coin \in CoinType
  /\ tx = BitWTransactionNew
  /\ phase = "build"

BitWTransactionAddInput(p) ==
  /\ phase = "build" /\ Len(tx.inputs) < MaxInputs
  /\ tx' = [tx EXCEPT !.inputs = Append(@, BitWTxInputSetScript(
       NewInput(p.txHash, p.index, p.amount, p.sequence), p.script))]
  /\ UNCHANGED <<coin, phase>>

BitWTransactionAddOutput(amount, script) ==
  /\ phase = "build" /\ Len(tx.outputs) < MaxOutputs
  /\ tx' = [tx EXCEPT !.outputs = Append(@, BitWTxOutputSetScript(
       NewOutput(amount), script, coin))]
  /\ UNCHANGED <<coin, phase>>

(* BitWTransactionAddOutput by callers that have an address.               *)
AddOutputTo(amount, addr) ==
  /\ BitWAddressIsValid(addr, coin)
  /\ LET out == BitWTxOutputSetAddress(NewOutput(amount), addr, coin)
     IN BitWTransactionAddOutput(amount, out.script)

(* Any order can come out, as BitWRand gives any number below its bound.   *)
BitWTransactionShuffleOutputs ==
  /\ phase = "build"
  /\ \E p \in {q \in [DOMAIN tx.outputs -> DOMAIN tx.outputs] :
                 \A m, n \in DOMAIN q : q[m] = q[n] => m = n} :
       tx' = [tx EXCEPT !.outputs = [n \in DOMAIN p |-> @[p[n]]]]
  /\ UNCHANGED <<coin, phase>>

Sign(keys, forkId) ==
  /\ tx.inputs # <<>>
  /\ tx' = BitWTransactionSign(tx, keys, forkId, coin)
  /\ phase' = "signed"
  /\ UNCHANGED coin

(* The transaction is serialised, and what was written is parsed.          *)
Reload ==
  /\ tx.inputs # <<>>
  /\ \E back \in ToSet(BitWTransactionParse(BitWTransactionSerialize(tx), coin)) :
       tx' = back
  /\ phase' = "parsed"
  /\ UNCHANGED coin

Next ==
  \/ \E p \in Prevouts : BitWTransactionAddInput(p)
  \/ \E p \in Payments : BitWTransactionAddOutput(p.amount, p.script)
  \/ \E amount \in Amounts, k \in Key : AddOutputTo(amount, BitWKeyAddress(k, coin))
  \/ BitWTransactionShuffleOutputs
  \/ \E keys \in SUBSET Key, forkId \in ForkIds : Sign(keys, forkId)
  \/ Reload

Spec == Init /\ [][Next]_vars
-----------------------------------------------------------------------------
(* What a node verifies a signature against, after the rules of the        *)
(* protocol: the transaction with scripts and outputs struck out, or the   *)
(* BIP143 digest.                                                          *)
Struck(t, i, hashType) ==
  LET which == SigHash(hashType)
      ends == which \in {SIGHASH_NONE, SIGHASH_SINGLE}
      ins == [n \in DOMAIN t.inputs |->
                [t.inputs[n] EXCEPT !.script = IF n = i THEN @ ELSE <<>>,
                                    !.sequence = IF n # i /\ ends THEN 0 ELSE @]]
      first == [n \in 1..i |->
                  IF n < i THEN [amount |-> Span(W64) - 1, script |-> <<>>]
                  ELSE t.outputs[n]]
  IN [t EXCEPT !.inputs = IF IsSet(SIGHASH_ANYONECANPAY, hashType)
                          THEN <<ins[i]>> ELSE ins,
               !.outputs = CASE which = SIGHASH_NONE -> <<>>
                             [] which = SIGHASH_SINGLE -> first
                             [] OTHER -> @]
LegacyDigest(t, i, hashType) ==
  LET u == Struck(t, i, hashType)
      input(in) == Outpoint(in) \o BitWVarIntSet(Len(in.script)) \o in.script
                     \o LE(in.sequence, W32)
      output(out) == LE(out.amount, W64) \o BitWVarIntSet(Len(out.script)) \o out.script
  IN LE(u.version, W32)
       \o BitWVarIntSet(Len(u.inputs))
       \o FlattenSeq([n \in DOMAIN u.inputs |-> input(u.inputs[n])])
       \o BitWVarIntSet(Len(u.outputs))
       \o FlattenSeq([n \in DOMAIN u.outputs |-> output(u.outputs[n])])
       \o LE(u.lockTime, W32) \o LE(hashType, W32)
Bip143Digest(t, i, hashType) ==
  LET any == IsSet(SIGHASH_ANYONECANPAY, hashType)
      which == SigHash(hashType)
      in == t.inputs[i]
      sums == [prevouts |-> Sha256d(AllOutpoints(t)),
               sequences |-> Sha256d(AllSequences(t)),
               outputs |-> Sha256d(AllOutputs(
                             IF which = SIGHASH_SINGLE THEN <<t.outputs[i]>>
                             ELSE t.outputs))]
  IN LE(t.version, W32)
       \o (IF any THEN Zeros(HASH) ELSE sums.prevouts)
       \o (IF any \/ which # SIGHASH_ALL THEN Zeros(HASH) ELSE sums.sequences)
       \o Outpoint(in) \o BitWVarIntSet(Len(in.script)) \o in.script
       \o LE(in.amount, W64) \o LE(in.sequence, W32)
       \o (IF which = SIGHASH_NONE THEN Zeros(HASH) ELSE sums.outputs)
       \o LE(t.lockTime, W32) \o LE(hashType, W32)
Digest(t, i, hashType) ==
  IF IsSet(SIGHASH_FORKID, hashType) THEN Bip143Digest(t, i, hashType)
  ELSE LegacyDigest(t, i, hashType)

HashTypes ==
  {which + fork + any : which \in {SIGHASH_ALL, SIGHASH_NONE, SIGHASH_SINGLE},
                        fork \in ForkIds, any \in {0, SIGHASH_ANYONECANPAY}}

(* For every hash type, the data hashed for an input is what the protocol  *)
(* says.  A single output to sign has to exist, and the BIP143 form is     *)
(* only right for an amount that is not zero.                              *)
DigestsMatch ==
  phase # "parsed" => \A i \in DOMAIN tx.inputs, hashType \in HashTypes :
    /\ SigHash(hashType) = SIGHASH_SINGLE => i \in DOMAIN tx.outputs
    /\ IsSet(SIGHASH_FORKID, hashType) => tx.inputs[i].amount # 0
    => TransactionData(tx, i, hashType) = Digest(tx, i, hashType)

(* In whatever order and however often the inputs are signed, each         *)
(* signature is one for the finished transaction by the key its input pays,*)
(* and the scriptSig shows the same address as the script.                 *)
SignaturesVerify ==
  phase = "signed" => \A i \in DOMAIN tx.inputs :
    LET in == tx.inputs[i]
        sig == in.signature[1]
        pushed == BitWScriptData(sig, BitWScriptElements(sig)[1])
        hashType == pushed[Len(pushed)]
        addr == BitWAddressFromScriptPubKey(in.script, coin)
    IN /\ in.signature # NULL /\ in.script # <<>>
       /\ IsSet(SIGHASH_FORKID, hashType) => in.amount # 0
       =>/\ BitWScriptElements(sig) # <<>>
         /\ \E k \in Key :
              /\ BitWKeyAddress(k, coin) = addr
              /\ Front(pushed) = KeySign(k, Sha256d(Digest(tx, i, hashType)))
         /\ PaysPubkeyHash(Heads(in.script)) =>
              BitWAddressFromScriptSig(sig, coin) = addr

(* A signed transaction is read back as it was, with its hash; amounts,    *)
(* scripts and so the addresses of pay-to-pubkey inputs are not part of it.*)
RoundTrip ==
  phase = "signed" /\ BitWTransactionIsSigned(tx) =>
    BitWTransactionParse(BitWTransactionSerialize(tx), coin) =
      <<[tx EXCEPT !.inputs = [n \in DOMAIN @ |->
           [@[n] EXCEPT !.script = <<>>, !.amount = 0, !.address =
              BitWAddressFromScriptSig(tx.inputs[n].signature[1], coin)]]]>>

(* What is left of a signed transaction that was cut off is never taken    *)
(* for a transaction.                                                      *)
TruncationRefused ==
  phase = "signed" /\ BitWTransactionIsSigned(tx) =>
    LET whole == BitWTransactionSerialize(tx)
    IN \A n \in 0..(Len(whole) - 1) :
         BitWTransactionParse(SubSeq(whole, 1, n), coin) = NULL

(* What the theorems assume of the keys: a signature with its hash type is *)
(* pushed by one byte, and TX_INPUT_SIZE, that is 148, has room for it and *)
(* for a compressed key, as for 71 bytes and 33.                           *)
Compressed == {k \in Key : \A l \in Key : Len(PubKey[k]) <= Len(PubKey[l])}
SignaturesFit ==
  \A k \in Key, md \in Hash :
    KeySign(k, md) \in Seq(Byte) /\ Len(KeySign(k, md)) + 1 < OP_PUSHDATA1
EstimateFits ==
  \A k \in Compressed, md \in Hash :
    HASH + 2 * W32 + 1 + (1 + Len(KeySign(k, md)) + 1) + (1 + Len(PubKey[k])) <= TX_INPUT_SIZE

(* The size fees are computed from is that of the bytes, and the estimate  *)
(* before signing is never below it if all keys are compressed.            *)
SizeRight ==
  /\ BitWTransactionIsSigned(tx) =>
       BitWTransactionSize(tx) = Len(BitWTransactionSerialize(tx))
  /\ phase = "build" => \A forkId \in ForkIds :
       LET signed == BitWTransactionSign(tx, Compressed, forkId, coin)
       IN BitWTransactionIsSigned(signed) =>
            Len(BitWTransactionSerialize(signed)) <= BitWTransactionSize(tx)
=============================================================================
