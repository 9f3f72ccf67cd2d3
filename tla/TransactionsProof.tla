------------------------- MODULE TransactionsProof -------------------------
(***************************************************************************)
(* What a signed transaction is good for: it is read back as it was        *)
(* written, never when it was cut off, its size is known before it is      *)
(* signed, and its signatures are those that a node verifies.              *)
(***************************************************************************)
EXTENDS Transactions, BytesProof

-----------------------------------------------------------------------------
(* Types.                                                                  *)

(* What the hashes and the signatures have to be.                          *)
PrimitivesFit ==
  /\ \A bytes \in Seq(Byte) : Sha256d(bytes) \in Hash
  /\ \A bytes \in Seq(Byte) : Hash160(bytes) \in [1..HASH160_LEN -> Byte]
  /\ SignaturesFit

Input ==
  [txHash : Hash, index : Uint(W32), address : Seq(Byte), amount : Uint(W64), script : Script,
   signature : {NULL} \cup {<<s>> : s \in Script}, sequence : Uint(W32)]
Output == [address : Seq(Byte), amount : Uint(W64), script : Script]
Tx ==
  [txHash : Hash, version : Uint(W32), inputs : Seq(Input), outputs : Seq(Output),
   lockTime : Uint(W32)]

TypeOK ==
  /\ coin \in CoinType /\ phase \in {"build", "signed", "parsed"}
  /\ tx \in Tx /\ Len(tx.inputs) < Span(W64) /\ Len(tx.outputs) < Span(W64)

LEMMA Widths ==
  /\ W16 \in Nat /\ W32 \in Nat /\ W64 \in Nat /\ HASH \in Nat
  /\ \A w \in Nat : Uint(w) \subseteq Nat /\ 0 \in Uint(w)
  /\ Byte \subseteq Nat /\ 0 \in Byte
  /\ \A h \in Hash : h \in Seq(Byte) /\ Len(h) = HASH
  /\ \A h \in Seq(Byte) : Len(h) = HASH => h \in Hash
  /\ Zeros(HASH) \in Hash
<1>1. W16 \in Nat /\ W32 \in Nat /\ W64 \in Nat /\ HASH \in Nat
  BY WidthAssumption
<1>2. ASSUME NEW w \in Nat  PROVE Uint(w) \subseteq Nat /\ 0 \in Uint(w)
  <2>1. Span(w) \in Nat /\ Span(w) > 0
    BY SpanStep
  <2> QED
    BY <2>1 DEF Uint
<1>3. Byte \subseteq Nat /\ 0 \in Byte
  BY BitsFacts DEF Byte
<1>4. \A h \in [1..HASH -> Byte] : h \in Seq(Byte) /\ Len(h) = HASH
  BY <1>1
<1>5. ASSUME NEW h \in Seq(Byte), Len(h) = HASH  PROVE h \in [1..HASH -> Byte]
  BY <1>5
<1>6. Zeros(HASH) \in [1..HASH -> Byte]
  BY <1>1, <1>3 DEF Zeros
<1> QED
  BY <1>1, <1>2, <1>3, <1>4, <1>5, <1>6 DEF Hash

LEMMA Opcodes ==
  /\ {OP_PUSHDATA1, OP_PUSHDATA2, OP_PUSHDATA4, OP_DUP, OP_EQUAL, OP_EQUALVERIFY,
      OP_HASH160, OP_CHECKSIG} \subseteq Byte
  /\ 0 < OP_PUSHDATA1 /\ OP_PUSHDATA1 < OP_PUSHDATA2 /\ OP_PUSHDATA2 < OP_PUSHDATA4
  /\ HASH160_LEN \in Nat /\ HASH160_LEN < OP_PUSHDATA1 /\ HASH160_LEN \in Byte
  /\ \A n \in PUBKEY_LEN : n \in Nat /\ 0 < n /\ n < OP_PUSHDATA1
  /\ \A op \in {OP_DUP, OP_EQUAL, OP_EQUALVERIFY, OP_HASH160, OP_CHECKSIG} : op > OP_PUSHDATA4
  /\ 2 * OP_PUSHDATA1 < VAR_INT16_HEADER
  /\ MAX_SCRIPT_LENGTH \in Nat /\ 2 * OP_PUSHDATA1 <= MAX_SCRIPT_LENGTH
<1>1. OP_PUSHDATA1 \in Nat /\ OP_PUSHDATA2 \in Nat /\ OP_PUSHDATA4 \in Nat /\ BYTE \in Nat
  BY OpcodeAssumption, BitsFacts
<1>2. HASH160_LEN \in 1..(OP_PUSHDATA1 - 1)
  BY OpcodeAssumption
<1>3. OP_CHECKSIG \in (OP_PUSHDATA4 + 1)..(BYTE - 1)
  BY OpcodeAssumption
<1>4. \A n \in PUBKEY_LEN : n \in 1..(OP_PUSHDATA1 - 1)
  BY OpcodeAssumption
<1>5. \A n \in PUBKEY_LEN : n \in Nat /\ 0 < n /\ n < OP_PUSHDATA1
  BY <1>1, <1>4
<1>6. HASH160_LEN \in Nat /\ HASH160_LEN < OP_PUSHDATA1 /\ HASH160_LEN \in Byte
  BY <1>1, <1>2, <1>3, OpcodeAssumption DEF Byte
<1> QED
  BY <1>1, <1>2, <1>3, <1>5, <1>6, OpcodeAssumption DEF Byte

LEMMA LEType ==
  ASSUME NEW w \in Nat, NEW u \in Uint(w)
  PROVE  LE(u, w) \in Seq(Byte) /\ Len(LE(u, w)) = w
BY Widths, LEDigits

-----------------------------------------------------------------------------
(* Scripts.                                                                *)

LEMMA ElementLenType ==
  ASSUME NEW script \in Seq(Byte), NEW off \in Nat, off < Len(script), NEW before \in Nat
  PROVE  LenWidth(script[off + 1]) \in Nat /\ ElementLen(script, off, before) \in Nat
<1> DEFINE op == script[off + 1]
           w == LenWidth(op)
<1>1. op \in Nat /\ Len(script) \in Nat
  <2>1. Len(script) \in Nat
    OBVIOUS
  <2>2. off + 1 \in 1..Len(script)
    BY <2>1
  <2>3. script[off + 1] \in Byte
    BY <2>2
  <2> QED
    BY <2>1, <2>3, Widths
<1> HIDE DEF op
<1>2. w \in Nat
  BY Widths DEF LenWidth
<1>3. GetLE(script, off + 1, w) \in Nat
  <2>1. off + 1 \in Nat
    OBVIOUS
  <2> HIDE DEF w
  <2> QED
    BY <1>2, <2>1, AtType, Zenon
<1> HIDE DEF w
<1>4. ElementLen(script, off, before) =
        CASE w = 0 -> IF op > OP_PUSHDATA4 THEN 0 ELSE op
          [] w > 0 /\ off + 1 + w <= Len(script) -> GetLE(script, off + 1, w)
          [] OTHER -> before
  BY DEF ElementLen, w, op
<1>5. ElementLen(script, off, before) \in Nat
  BY <1>1, <1>2, <1>3, <1>4
<1> QED
  BY <1>2, <1>5 DEF w, op

LEMMA WalkFacts ==
  ASSUME NEW script \in Seq(Byte)
  PROVE  LET walk == ElementsWalk(script)
         IN /\ walk[0] = [off |-> 0, len |-> 0, found |-> <<>>]
            /\ \A k \in 1..Len(script) : walk[k] = NextElement(script, walk[k - 1])
            /\ \A k \in 0..Len(script) :
                 walk[k] \in [off : Nat, len : Nat, found : Seq(0..(Len(script) - 1))]
<1> DEFINE n == Len(script)
           T == [off : Nat, len : Nat, found : Seq(0..(n - 1))]
           base == [off |-> 0, len |-> 0, found |-> <<>>]
           F == [k \in 1..n |-> [s \in T |-> NextElement(script, s)]]
           P(f) == f = [k \in 0..n |-> IF k = 0 THEN base ELSE NextElement(script, f[k - 1])]
           walk == ElementsWalk(script)
<1>1. n \in Nat /\ base \in T
  OBVIOUS
<1>2. ASSUME NEW s \in T  PROVE NextElement(script, s) \in T
  <2>1. s.off \in Nat /\ s.len \in Nat /\ s.found \in Seq(0..(n - 1))
    OBVIOUS
  <2>2. CASE s.off >= n
    BY <2>2 DEF NextElement
  <2>3. CASE ~(s.off >= n)
    <3> DEFINE len == ElementLen(script, s.off, s.len)
               w == LenWidth(script[s.off + 1])
    <3>1. len \in Nat /\ w \in Nat
      <4>1. s.off < Len(script)
        BY <1>1, <2>1, <2>3
      <4> QED
        BY <2>1, <4>1, ElementLenType, Zenon
    <3>2. NextElement(script, s) = [off |-> s.off + 1 + w + len, len |-> len, found |-> Append(s.found, s.off)]
      BY <2>3 DEF NextElement
    <3> HIDE DEF len, w
    <3>3. Append(s.found, s.off) \in Seq(0..(n - 1))
      BY <1>1, <2>1, <2>3
    <3> QED
      BY <2>1, <3>1, <3>2, <3>3
  <2> QED
    BY <2>2, <2>3
<1> HIDE DEF n, T, base
<1>3. F \in [1..n -> [T -> T]]
  BY <1>2
<1>4. \A k \in 1..n : \A s \in T : F[k][s] = NextElement(script, s)
  OBVIOUS
<1> HIDE DEF F
<1>5. PICK h : Iterated(h, n, T, base, F)
  BY <1>1, <1>3, Iterates
<1>6. ASSUME NEW k \in 0..n  PROVE h[k] = IF k = 0 THEN base ELSE NextElement(script, h[k - 1])
  <2>1. CASE k = 0
    BY <1>5, <2>1 DEF Iterated
  <2>2. CASE k # 0
    <3>1. k \in 1..n /\ k - 1 \in 0..n
      BY <1>1, <2>2
    <3>2. h[k - 1] \in T /\ h[k] = F[k][h[k - 1]]
      BY <1>5, <3>1 DEF Iterated
    <3> QED
      BY <1>4, <2>2, <3>1, <3>2
  <2> QED
    BY <2>1, <2>2
<1>7. P(h)
  <2>1. h = [k \in 0..n |-> h[k]]
    BY <1>5 DEF Iterated
  <2> QED
    BY <1>6, <2>1, Zenon
<1>8. walk = CHOOSE f : P(f)
  BY DEF ElementsWalk, n, base
<1> HIDE DEF walk
<1>9. P(walk)
  <2> HIDE DEF P
  <2> QED
    BY <1>7, <1>8
<1>10. \A k \in 0..n : walk[k] = IF k = 0 THEN base ELSE NextElement(script, walk[k - 1])
  BY <1>9, Zenon
<1>11. walk[0] = base /\ \A k \in 1..n : walk[k] = NextElement(script, walk[k - 1])
  <2>1. 0 \in 0..n /\ \A k \in 1..n : k \in 0..n /\ k # 0
    BY <1>1
  <2> QED
    BY <1>10, <2>1, Zenon
<1> DEFINE S == {k \in 0..n : walk[k] \in T}
<1>12. 0 \in S
  BY <1>1, <1>11
<1>13. ASSUME NEW k \in 1..n, k - 1 \in S  PROVE k \in S
  BY <1>2, <1>11, <1>13
<1>14. \A k \in 0..n : k \in S
  <2> HIDE DEF S
  <2> QED
    BY <1>1, <1>12, <1>13, AllUpTo
<1> QED
  BY <1>11, <1>14 DEF walk, n, T, base

LEMMA ElementsType ==
  ASSUME NEW script \in Seq(Byte)
  PROVE  BitWScriptElements(script) \in Seq(0..(Len(script) - 1))
<1> DEFINE n == Len(script)
           end == ElementsWalk(script)[n]
<1>1. n \in 0..n
  OBVIOUS
<1>2. end.found \in Seq(0..(n - 1)) /\ <<>> \in Seq(0..(n - 1))
  <2>1. end \in [off : Nat, len : Nat, found : Seq(0..(n - 1))]
    BY <1>1, WalkFacts
  <2> HIDE DEF end, n
  <2> QED
    BY <2>1
<1>3. BitWScriptElements(script) = IF end.off = n THEN end.found ELSE <<>>
  BY DEF BitWScriptElements
<1> HIDE DEF n, end
<1>4. BitWScriptElements(script) \in Seq(0..(n - 1))
  BY <1>2, <1>3
<1> QED
  BY <1>4 DEF n

LEMMA DataType ==
  ASSUME NEW script \in Seq(Byte), NEW off \in 0..(Len(script) - 1)
  PROVE  BitWScriptData(script, off) \in Seq(Byte)
<1> DEFINE w == LenWidth(script[off + 1])
           n == ElementLen(script, off, 0)
<1>1. off \in Nat /\ off < Len(script) /\ 0 \in Nat
  OBVIOUS
<1>2. w \in Nat /\ n \in Nat
  BY <1>1, ElementLenType
<1> HIDE DEF w, n
<1>3. off + 1 + w \in Nat
  BY <1>1, <1>2
<1>4. At(script, off + 1 + w, n) \in Seq(Byte)
  BY <1>2, <1>3, AtType
<1> QED
  BY <1>4 DEF BitWScriptData, w, n

LEMMA HeadsFacts ==
  ASSUME NEW script \in Seq(Byte)
  PROVE  LET at == BitWScriptElements(script)
             h == Heads(script)
         IN /\ h \in Seq(Byte) /\ Len(h) \in Nat
            /\ Len(h) # 0 => /\ Len(at) = Len(h)
                             /\ \A n \in 1..Len(h) : /\ at[n] \in 0..(Len(script) - 1)
                                                     /\ h[n] = script[at[n] + 1]
            /\ Len(script) <= MAX_SCRIPT_LENGTH => Len(h) = Len(at)
<1> DEFINE at == BitWScriptElements(script)
           h == Heads(script)
           all == HeadsAt(script, at)
<1>1. at \in Seq(0..(Len(script) - 1)) /\ Len(at) \in Nat
  BY ElementsType
<1>2. \A n \in 1..Len(at) : at[n] \in 0..(Len(script) - 1)
  <2> HIDE DEF at
  <2> QED
    BY <1>1
<1>3. /\ all \in [1..Len(at) -> Byte]
      /\ \A n \in 1..Len(at) : all[n] = script[at[n] + 1]
  <2> HIDE DEF at
  <2>1. \A n \in 1..Len(at) : script[at[n] + 1] \in Byte
    <3> TAKE n \in 1..Len(at)
    <3>1. at[n] + 1 \in 1..Len(script)
      BY <1>2
    <3> QED
      BY <3>1
  <2>2. DOMAIN at = 1..Len(at)
    BY <1>1
  <2> QED
    BY <2>1, <2>2 DEF HeadsAt
<1> HIDE DEF all
<1>4. all \in Seq(Byte) /\ Len(all) = Len(at)
  <2> HIDE DEF at
  <2> QED
    BY <1>1, <1>3
<1>5. /\ Len(script) <= MAX_SCRIPT_LENGTH => h = all
      /\ h = all \/ h = <<>>
  <2>1. Len(script) <= MAX_SCRIPT_LENGTH => ~(Len(script) > MAX_SCRIPT_LENGTH)
    BY Opcodes
  <2> QED
    BY <2>1 DEF Heads, all
<1> HIDE DEF at, h
<1>6. CASE h = all
  BY <1>1, <1>2, <1>3, <1>4, <1>6 DEF at, h
<1>7. CASE h = <<>>
  <2>1. h \in Seq(Byte) /\ Len(h) = 0
    BY <1>7
  <2>2. Len(script) <= MAX_SCRIPT_LENGTH => Len(h) = Len(at)
    BY <1>4, <1>5
  <2> QED
    BY <2>1, <2>2 DEF at, h
<1> QED
  BY <1>5, <1>6, <1>7

LEMMA Versions ==
  ASSUME NEW c \in CoinType
  PROVE  PubkeyAddress[c] \in Byte /\ ScriptAddress[c] \in Byte
<1>1. PubkeyAddress \in [DOMAIN PubkeyAddress -> Byte] /\ ScriptAddress \in [DOMAIN PubkeyAddress -> Byte]
  BY VersionAssumption
<1> QED
  BY <1>1 DEF CoinType

LEMMA HashBytes ==
  ASSUME PrimitivesFit, NEW bytes \in Seq(Byte)
  PROVE  /\ Hash160(bytes) \in Seq(Byte) /\ Len(Hash160(bytes)) = HASH160_LEN
         /\ Sha256d(bytes) \in Hash /\ Sha256d(bytes) \in Seq(Byte) /\ Len(Sha256d(bytes)) = HASH
<1> DEFINE x == Hash160(bytes)
<1>1. x \in [1..HASH160_LEN -> Byte] /\ HASH160_LEN \in Nat
  BY Opcodes DEF PrimitivesFit
<1> HIDE DEF x
<1>2. x \in Seq(Byte) /\ Len(x) = HASH160_LEN
  BY <1>1
<1>3. Sha256d(bytes) \in Hash
  BY DEF PrimitivesFit
<1> QED
  BY <1>2, <1>3, Widths DEF x

LEMMA OneMore ==
  ASSUME NEW b \in Byte, NEW s \in Seq(Byte)
  PROVE  <<b>> \o s \in Seq(Byte) /\ Len(<<b>> \o s) = 1 + Len(s)
OBVIOUS

LEMMA PaidType ==
  ASSUME PrimitivesFit, NEW script \in Seq(Byte), NEW c \in CoinType
  PROVE  BitWAddressFromScriptPubKey(script, c) \in Seq(Byte)
<1> DEFINE at == BitWScriptElements(script)
           h == Heads(script)
           D(n) == BitWScriptData(script, at[n])
           paid == BitWAddressFromScriptPubKey(script, c)
<1>1. /\ Len(h) \in Nat
      /\ Len(h) # 0 => \A n \in 1..Len(h) : at[n] \in 0..(Len(script) - 1)
  BY HeadsFacts
<1>2. ASSUME NEW n \in 1..Len(h)  PROVE D(n) \in Seq(Byte)
  <2>1. at[n] \in 0..(Len(script) - 1)
    BY <1>1
  <2> HIDE DEF at
  <2> QED
    BY <2>1, DataType
<1>3. /\ PaysPubkeyHash(h) => Len(h) = 5
      /\ PaysScriptHash(h) => Len(h) = 3
      /\ PaysPubkey(h) => Len(h) = 2
  <2> HIDE DEF h
  <2> QED
    BY DEF PaysPubkeyHash, PaysScriptHash, PaysPubkey
<1>4. paid = CASE PaysPubkeyHash(h) -> <<PubkeyAddress[c]>> \o D(3)
               [] PaysScriptHash(h) -> <<ScriptAddress[c]>> \o D(2)
               [] PaysPubkey(h) -> <<PubkeyAddress[c]>> \o Hash160(D(1))
               [] OTHER -> <<>>
  BY DEF BitWAddressFromScriptPubKey, AddressPaid
<1> HIDE DEF h, D, paid
<1>5. ASSUME PaysPubkeyHash(h)  PROVE <<PubkeyAddress[c]>> \o D(3) \in Seq(Byte)
  <2>1. 3 \in 1..Len(h)
    <3>1. Len(h) = 5
      BY <1>3, <1>5, Zenon
    <3> QED
      BY <3>1
  <2> QED
    BY <1>2, <2>1, Versions, OneMore
<1>6. ASSUME PaysScriptHash(h)  PROVE <<ScriptAddress[c]>> \o D(2) \in Seq(Byte)
  <2>1. 2 \in 1..Len(h)
    <3>1. Len(h) = 3
      BY <1>3, <1>6, Zenon
    <3> QED
      BY <3>1
  <2> QED
    BY <1>2, <2>1, Versions, OneMore
<1>7. ASSUME PaysPubkey(h)  PROVE <<PubkeyAddress[c]>> \o Hash160(D(1)) \in Seq(Byte)
  <2>1. 1 \in 1..Len(h)
    <3>1. Len(h) = 2
      BY <1>3, <1>7, Zenon
    <3> QED
      BY <3>1
  <2>2. Hash160(D(1)) \in Seq(Byte)
    BY <1>2, <2>1, HashBytes
  <2> QED
    BY <2>2, Versions, OneMore
<1>8. <<>> \in Seq(Byte)
  OBVIOUS
<1> DEFINE x == <<PubkeyAddress[c]>> \o D(3)
           y == <<ScriptAddress[c]>> \o D(2)
           z == <<PubkeyAddress[c]>> \o Hash160(D(1))
<1>9. /\ PaysPubkeyHash(h) => x \in Seq(Byte)
      /\ PaysScriptHash(h) => y \in Seq(Byte)
      /\ PaysPubkey(h) => z \in Seq(Byte)
  BY <1>5, <1>6, <1>7
<1>10. paid = CASE PaysPubkeyHash(h) -> x [] PaysScriptHash(h) -> y [] PaysPubkey(h) -> z
                [] OTHER -> <<>>
  BY <1>4
<1> HIDE DEF x, y, z
<1>11. paid \in Seq(Byte)
  BY <1>8, <1>9, <1>10
<1> QED
  BY <1>11 DEF paid

LEMMA SpentType ==
  ASSUME PrimitivesFit, NEW script \in Seq(Byte), NEW c \in CoinType
  PROVE  BitWAddressFromScriptSig(script, c) \in Seq(Byte)
<1> DEFINE at == BitWScriptElements(script)
           h == Heads(script)
           n == Len(h)
           data == BitWScriptData(script, Last(at))
           pushes == n >= 2 /\ h[n - 1] <= OP_PUSHDATA4 /\ h[n] \in 1..OP_PUSHDATA4
           spent == BitWAddressFromScriptSig(script, c)
           x == <<PubkeyAddress[c]>> \o Hash160(data)
           y == <<ScriptAddress[c]>> \o Hash160(data)
<1>1. /\ n \in Nat
      /\ n # 0 => Len(at) = n /\ \A k \in 1..n : at[k] \in 0..(Len(script) - 1)
  BY HeadsFacts
<1>2. ASSUME pushes  PROVE x \in Seq(Byte) /\ y \in Seq(Byte)
  <2>1. n # 0 /\ n \in 1..n
    BY <1>1, <1>2
  <2>2. Last(at) = at[n] /\ at[n] \in 0..(Len(script) - 1)
    BY <1>1, <2>1 DEF Last
  <2>3. data \in Seq(Byte)
    <3> HIDE DEF at
    <3> QED
      BY <2>2, DataType
  <2> HIDE DEF data
  <2>4. Hash160(data) \in Seq(Byte)
    BY <2>3, HashBytes
  <2> QED
    BY <2>4, Versions, OneMore
<1>3. spent = CASE pushes /\ h[n] \in PUBKEY_LEN -> x
                [] pushes /\ h[n] \notin PUBKEY_LEN /\ data # <<>> -> y
                [] OTHER -> <<>>
  BY DEF BitWAddressFromScriptSig, AddressSpent
<1>4. <<>> \in Seq(Byte)
  OBVIOUS
<1> HIDE DEF x, y, pushes, h, n, data, spent
<1>5. spent \in Seq(Byte)
  BY <1>2, <1>3, <1>4
<1> QED
  BY <1>5 DEF spent

LEMMA PayScript ==
  ASSUME NEW addr \in Seq(Byte), NEW c \in CoinType, Len(addr) = 1 + HASH160_LEN
  PROVE  BitWAddressScriptPubKey(addr, c) \in Script
<1> DEFINE t == Tail(addr)
           p == <<OP_DUP, OP_HASH160, HASH160_LEN>> \o t \o <<OP_EQUALVERIFY, OP_CHECKSIG>>
           q == <<OP_HASH160, HASH160_LEN>> \o t \o <<OP_EQUAL>>
<1>1. HASH160_LEN \in Nat /\ HASH160_LEN \in Byte /\ HASH160_LEN < BYTE /\ BYTE \in Nat /\ BYTE > 3
  BY Opcodes, BitsFacts DEF Byte
<1>2. addr # <<>> /\ t \in Seq(Byte) /\ Len(t) = HASH160_LEN
  BY <1>1
<1>3. /\ OP_DUP \in Byte /\ OP_HASH160 \in Byte /\ OP_EQUALVERIFY \in Byte
      /\ OP_CHECKSIG \in Byte /\ OP_EQUAL \in Byte
  BY Opcodes
<1> HIDE DEF t
<1>4. p \in Seq(Byte) /\ Len(p) = HASH160_LEN + 5
  BY <1>1, <1>2, <1>3
<1>5. q \in Seq(Byte) /\ Len(q) = HASH160_LEN + 3
  BY <1>1, <1>2, <1>3
<1> HIDE DEF p, q
<1>6. HASH160_LEN + 5 < Span(W64)
  <2>1. 2 * Span(1) <= Span(W16) /\ 2 * Span(W16) <= Span(W32) /\ 2 * Span(W32) <= Span(W64)
    BY WidthAssumption, SpanMonotone
  <2>2. Span(1) = BYTE /\ Span(W16) \in Nat /\ Span(W32) \in Nat /\ Span(W64) \in Nat
    BY Widths, SpanStep
  <2> QED
    BY <1>1, <2>1, <2>2
<1>7. Span(W64) \in Nat
  BY Widths, SpanStep
<1>8. <<>> \in Seq(Byte) /\ Len(<<>>) = 0
  OBVIOUS
<1>9. p \in Script /\ q \in Script /\ <<>> \in Script
  BY <1>1, <1>4, <1>5, <1>6, <1>7, <1>8 DEF Script
<1>10. BitWAddressScriptPubKey(addr, c) =
         CASE addr = <<>> -> <<>>
           [] addr # <<>> /\ addr[1] = PubkeyAddress[c] -> p
           [] addr # <<>> /\ addr[1] = ScriptAddress[c] -> q
           [] OTHER -> <<>>
  BY DEF BitWAddressScriptPubKey, p, q, t
<1> QED
  BY <1>9, <1>10

-----------------------------------------------------------------------------
(* What is written of a transaction is bytes.                              *)

LEMMA Concat ==
  /\ <<>> \in Seq(Byte)
  /\ \A x, y \in Seq(Byte) : x \o y \in Seq(Byte) /\ Len(x \o y) = Len(x) + Len(y)
  /\ \A x \in Seq(Byte) : Len(x) \in Nat /\ x \o <<>> = x /\ <<>> \o x = x
OBVIOUS

LEMMA Associative ==
  ASSUME NEW x \in Seq(Byte), NEW y \in Seq(Byte), NEW z \in Seq(Byte)
  PROVE  (x \o y) \o z = x \o (y \o z)
BY ConcatAgain

LEMMA AssociateFive ==
  ASSUME NEW p \in Seq(Byte), NEW a \in Seq(Byte), NEW b \in Seq(Byte), NEW c \in Seq(Byte),
         NEW d \in Seq(Byte), NEW e \in Seq(Byte)
  PROVE  p \o (a \o b \o c \o d \o e) = p \o a \o b \o c \o d \o e
<1>1. a \o b \in Seq(Byte)
  BY Concat
<1>2. a \o b \o c \in Seq(Byte)
  BY <1>1, Concat
<1>3. a \o b \o c \o d \in Seq(Byte)
  BY <1>2, Concat
<1> DEFINE ab == a \o b
           abc == ab \o c
           abcd == abc \o d
<1>4. p \o ab = p \o a \o b
  OBVIOUS
<1>5. p \o (ab \o c) = (p \o ab) \o c
  <2>1. ab \in Seq(Byte)
    BY <1>1
  <2> HIDE DEF ab
  <2> QED
    BY <2>1
<1>6. p \o (abc \o d) = (p \o abc) \o d
  <2>1. abc \in Seq(Byte)
    BY <1>2
  <2> HIDE DEF abc
  <2> QED
    BY <2>1
<1>7. p \o (abcd \o e) = (p \o abcd) \o e
  <2>1. abcd \in Seq(Byte)
    BY <1>3
  <2> HIDE DEF abcd
  <2> QED
    BY <2>1
<1> QED
  BY <1>4, <1>5, <1>6, <1>7

LEMMA ListType ==
  ASSUME NEW n \in Nat, NEW F \in [1..n -> Seq(Byte)]
  PROVE  F \in Seq(Seq(Byte)) /\ Len(F) = n /\ FlattenSeq(F) \in Seq(Byte)
<1> DEFINE B == Seq(Byte)
<1> HIDE DEF B
<1>1. F \in [1..n -> B]
  BY DEF B
<1>2. F \in Seq(B) /\ Len(F) = n
  BY <1>1
<1> QED
  BY <1>2, FlattenType DEF B

LEMMA InputType ==
  ASSUME NEW in \in Input
  PROVE  /\ in.txHash \in Hash /\ in.txHash \in Seq(Byte) /\ Len(in.txHash) = HASH
         /\ in.index \in Uint(W32) /\ in.sequence \in Uint(W32) /\ in.amount \in Uint(W64)
         /\ in.script \in Script /\ in.script \in Seq(Byte) /\ in.address \in Seq(Byte)
         /\ in.signature # NULL => in.signature = <<in.signature[1]>> /\ in.signature[1] \in Script
         /\ [in EXCEPT !.amount = 0] \in Input
         /\ [[in EXCEPT !.amount = 0] EXCEPT !.sequence = 0] \in Input
<1>1. /\ in.txHash \in Hash /\ in.index \in Uint(W32) /\ in.sequence \in Uint(W32)
      /\ in.amount \in Uint(W64) /\ in.script \in Script /\ in.address \in Seq(Byte)
      /\ in.signature \in {NULL} \cup {<<s>> : s \in Script}
  BY DEF Input
<1>2. 0 \in Uint(W32) /\ 0 \in Uint(W64)
  BY Widths
<1>3. [in EXCEPT !.amount = 0] \in Input /\ [[in EXCEPT !.amount = 0] EXCEPT !.sequence = 0] \in Input
  BY <1>2 DEF Input
<1>4. in.signature # NULL => in.signature = <<in.signature[1]>> /\ in.signature[1] \in Script
  BY <1>1
<1>5. in.script \in Seq(Byte)
  BY <1>1 DEF Script
<1> QED
  BY <1>1, <1>3, <1>4, <1>5, Widths

LEMMA OutputType ==
  ASSUME NEW out \in Output
  PROVE  /\ out.amount \in Uint(W64) /\ out.script \in Script /\ out.script \in Seq(Byte)
         /\ out.address \in Seq(Byte)
BY DEF Output, Script

LEMMA ScriptLength ==
  ASSUME NEW s \in Script
  PROVE  /\ s \in Seq(Byte) /\ Len(s) \in Nat /\ Len(s) \in 0..(Span(W64) - 1)
         /\ BitWVarIntSet(Len(s)) \in Seq(Byte)
         /\ Len(BitWVarIntSet(Len(s))) = BitWVarIntSize(Len(s)) /\ BitWVarIntSize(Len(s)) \in Nat
<1>1. s \in Seq(Byte) /\ Len(s) \in Nat /\ Len(s) < Span(W64) /\ Span(W64) \in Nat
  BY Widths, SpanStep DEF Script
<1>2. Len(s) \in 0..(Span(W64) - 1)
  BY <1>1
<1> QED
  BY <1>1, <1>2, VarIntBytes DEF BitWVarIntSize

LEMMA OutpointType ==
  ASSUME NEW in \in Input
  PROVE  Outpoint(in) \in Seq(Byte) /\ Len(Outpoint(in)) = HASH + W32
<1>1. in.txHash \in Seq(Byte) /\ Len(in.txHash) = HASH /\ in.index \in Uint(W32)
  BY InputType
<1>2. LE(in.index, W32) \in Seq(Byte) /\ Len(LE(in.index, W32)) = W32
  BY <1>1, Widths, LEType
<1> QED
  BY <1>1, <1>2, Concat DEF Outpoint

LEMMA InputDataType ==
  ASSUME NEW in \in Input, NEW script \in Script
  PROVE  /\ TxInputData(in, script) \in Seq(Byte)
         /\ in.amount = 0 =>
              Len(TxInputData(in, script)) =
                HASH + 2 * W32 + BitWVarIntSize(Len(script)) + Len(script)
<1> DEFINE a == Outpoint(in)
           b == BitWVarIntSet(Len(script))
           c == IF in.amount # 0 THEN LE(in.amount, W64) ELSE <<>>
           d == LE(in.sequence, W32)
           B == Seq(Byte)
<1>1. a \in B /\ Len(a) = HASH + W32
  BY OutpointType
<1>2. /\ b \in B /\ Len(b) = BitWVarIntSize(Len(script)) /\ script \in B
      /\ BitWVarIntSize(Len(script)) \in Nat
  BY ScriptLength
<1>3. c \in B /\ (in.amount = 0 => c = <<>>)
  BY InputType, Widths, LEType, Concat
<1>4. d \in B /\ Len(d) = W32
  BY InputType, Widths, LEType
<1>5. TxInputData(in, script) = a \o b \o script \o c \o d
  BY DEF TxInputData
<1>6. HASH \in Nat /\ W32 \in Nat
  BY Widths
<1>7. /\ \A x, y \in B : x \o y \in B /\ Len(x \o y) = Len(x) + Len(y)
      /\ \A x \in B : Len(x) \in Nat /\ x \o <<>> = x
  BY Concat
<1> HIDE DEF a, b, c, d, B
<1> DEFINE ab == a \o b
           abs == ab \o script
           abc == abs \o c
<1>8. ab \in B /\ Len(ab) = HASH + W32 + BitWVarIntSize(Len(script))
  BY <1>1, <1>2, <1>7
<1> HIDE DEF ab
<1>9. abs \in B /\ Len(abs) = HASH + W32 + BitWVarIntSize(Len(script)) + Len(script)
  BY <1>2, <1>7, <1>8
<1> HIDE DEF abs
<1>10. abc \in B /\ (in.amount = 0 => abc = abs)
  BY <1>3, <1>7, <1>9
<1> HIDE DEF abc
<1>11. abc \o d \in B /\ Len(abc \o d) = Len(abc) + W32
  BY <1>4, <1>7, <1>10
<1>12. in.amount = 0 => Len(abc \o d) = HASH + 2 * W32 + BitWVarIntSize(Len(script)) + Len(script)
  <2>1. Len(script) \in Nat
    BY <1>2, <1>7
  <2> QED
    BY <1>2, <1>6, <1>9, <1>10, <1>11, <2>1
<1>13. TxInputData(in, script) = abc \o d
  BY <1>5 DEF abc, abs, ab
<1> QED
  BY <1>11, <1>12, <1>13 DEF B

LEMMA OutputDataType ==
  ASSUME NEW out \in Output
  PROVE  OutputData(out) \in Seq(Byte) /\ Len(OutputData(out)) = OutputSize(out) /\ OutputSize(out) \in Nat
<1> DEFINE a == LE(out.amount, W64)
           s == out.script
           b == BitWVarIntSet(Len(s))
           B == Seq(Byte)
<1>1. a \in B /\ Len(a) = W64 /\ s \in Script /\ W64 \in Nat
  BY OutputType, Widths, LEType
<1>2. b \in B /\ Len(b) = BitWVarIntSize(Len(s)) /\ s \in B /\ Len(s) \in Nat /\ Len(b) \in Nat
  BY <1>1, ScriptLength, Concat
<1>3. OutputData(out) = a \o b \o s /\ OutputSize(out) = W64 + BitWVarIntSize(Len(s)) + Len(s)
  BY DEF OutputData, OutputSize
<1>4. \A x, y \in B : x \o y \in B /\ Len(x \o y) = Len(x) + Len(y)
  BY Concat
<1> HIDE DEF a, b, s, B
<1>5. a \o b \in B /\ Len(a \o b) = W64 + BitWVarIntSize(Len(s))
  BY <1>1, <1>2, <1>4
<1>6. (a \o b) \o s \in B /\ Len((a \o b) \o s) = W64 + BitWVarIntSize(Len(s)) + Len(s)
  BY <1>2, <1>4, <1>5
<1> QED
  BY <1>1, <1>2, <1>3, <1>6 DEF B

(* A transaction whose counters are numbers of W64 bytes.                  *)
Countable(t) == t \in Tx /\ Len(t.inputs) < Span(W64) /\ Len(t.outputs) < Span(W64)

LEMMA TxType ==
  ASSUME NEW t, Countable(t)
  PROVE  /\ t.txHash \in Hash /\ t.version \in Uint(W32) /\ t.lockTime \in Uint(W32)
         /\ t.inputs \in Seq(Input) /\ t.outputs \in Seq(Output)
         /\ Len(t.inputs) \in Nat /\ DOMAIN t.inputs = 1..Len(t.inputs)
         /\ Len(t.outputs) \in Nat /\ DOMAIN t.outputs = 1..Len(t.outputs)
         /\ \A n \in 1..Len(t.inputs) : t.inputs[n] \in Input
         /\ \A n \in 1..Len(t.outputs) : t.outputs[n] \in Output
         /\ Len(t.inputs) \in 0..(Span(W64) - 1) /\ Len(t.outputs) \in 0..(Span(W64) - 1)
<1>1. /\ t.txHash \in Hash /\ t.version \in Uint(W32) /\ t.lockTime \in Uint(W32)
      /\ t.inputs \in Seq(Input) /\ t.outputs \in Seq(Output)
  BY DEF Countable, Tx
<1>2. ASSUME NEW S, NEW s \in Seq(S)
      PROVE  Len(s) \in Nat /\ DOMAIN s = 1..Len(s) /\ \A n \in 1..Len(s) : s[n] \in S
  OBVIOUS
<1>3. /\ Len(t.inputs) \in Nat /\ DOMAIN t.inputs = 1..Len(t.inputs)
      /\ \A n \in 1..Len(t.inputs) : t.inputs[n] \in Input
  BY <1>1, <1>2
<1>4. /\ Len(t.outputs) \in Nat /\ DOMAIN t.outputs = 1..Len(t.outputs)
      /\ \A n \in 1..Len(t.outputs) : t.outputs[n] \in Output
  BY <1>1, <1>2
<1>5. Span(W64) \in Nat /\ Len(t.inputs) < Span(W64) /\ Len(t.outputs) < Span(W64)
  BY Widths, SpanStep DEF Countable
<1>6. Len(t.inputs) \in 0..(Span(W64) - 1) /\ Len(t.outputs) \in 0..(Span(W64) - 1)
  BY <1>3, <1>4, <1>5
<1> QED
  BY <1>1, <1>3, <1>4, <1>6

LEMMA ListsType ==
  ASSUME NEW t, Countable(t)
  PROVE  /\ AllOutpoints(t) \in Seq(Byte) /\ AllSequences(t) \in Seq(Byte)
         /\ AllOutputs(t.outputs) \in Seq(Byte)
<1> DEFINE n == Len(t.inputs)
           m == Len(t.outputs)
           F == [k \in 1..n |-> Outpoint(t.inputs[k])]
           G == [k \in 1..n |-> LE(t.inputs[k].sequence, W32)]
           H == [k \in 1..m |-> OutputData(t.outputs[k])]
<1>1. n \in Nat /\ m \in Nat /\ DOMAIN t.inputs = 1..n /\ DOMAIN t.outputs = 1..m
  BY TxType
<1>2. F \in [1..n -> Seq(Byte)]
  BY TxType, OutpointType
<1>3. G \in [1..n -> Seq(Byte)]
  BY TxType, InputType, LEType, Widths
<1>4. H \in [1..m -> Seq(Byte)]
  BY TxType, OutputDataType
<1>5. /\ AllOutpoints(t) = FlattenSeq(F) /\ AllSequences(t) = FlattenSeq(G)
      /\ AllOutputs(t.outputs) = FlattenSeq(H)
  BY <1>1 DEF AllOutpoints, AllSequences, AllOutputs
<1> HIDE DEF F, G, H, n, m
<1>6. FlattenSeq(F) \in Seq(Byte) /\ FlattenSeq(G) \in Seq(Byte) /\ FlattenSeq(H) \in Seq(Byte)
  BY <1>1, <1>2, <1>3, <1>4, ListType
<1> QED
  BY <1>5, <1>6

-----------------------------------------------------------------------------
(* What is signed is what the protocol says.                               *)

(* The low bits of the hash types.                                         *)
LEMMA HashTypeFacts ==
  ASSUME NEW hashType \in HashTypes
  PROVE  hashType \in Nat /\ SigHash(hashType) \in {SIGHASH_ALL, SIGHASH_NONE, SIGHASH_SINGLE}
<1> DEFINE F == SIGHASH_FORKID
           q == hashType \div F
           r == hashType % F
<1>1. F \in Nat /\ SIGHASH_ANYONECANPAY = 2 * F /\ ForkIds \subseteq {0, F}
  BY SighashAssumption
<1>2. \A w \in {SIGHASH_ALL, SIGHASH_NONE, SIGHASH_SINGLE} : w \in 1..(F - 1)
  BY SighashAssumption
<1> HIDE DEF F
<1>3. PICK which \in {SIGHASH_ALL, SIGHASH_NONE, SIGHASH_SINGLE}, fork \in ForkIds,
           any \in {0, SIGHASH_ANYONECANPAY} : hashType = which + fork + any
  BY DEF HashTypes
<1>4. which \in 1..(F - 1)
  BY <1>2
<1>5. fork \in {0, F} /\ any \in {0, 2 * F}
  BY <1>1
<1>6. PICK m \in 0..3 : hashType = F * m + which
  <2>1. fork + any \in {F * 0, F * 1, F * 2, F * 3}
    BY <1>1, <1>5
  <2>2. \E m \in 0..3 : fork + any = F * m
    BY <2>1
  <2>3. fork \in Nat /\ any \in Nat /\ which \in Nat
    BY <1>1, <1>4, <1>5
  <2> QED
    BY <1>1, <1>3, <2>2, <2>3
<1>7. hashType \in Nat /\ F > 0
  BY <1>1, <1>4, <1>6
<1>8. r \in 0..(F - 1) /\ q \in Nat /\ hashType = F * q + r
  BY <1>1, <1>7, ModFacts
<1> HIDE DEF q, r
<1>9. q = m /\ r = which
  <2>1. q \in Int /\ m \in Int /\ which \in 0..(F - 1) /\ F * q + r = F * m + which
    BY <1>1, <1>4, <1>6, <1>8
  <2> QED
    BY <1>1, <1>7, <1>8, <2>1, DivUnique
<1> QED
  BY <1>7, <1>9 DEF SigHash, r, F

(* An input whose amount is not written.                                   *)
LEMMA BareData ==
  ASSUME NEW in \in Input, NEW s \in Script
  PROVE  LET bare == [in EXCEPT !.amount = 0]
         IN /\ TxInputData(bare, s) =
                 Outpoint(in) \o BitWVarIntSet(Len(s)) \o s \o LE(in.sequence, W32)
            /\ TxInputData([bare EXCEPT !.sequence = 0], s) =
                 Outpoint(in) \o BitWVarIntSet(Len(s)) \o s \o LE(0, W32)
<1> DEFINE bare == [in EXCEPT !.amount = 0]
           ended == [bare EXCEPT !.sequence = 0]
           x == Outpoint(in) \o BitWVarIntSet(Len(s)) \o s
<1>1. /\ bare.amount = 0 /\ bare.sequence = in.sequence
      /\ bare.txHash = in.txHash /\ bare.index = in.index
      /\ ended.amount = 0 /\ ended.sequence = 0
      /\ ended.txHash = in.txHash /\ ended.index = in.index
  BY DEF Input
<1> HIDE DEF bare, ended
<1>2. Outpoint(bare) = Outpoint(in) /\ Outpoint(ended) = Outpoint(in)
  BY <1>1 DEF Outpoint
<1>3. x \o <<>> = x
  <2>1. x \in Seq(Byte)
    <3>1. Outpoint(in) \in Seq(Byte) /\ BitWVarIntSet(Len(s)) \in Seq(Byte) /\ s \in Seq(Byte)
      BY OutpointType, ScriptLength
    <3>2. Outpoint(in) \o BitWVarIntSet(Len(s)) \in Seq(Byte)
      BY <3>1, Concat
    <3> QED
      BY <3>1, <3>2, Concat
  <2> HIDE DEF x
  <2> QED
    BY <2>1, Concat
<1>4. /\ TxInputData(bare, s) = x \o <<>> \o LE(in.sequence, W32)
      /\ TxInputData(ended, s) = x \o <<>> \o LE(0, W32)
  BY <1>1, <1>2 DEF TxInputData
<1> HIDE DEF x
<1>5. /\ TxInputData(bare, s) = x \o LE(in.sequence, W32)
      /\ TxInputData(ended, s) = x \o LE(0, W32)
  BY <1>3, <1>4
<1> QED
  BY <1>5 DEF x, bare, ended

LEMMA LenOf ==
  ASSUME NEW n \in Nat, NEW F, F = [k \in 1..n |-> F[k]]
  PROVE  Len(F) = n /\ DOMAIN F = 1..n
<1> DEFINE X == {F[k] : k \in 1..n}
<1>1. F \in [1..n -> X]
  OBVIOUS
<1> HIDE DEF X
<1>2. F \in Seq(X) /\ Len(F) = n
  BY <1>1
<1> QED
  BY <1>1, <1>2

(* The inputs, and the outputs, as the two forms of the digest have them.  *)
StruckInput(t, n, i, hashType) ==
  [t.inputs[n] EXCEPT
     !.script = IF n = i THEN @ ELSE <<>>,
     !.sequence = IF n # i /\ SigHash(hashType) \in {SIGHASH_NONE, SIGHASH_SINGLE} THEN 0 ELSE @]
InputBytes(in) ==
  Outpoint(in) \o BitWVarIntSet(Len(in.script)) \o in.script \o LE(in.sequence, W32)

LEMMA InputMatches ==
  ASSUME NEW t, Countable(t), NEW n \in 1..Len(t.inputs), NEW i \in 1..Len(t.inputs),
         NEW hashType
  PROVE  /\ InputAs(t, n, i, hashType) = InputBytes(StruckInput(t, n, i, hashType))
         /\ InputAs(t, n, i, hashType) \in Seq(Byte)
<1> DEFINE in == t.inputs[n]
           u == StruckInput(t, n, i, hashType)
           ends == SigHash(hashType) \in {SIGHASH_NONE, SIGHASH_SINGLE}
           bare == [in EXCEPT !.amount = 0]
           ended == [bare EXCEPT !.sequence = 0]
<1>1. in \in Input /\ i # SIZE_MAX
  BY TxType DEF SIZE_MAX
<1>2. /\ u.txHash = in.txHash /\ u.index = in.index
      /\ u.script = IF n = i THEN in.script ELSE <<>>
      /\ u.sequence = IF n # i /\ ends THEN 0 ELSE in.sequence
  BY <1>1 DEF StruckInput, Input
<1>3. InputAs(t, n, i, hashType) =
        IF n = i THEN TxInputData(bare, in.script)
        ELSE TxInputData(IF ends THEN ended ELSE bare, <<>>)
  BY <1>1 DEF InputAs
<1>4. in.script \in Script /\ <<>> \in Script /\ bare \in Input /\ ended \in Input
  <2>1. <<>> \in Script
    <3>1. Len(<<>>) = 0 /\ <<>> \in Seq(Byte)
      OBVIOUS
    <3>2. Span(W64) \in Nat /\ Span(W64) > 0
      BY Widths, SpanStep
    <3> QED
      BY <3>1, <3>2 DEF Script
  <2> QED
    BY <1>1, <2>1, InputType
<1>5. Outpoint(u) = Outpoint(in)
  BY <1>2 DEF Outpoint
<1> HIDE DEF u, in, ends
<1> DEFINE B(s, q) == Outpoint(in) \o BitWVarIntSet(Len(s)) \o s \o LE(q, W32)
<1>6. InputBytes(u) = B(u.script, u.sequence)
  BY <1>5 DEF InputBytes
<1>7. /\ TxInputData(bare, in.script) = B(in.script, in.sequence)
      /\ TxInputData(bare, <<>>) = B(<<>>, in.sequence)
      /\ TxInputData(ended, <<>>) = B(<<>>, 0)
  BY <1>1, <1>4, BareData
<1> HIDE DEF bare, ended, B
<1>8. CASE n = i
  <2>1. InputAs(t, n, i, hashType) = InputBytes(u)
    BY <1>2, <1>3, <1>6, <1>7, <1>8
  <2> QED
    BY <1>3, <1>4, <1>8, <2>1, InputDataType DEF u
<1>9. CASE n # i /\ ends
  <2>1. InputAs(t, n, i, hashType) = InputBytes(u)
    BY <1>2, <1>3, <1>6, <1>7, <1>9
  <2> QED
    BY <1>3, <1>4, <1>9, <2>1, InputDataType DEF u
<1>10. CASE n # i /\ ~ends
  <2>1. InputAs(t, n, i, hashType) = InputBytes(u)
    BY <1>2, <1>3, <1>6, <1>7, <1>10
  <2> QED
    BY <1>3, <1>4, <1>10, <2>1, InputDataType DEF u
<1> QED
  BY <1>8, <1>9, <1>10

(* What is left of the inputs and outputs that are signed.                 *)
StruckInputs(t, i, hashType) ==
  IF IsSet(SIGHASH_ANYONECANPAY, hashType) THEN <<StruckInput(t, i, i, hashType)>>
  ELSE [n \in 1..Len(t.inputs) |-> StruckInput(t, n, i, hashType)]
Blank == [amount |-> Span(W64) - 1, script |-> <<>>]
StruckOutputs(t, i, hashType) ==
  CASE SigHash(hashType) = SIGHASH_NONE -> <<>>
    [] SigHash(hashType) = SIGHASH_SINGLE ->
         [n \in 1..i |-> IF n < i THEN Blank ELSE t.outputs[n]]
    [] OTHER -> t.outputs

LEMMA StruckFields ==
  ASSUME NEW t, Countable(t), NEW i \in 1..Len(t.inputs), NEW hashType \in HashTypes
  PROVE  LET u == Struck(t, i, hashType)
         IN /\ u.version = t.version /\ u.lockTime = t.lockTime
            /\ u.inputs = StruckInputs(t, i, hashType)
            /\ u.outputs = StruckOutputs(t, i, hashType)
<1> DEFINE ins == [n \in DOMAIN t.inputs |-> StruckInput(t, n, i, hashType)]
           left == IF IsSet(SIGHASH_ANYONECANPAY, hashType) THEN <<ins[i]>> ELSE ins
           first == [n \in 1..i |-> IF n < i THEN Blank ELSE t.outputs[n]]
           which == SigHash(hashType)
           w == [t EXCEPT !.inputs = left]
           u == Struck(t, i, hashType)
<1>1. /\ DOMAIN t.inputs = 1..Len(t.inputs)
      /\ which \in {SIGHASH_ALL, SIGHASH_NONE, SIGHASH_SINGLE}
  BY TxType, HashTypeFacts
<1>2. SIGHASH_ALL # SIGHASH_NONE /\ SIGHASH_ALL # SIGHASH_SINGLE /\ SIGHASH_NONE # SIGHASH_SINGLE
  BY SighashAssumption
<1>3. left = StruckInputs(t, i, hashType)
  BY <1>1 DEF StruckInputs
<1>4. u = [w EXCEPT !.outputs = CASE which = SIGHASH_NONE -> <<>>
                                  [] which = SIGHASH_SINGLE -> first
                                  [] OTHER -> @]
  BY DEF Struck, StruckInput, Blank
<1> HIDE DEF left, u, which
<1>5. /\ w.version = t.version /\ w.lockTime = t.lockTime /\ w.inputs = left /\ w.outputs = t.outputs
      /\ DOMAIN w = {"txHash", "version", "inputs", "outputs", "lockTime"}
  BY DEF Countable, Tx
<1> HIDE DEF w
<1>6. /\ u.version = w.version /\ u.lockTime = w.lockTime /\ u.inputs = w.inputs
      /\ u.outputs = CASE which = SIGHASH_NONE -> <<>>
                       [] which = SIGHASH_SINGLE -> first
                       [] OTHER -> w.outputs
  BY <1>4, <1>5
<1>7. u.outputs = StruckOutputs(t, i, hashType)
  BY <1>1, <1>2, <1>5, <1>6 DEF StruckOutputs, which
<1> QED
  BY <1>3, <1>5, <1>6, <1>7 DEF u

(* The inputs that are written for one of them.                            *)
Shown(t, i, hashType) ==
  IF IsSet(SIGHASH_ANYONECANPAY, hashType) THEN <<i>> ELSE [n \in DOMAIN t.inputs |-> n]
ShownBytes(t, i, hashType) ==
  [n \in DOMAIN Shown(t, i, hashType) |-> InputAs(t, Shown(t, i, hashType)[n], i, hashType)]
StruckBytes(t, i, hashType) ==
  [n \in DOMAIN StruckInputs(t, i, hashType) |-> InputBytes(StruckInputs(t, i, hashType)[n])]

LEMMA StruckInputsWritten ==
  ASSUME NEW t, Countable(t), NEW i \in 1..Len(t.inputs), NEW hashType \in HashTypes
  PROVE  /\ Len(StruckInputs(t, i, hashType)) = Len(Shown(t, i, hashType))
         /\ Len(Shown(t, i, hashType)) \in 0..(Span(W64) - 1)
         /\ StruckBytes(t, i, hashType) = ShownBytes(t, i, hashType)
         /\ FlattenSeq(ShownBytes(t, i, hashType)) \in Seq(Byte)
<1> DEFINE any == IsSet(SIGHASH_ANYONECANPAY, hashType)
           shown == IF any THEN <<i>> ELSE [n \in DOMAIN t.inputs |-> n]
           left == StruckInputs(t, i, hashType)
           bytes == [n \in DOMAIN shown |-> InputAs(t, shown[n], i, hashType)]
           m == IF any THEN 1 ELSE Len(t.inputs)
           at(n) == IF any THEN i ELSE n
<1>1. /\ Len(t.inputs) \in Nat /\ DOMAIN t.inputs = 1..Len(t.inputs)
      /\ Len(t.inputs) \in 0..(Span(W64) - 1)
  BY TxType
<1>2. m \in Nat /\ m \in 0..(Span(W64) - 1)
  <2>0. Span(W64) \in Nat
    BY Widths, SpanStep
  <2>1. Span(W64) \in Nat /\ Len(t.inputs) >= 1 /\ Len(t.inputs) <= Span(W64) - 1
    BY <1>1, <2>0
  <2>2. 1 \in 0..(Span(W64) - 1)
    BY <1>1, <2>1
  <2> QED
    BY <1>1, <2>2
<1>3. /\ Len(shown) = m /\ DOMAIN shown = 1..m
      /\ \A n \in 1..m : shown[n] = at(n) /\ at(n) \in 1..Len(t.inputs)
  <2>1. CASE any
    BY <2>1
  <2>2. CASE ~any
    <3>1. shown = [n \in 1..m |-> n]
      BY <1>1, <2>2
    <3> HIDE DEF shown, m
    <3>2. Len(shown) = m /\ DOMAIN shown = 1..m
      BY <1>2, <3>1, LenOf
    <3>3. \A n \in 1..m : shown[n] = n
      BY <3>1
    <3> QED
      BY <2>2, <3>2, <3>3 DEF m
  <2> QED
    BY <2>1, <2>2
<1>4. /\ Len(left) = m /\ DOMAIN left = 1..m
      /\ \A n \in 1..m : left[n] = StruckInput(t, at(n), i, hashType)
  <2>1. CASE any
    <3>1. left = <<StruckInput(t, i, i, hashType)>>
      BY <2>1 DEF StruckInputs
    <3> HIDE DEF left
    <3> QED
      BY <2>1, <3>1
  <2>2. CASE ~any
    <3>1. left = [n \in 1..m |-> StruckInput(t, n, i, hashType)]
      BY <2>2 DEF StruckInputs
    <3> HIDE DEF left, m
    <3>2. Len(left) = m /\ DOMAIN left = 1..m
      BY <1>2, <3>1, LenOf
    <3>3. \A n \in 1..m : left[n] = StruckInput(t, n, i, hashType)
      BY <3>1
    <3> QED
      BY <2>2, <3>2, <3>3
  <2> QED
    BY <2>1, <2>2
<1> HIDE DEF shown, left, m, at, any
<1>5. \A n \in 1..m : /\ InputAs(t, at(n), i, hashType) = InputBytes(left[n])
                      /\ InputAs(t, at(n), i, hashType) \in Seq(Byte)
  BY <1>3, <1>4, InputMatches
<1>6. bytes = [n \in 1..m |-> InputAs(t, at(n), i, hashType)]
  BY <1>3
<1>7. [n \in DOMAIN left |-> InputBytes(left[n])] = bytes
  BY <1>4, <1>5, <1>6
<1>8. bytes \in [1..m -> Seq(Byte)]
  BY <1>5, <1>6
<1> HIDE DEF bytes
<1>9. FlattenSeq(bytes) \in Seq(Byte)
  BY <1>2, <1>8, ListType
<1> QED
  BY <1>2, <1>3, <1>4, <1>7, <1>9 DEF shown, left, bytes, any, Shown, ShownBytes, StruckBytes

(* The outputs as they are written for an input.                           *)
OutputsFor(t, i, hashType) ==
  CASE SigHash(hashType) \notin {SIGHASH_SINGLE, SIGHASH_NONE} ->
         BitWVarIntSet(Len(t.outputs)) \o AllOutputs(t.outputs)
    [] SigHash(hashType) = SIGHASH_SINGLE /\ i \in DOMAIN t.outputs ->
         BitWVarIntSet(i)
           \o FlattenSeq([n \in 1..(i - 1) |-> LE(Span(W64) - 1, W64) \o BitWVarIntSet(0)])
           \o OutputData(t.outputs[i])
    [] OTHER -> BitWVarIntSet(0)

LEMMA BlankWritten ==
  /\ OutputData(Blank) = LE(Span(W64) - 1, W64) \o BitWVarIntSet(0)
  /\ OutputData(Blank) \in Seq(Byte) /\ BitWVarIntSet(0) \in Seq(Byte)
<1>1. Span(W64) \in Nat /\ Span(W64) > 0 /\ W64 \in Nat
  BY Widths, SpanStep
<1>2. Span(W64) - 1 \in Uint(W64) /\ 0 \in 0..(Span(W64) - 1)
  BY <1>1 DEF Uint
<1>3. LE(Span(W64) - 1, W64) \in Seq(Byte) /\ BitWVarIntSet(0) \in Seq(Byte)
  BY <1>1, <1>2, LEType, VarIntBytes
<1> DEFINE x == LE(Span(W64) - 1, W64) \o BitWVarIntSet(0)
<1>4. x \in Seq(Byte)
  BY <1>3, Concat
<1>5. OutputData(Blank) = x \o <<>>
  <2>1. Len(<<>>) = 0
    OBVIOUS
  <2> QED
    BY <2>1 DEF OutputData, Blank
<1> HIDE DEF x
<1>6. x \o <<>> = x
  BY <1>4, Concat
<1> QED
  BY <1>3, <1>4, <1>5, <1>6 DEF x

LEMMA StruckOutputsWritten ==
  ASSUME NEW t, Countable(t), NEW i \in 1..Len(t.inputs), NEW hashType \in HashTypes,
         SigHash(hashType) = SIGHASH_SINGLE => i \in DOMAIN t.outputs
  PROVE  LET left == StruckOutputs(t, i, hashType)
             count == BitWVarIntSet(Len(left))
             bytes == FlattenSeq([n \in DOMAIN left |-> OutputData(left[n])])
         IN /\ OutputsFor(t, i, hashType) = count \o bytes
            /\ count \in Seq(Byte) /\ bytes \in Seq(Byte)
<1> DEFINE which == SigHash(hashType)
           left == StruckOutputs(t, i, hashType)
           all == [n \in DOMAIN left |-> OutputData(left[n])]
           count == BitWVarIntSet(Len(left))
           bytes == FlattenSeq(all)
           m == Len(t.outputs)
<1>1. which \in {SIGHASH_ALL, SIGHASH_NONE, SIGHASH_SINGLE}
  BY HashTypeFacts
<1>2. SIGHASH_ALL # SIGHASH_NONE /\ SIGHASH_ALL # SIGHASH_SINGLE /\ SIGHASH_NONE # SIGHASH_SINGLE
  BY SighashAssumption
<1>3. /\ m \in Nat /\ DOMAIN t.outputs = 1..m /\ m \in 0..(Span(W64) - 1)
      /\ \A n \in 1..m : t.outputs[n] \in Output
  BY TxType
<1> HIDE DEF m
<1>4. CASE which = SIGHASH_ALL
  <2>1. left = t.outputs
    BY <1>2, <1>4 DEF StruckOutputs
  <2>2. OutputsFor(t, i, hashType) = count \o AllOutputs(t.outputs)
    BY <1>2, <1>4, <2>1 DEF OutputsFor
  <2>3. AllOutputs(t.outputs) = bytes
    BY <2>1 DEF AllOutputs
  <2>4. count \in Seq(Byte) /\ bytes \in Seq(Byte)
    BY <1>3, <2>1, <2>3, VarIntBytes, ListsType DEF m
  <2> QED
    BY <2>2, <2>3, <2>4
<1>5. CASE which = SIGHASH_NONE
  <2>1. left = <<>>
    BY <1>2, <1>5 DEF StruckOutputs
  <2> HIDE DEF left
  <2>2. Len(left) = 0 /\ all \in [1..0 -> Seq(Byte)]
    BY <2>1
  <2> HIDE DEF all
  <2>3. all \in Seq(Seq(Byte)) /\ Len(all) = 0
    BY <2>2, ListType
  <2>4. bytes = <<>>
    BY <2>3, FlattenFew
  <2>5. count = BitWVarIntSet(0)
    BY <2>2
  <2>6. count \in Seq(Byte) /\ bytes \in Seq(Byte) /\ count \o bytes = count
    BY <2>4, <2>5, BlankWritten, Concat
  <2>7. OutputsFor(t, i, hashType) = BitWVarIntSet(0)
    BY <1>2, <1>5 DEF OutputsFor
  <2> QED
    BY <2>5, <2>6, <2>7 DEF left, all
<1>6. CASE which = SIGHASH_SINGLE
  <2>1. i \in 1..m /\ i \in Nat
    BY <1>3, <1>6
  <2> DEFINE k == i - 1
             first == [n \in 1..i |-> IF n < i THEN Blank ELSE t.outputs[n]]
  <2>2. left = first
    BY <1>2, <1>6 DEF StruckOutputs
  <2>3. Len(left) = i /\ DOMAIN left = 1..i
    BY <2>1, <2>2, LenOf
  <2> HIDE DEF left
  <2>4. /\ \A n \in 1..k : OutputData(left[n]) = OutputData(Blank)
        /\ OutputData(left[i]) = OutputData(t.outputs[i])
        /\ \A n \in 1..i : OutputData(left[n]) \in Seq(Byte)
    <3>1. \A n \in 1..i : left[n] = IF n < i THEN Blank ELSE t.outputs[n]
      BY <2>2
    <3>2. \A n \in 1..k : n \in 1..i /\ n < i
      BY <2>1
    <3>3. i \in 1..i /\ ~(i < i) /\ \A n \in 1..i : ~(n < i) => n = i
      BY <2>1
    <3>4. OutputData(t.outputs[i]) \in Seq(Byte)
      BY <1>3, <2>1, OutputDataType
    <3>5. \A n \in 1..k : left[n] = Blank
      BY <3>1, <3>2, Zenon
    <3>6. left[i] = t.outputs[i]
      BY <3>1, <3>3, Zenon
    <3>7. \A n \in 1..i : left[n] = Blank \/ left[n] = t.outputs[i]
      BY <3>1, <3>3, Zenon
    <3> QED
      BY <3>4, <3>5, <3>6, <3>7, BlankWritten
  <2>5. all = [n \in 1..i |-> OutputData(left[n])]
    BY <2>3
  <2>6. k \in Nat /\ k + 1 = i
    BY <2>1
  <2> HIDE DEF k
  <2>7. all \in [1..(k + 1) -> Seq(Byte)]
    BY <2>4, <2>5, <2>6
  <2> DEFINE blanks == [n \in 1..k |-> LE(Span(W64) - 1, W64) \o BitWVarIntSet(0)]
  <2>8. [n \in 1..k |-> all[n]] = blanks
    <3>1. \A n \in 1..k : n \in 1..i
      BY <2>6
    <3>2. \A n \in 1..k : all[n] = LE(Span(W64) - 1, W64) \o BitWVarIntSet(0)
      BY <2>4, <2>5, <3>1, BlankWritten
    <3> QED
      BY <3>2
  <2>9. all[k + 1] = OutputData(t.outputs[i])
    BY <2>1, <2>4, <2>5, <2>6
  <2>10. blanks \in [1..k -> Seq(Byte)]
    <3>1. LE(Span(W64) - 1, W64) \o BitWVarIntSet(0) \in Seq(Byte)
      BY BlankWritten
    <3> QED
      BY <3>1
  <2> HIDE DEF all, blanks
  <2>11. bytes = FlattenSeq(blanks) \o OutputData(t.outputs[i])
    BY <2>6, <2>7, <2>8, <2>9, FlattenLast
  <2>12. /\ FlattenSeq(blanks) \in Seq(Byte) /\ OutputData(t.outputs[i]) \in Seq(Byte)
    BY <1>3, <2>1, <2>6, <2>10, ListType, OutputDataType
  <2>13. count = BitWVarIntSet(i) /\ BitWVarIntSet(i) \in Seq(Byte)
    <3>0. Span(W64) \in Nat
      BY Widths, SpanStep
    <3>1. i \in 0..(Span(W64) - 1)
      BY <1>3, <2>1, <3>0
    <3> QED
      BY <2>3, <3>1, VarIntBytes
  <2>14. OutputsFor(t, i, hashType) = (BitWVarIntSet(i) \o FlattenSeq(blanks)) \o OutputData(t.outputs[i])
    BY <1>2, <1>3, <1>6, <2>1 DEF OutputsFor, blanks, k
  <2>15. (BitWVarIntSet(i) \o FlattenSeq(blanks)) \o OutputData(t.outputs[i]) = count \o bytes
    BY <2>11, <2>12, <2>13, Associative
  <2>16. bytes \in Seq(Byte)
    BY <2>11, <2>12, Concat
  <2> QED
    BY <2>13, <2>14, <2>15, <2>16 DEF left, all
<1> QED
  BY <1>1, <1>4, <1>5, <1>6

LEMMA LegacyMatches ==
  ASSUME NEW t, Countable(t), NEW i \in 1..Len(t.inputs), NEW hashType \in HashTypes,
         ~IsSet(SIGHASH_FORKID, hashType),
         SigHash(hashType) = SIGHASH_SINGLE => i \in DOMAIN t.outputs
  PROVE  TransactionData(t, i, hashType) = LegacyDigest(t, i, hashType)
<1> DEFINE shown == Shown(t, i, hashType)
           ins == StruckInputs(t, i, hashType)
           outs == StruckOutputs(t, i, hashType)
           inBytes == ShownBytes(t, i, hashType)
           insWritten == StruckBytes(t, i, hashType)
           count == BitWVarIntSet(Len(outs))
           bytes == FlattenSeq([n \in DOMAIN outs |-> OutputData(outs[n])])
           p == LE(t.version, W32) \o BitWVarIntSet(Len(shown)) \o FlattenSeq(inBytes)
           lock == LE(t.lockTime, W32)
           type == LE(hashType, W32)
           o == OutputsFor(t, i, hashType)
<1>1. i \in DOMAIN t.inputs /\ i # SIZE_MAX
  BY TxType DEF SIZE_MAX
<1>2. TransactionData(t, i, hashType) = p \o o \o lock \o type
  BY <1>1 DEF TransactionData, OutputsFor, Shown, ShownBytes
<1>3. LegacyDigest(t, i, hashType) =
        LE(t.version, W32) \o BitWVarIntSet(Len(ins)) \o FlattenSeq(insWritten)
          \o count \o bytes \o lock \o type
  BY StruckFields DEF LegacyDigest, StruckBytes, InputBytes, OutputData
<1>4. /\ Len(ins) = Len(shown) /\ Len(shown) \in 0..(Span(W64) - 1)
      /\ insWritten = inBytes /\ FlattenSeq(inBytes) \in Seq(Byte)
  BY StruckInputsWritten
<1>5. o = count \o bytes /\ count \in Seq(Byte) /\ bytes \in Seq(Byte)
  BY StruckOutputsWritten
<1>6. LE(t.version, W32) \in Seq(Byte) /\ BitWVarIntSet(Len(shown)) \in Seq(Byte)
  BY <1>4, TxType, Widths, LEType, VarIntBytes
<1>7. p \in Seq(Byte)
  <2> DEFINE x == LE(t.version, W32)
             y == BitWVarIntSet(Len(shown))
             z == FlattenSeq(inBytes)
  <2>1. x \in Seq(Byte) /\ y \in Seq(Byte) /\ z \in Seq(Byte)
    BY <1>4, <1>6
  <2>2. p = x \o y \o z
    OBVIOUS
  <2> HIDE DEF x, y, z, p
  <2>3. x \o y \in Seq(Byte)
    BY <2>1, Concat
  <2> QED
    BY <2>1, <2>2, <2>3, Concat
<1>8. LegacyDigest(t, i, hashType) = p \o count \o bytes \o lock \o type
  BY <1>3, <1>4
<1> HIDE DEF p, o, count, bytes, lock, type
<1>9. p \o o = p \o count \o bytes
  BY <1>5, <1>7, Associative
<1> QED
  BY <1>2, <1>8, <1>9

LEMMA Bip143Matches ==
  ASSUME NEW t, Countable(t), NEW i \in 1..Len(t.inputs), NEW hashType \in HashTypes,
         PrimitivesFit, IsSet(SIGHASH_FORKID, hashType), t.inputs[i].amount # 0,
         SigHash(hashType) = SIGHASH_SINGLE => i \in DOMAIN t.outputs
  PROVE  TransactionData(t, i, hashType) = Bip143Digest(t, i, hashType)
<1> DEFINE any == IsSet(SIGHASH_ANYONECANPAY, hashType)
           which == SigHash(hashType)
           in == t.inputs[i]
           zero == Zeros(HASH)
           versionBytes == LE(t.version, W32)
           prevouts == IF any THEN zero ELSE Sha256d(AllOutpoints(t))
           sequences == IF any \/ which # SIGHASH_ALL THEN zero ELSE Sha256d(AllSequences(t))
           outs == IF which = SIGHASH_NONE THEN zero
                   ELSE Sha256d(AllOutputs(IF which = SIGHASH_SINGLE THEN <<t.outputs[i]>>
                                           ELSE t.outputs))
           point == Outpoint(in)
           count == BitWVarIntSet(Len(in.script))
           paidScript == in.script
           amountBytes == LE(in.amount, W64)
           sequenceBytes == LE(in.sequence, W32)
           lock == LE(t.lockTime, W32)
           type == LE(hashType, W32)
           p == versionBytes \o prevouts \o sequences
<1>1. /\ i \in DOMAIN t.inputs /\ in \in Input
      /\ which \in {SIGHASH_ALL, SIGHASH_NONE, SIGHASH_SINGLE}
  BY TxType, HashTypeFacts
<1>2. SIGHASH_ALL # SIGHASH_NONE /\ SIGHASH_ALL # SIGHASH_SINGLE /\ SIGHASH_NONE # SIGHASH_SINGLE
  BY SighashAssumption
<1>3. AllOutputs(<<t.outputs[i]>>) = OutputData(t.outputs[i]) \/ which # SIGHASH_SINGLE
  <2> SUFFICES ASSUME which = SIGHASH_SINGLE
               PROVE  AllOutputs(<<t.outputs[i]>>) = OutputData(t.outputs[i])
    OBVIOUS
  <2> DEFINE d == OutputData(t.outputs[i])
             s == <<t.outputs[i]>>
  <2>1. d \in Seq(Byte)
    BY TxType, OutputDataType
  <2>2. DOMAIN s = {1} /\ s[1] = t.outputs[i]
    OBVIOUS
  <2>3. [n \in DOMAIN s |-> OutputData(s[n])] = <<d>>
    <3>1. \A n \in DOMAIN s : OutputData(s[n]) = d
      BY <2>2
    <3> HIDE DEF d
    <3>2. [n \in DOMAIN s |-> OutputData(s[n])] = [n \in DOMAIN s |-> d]
      BY <3>1
    <3> QED
      BY <3>2
  <2> HIDE DEF d
  <2>4. FlattenSeq(<<d>>) = d
    <3> DEFINE B == Seq(Byte)
               l == <<d>>
    <3>1. l \in Seq(B) /\ Len(l) = 1 /\ l[1] = d
      BY <2>1
    <3> HIDE DEF l
    <3>2. FlattenSeq(l) = l[1]
      BY <3>1, FlattenFew
    <3> QED
      BY <3>1, <3>2 DEF l
  <2> QED
    BY <2>3, <2>4 DEF AllOutputs, s, d
<1>4. TxInputData(in, in.script) = point \o count \o paidScript \o amountBytes \o sequenceBytes
  BY DEF TxInputData
<1>5. TransactionData(t, i, hashType) = p \o TxInputData(in, in.script) \o outs \o lock \o type
  <2> DEFINE seqs == IF any \/ ~(which \notin {SIGHASH_SINGLE, SIGHASH_NONE}) THEN zero
                     ELSE Sha256d(AllSequences(t))
             os == CASE which \notin {SIGHASH_SINGLE, SIGHASH_NONE} -> Sha256d(AllOutputs(t.outputs))
                     [] which = SIGHASH_SINGLE /\ i \in DOMAIN t.outputs ->
                          Sha256d(OutputData(t.outputs[i]))
                     [] OTHER -> zero
  <2>1. TransactionData(t, i, hashType) =
          versionBytes \o prevouts \o seqs \o TxInputData(in, in.script) \o os \o lock \o type
    BY <1>1 DEF TransactionData, WitnessData
  <2>2. seqs = sequences
    BY <1>1, <1>2
  <2>3. os = outs
    <3>1. CASE which = SIGHASH_ALL
      BY <1>2, <3>1
    <3>2. CASE which = SIGHASH_NONE
      BY <1>2, <3>2
    <3>3. CASE which = SIGHASH_SINGLE
      BY <1>2, <1>3, <3>3
    <3> QED
      BY <1>1, <3>1, <3>2, <3>3
  <2> QED
    BY <2>1, <2>2, <2>3
<1>6. Bip143Digest(t, i, hashType) =
        p \o point \o count \o paidScript \o amountBytes \o sequenceBytes \o outs \o lock \o type
  BY DEF Bip143Digest
<1>7. /\ point \in Seq(Byte) /\ count \in Seq(Byte) /\ paidScript \in Seq(Byte)
      /\ amountBytes \in Seq(Byte) /\ sequenceBytes \in Seq(Byte)
  BY <1>1, InputType, OutpointType, ScriptLength, LEType, Widths
<1>8. p \in Seq(Byte)
  <2>1. zero \in Seq(Byte) /\ versionBytes \in Seq(Byte)
    BY TxType, Widths, LEType
  <2>2. prevouts \in Seq(Byte) /\ sequences \in Seq(Byte)
    <3>1. Sha256d(AllOutpoints(t)) \in Seq(Byte) /\ Sha256d(AllSequences(t)) \in Seq(Byte)
      BY ListsType, HashBytes
    <3> QED
      BY <2>1, <3>1
  <2> HIDE DEF versionBytes, prevouts, sequences
  <2>3. versionBytes \o prevouts \in Seq(Byte)
    BY <2>1, <2>2, Concat
  <2> QED
    BY <2>2, <2>3, Concat
<1> HIDE DEF p, point, count, paidScript, amountBytes, sequenceBytes, outs, lock, type
<1>9. p \o (point \o count \o paidScript \o amountBytes \o sequenceBytes) =
        p \o point \o count \o paidScript \o amountBytes \o sequenceBytes
  <2>1. \A q, a, b, c, d, e \in Seq(Byte) : q \o (a \o b \o c \o d \o e) = q \o a \o b \o c \o d \o e
    BY AssociateFive
  <2>2. point \in Seq(Byte)
    BY <1>7
  <2>3. \A b, c, d, e \in Seq(Byte) : p \o (point \o b \o c \o d \o e) = p \o point \o b \o c \o d \o e
    BY <1>8, <2>1, <2>2, Zenon
  <2>4. \A d, e \in Seq(Byte) : p \o (point \o count \o paidScript \o d \o e) = p \o point \o count \o paidScript \o d \o e
    BY <1>7, <2>3, Zenon
  <2> QED
    BY <1>7, <2>4, Zenon
<1> QED
  BY <1>4, <1>5, <1>6, <1>9

(* For every hash type, what is hashed for an input is what the protocol   *)
(* says.                                                                   *)
LEMMA DigestMatches ==
  ASSUME NEW t, Countable(t), PrimitivesFit,
         NEW i \in 1..Len(t.inputs), NEW hashType \in HashTypes,
         SigHash(hashType) = SIGHASH_SINGLE => i \in DOMAIN t.outputs,
         IsSet(SIGHASH_FORKID, hashType) => t.inputs[i].amount # 0
  PROVE  TransactionData(t, i, hashType) = Digest(t, i, hashType)
BY LegacyMatches, Bip143Matches DEF Digest

-----------------------------------------------------------------------------
(* What is signed, and what is serialised, is bytes.                       *)

LEMMA Sized ==
  /\ BYTE < Span(W64) /\ BYTE \in Nat /\ Span(W64) \in Nat
  /\ Uint(1) \subseteq Uint(W64) /\ Uint(W16) \subseteq Uint(W64) /\ Uint(W32) \subseteq Uint(W64)
  /\ Byte \subseteq Uint(W64)
<1>1. 2 * Span(1) <= Span(W16) /\ 2 * Span(W16) <= Span(W32) /\ 2 * Span(W32) <= Span(W64)
  BY WidthAssumption, SpanMonotone
<1>2. Span(1) = BYTE /\ Span(W16) \in Nat /\ Span(W32) \in Nat /\ Span(W64) \in Nat
  BY Widths, SpanStep
<1>3. BYTE \in Nat /\ BYTE > 3
  BY BitsFacts
<1> QED
  BY <1>1, <1>2, <1>3 DEF Uint, Byte

(* A hash type that is signed with, and one that serialises.               *)
LEMMA TypeSigned ==
  ASSUME NEW forkId \in ForkIds
  PROVE  /\ forkId + SIGHASH_ALL \in HashTypes /\ forkId + SIGHASH_ALL \in Byte
         /\ SigHash(forkId + SIGHASH_ALL) = SIGHASH_ALL
         /\ IsSet(SIGHASH_FORKID, forkId + SIGHASH_ALL) <=> forkId # 0
         /\ ~IsSet(SIGHASH_ANYONECANPAY, forkId + SIGHASH_ALL)
<1> DEFINE F == SIGHASH_FORKID
           a == SIGHASH_ALL
           h == forkId + a
<1>1. /\ F \in Nat /\ SIGHASH_ANYONECANPAY = 2 * F /\ 2 * SIGHASH_ANYONECANPAY <= BYTE
      /\ forkId \in {0, F} /\ a \in 1..(F - 1) /\ BYTE \in Nat
  BY SighashAssumption, BitsFacts
<1>2. h \in HashTypes
  <2>1. h = a + forkId + 0
    BY <1>1
  <2> QED
    BY <2>1 DEF HashTypes
<1> HIDE DEF F, a
<1>3. h \in Byte
  BY <1>1 DEF Byte
<1>4. PICK m \in {0, 1} : h = F * m + a /\ (m = 0 <=> forkId = 0)
  <2>1. CASE forkId = 0
    BY <1>1, <2>1
  <2>2. CASE forkId # 0
    BY <1>1, <2>2
  <2> QED
    BY <2>1, <2>2
<1>5. h \in Nat /\ F > 0
  BY <1>1
<1>6. h % F = a /\ h \div F = m
  <2>1. h % F \in 0..(F - 1) /\ h \div F \in Nat /\ h = F * (h \div F) + (h % F)
    BY <1>1, <1>5, ModFacts
  <2> DEFINE p == h \div F
             r == h % F
  <2>2. p \in Int /\ m \in Int /\ r \in 0..(F - 1) /\ a \in 0..(F - 1) /\ F * p + r = F * m + a
    BY <1>1, <1>4, <2>1
  <2> HIDE DEF p, r
  <2>3. p = m /\ r = a
    BY <1>1, <1>5, <2>2, DivUnique
  <2> QED
    BY <2>3 DEF p, r
<1>7. h \div (2 * F) = 0
  <2>1. h < 2 * F
    BY <1>1
  <2>2. 2 * F \in Nat
    BY <1>1
  <2> QED
    BY <1>5, <2>1, <2>2, SmallMod
<1>8. IsSet(SIGHASH_ANYONECANPAY, h) <=> 0 % 2 = 1
  BY <1>1, <1>7 DEF IsSet
<1>9. IsSet(F, h) <=> m % 2 = 1
  BY <1>6 DEF IsSet
<1>10. IsSet(F, h) <=> forkId # 0
  <2>1. CASE m = 0
    BY <1>4, <1>9, <2>1
  <2>2. CASE m = 1
    BY <1>4, <1>9, <2>2
  <2> QED
    BY <2>1, <2>2
<1> QED
  BY <1>2, <1>3, <1>6, <1>8, <1>10 DEF SigHash, h, a, F

LEMMA TypeSerialised ==
  ASSUME NEW h \in {0, SIGHASH_ALL}
  PROVE  /\ SigHash(h) \notin {SIGHASH_SINGLE, SIGHASH_NONE}
         /\ ~IsSet(SIGHASH_FORKID, h) /\ ~IsSet(SIGHASH_ANYONECANPAY, h)
<1> DEFINE F == SIGHASH_FORKID
<1>1. F \in Nat /\ SIGHASH_ANYONECANPAY = 2 * F /\ SIGHASH_ALL \in 1..(F - 1)
  BY SighashAssumption
<1>2. /\ SIGHASH_SINGLE \in 1..(F - 1) /\ SIGHASH_NONE \in 1..(F - 1)
      /\ SIGHASH_ALL # SIGHASH_SINGLE /\ SIGHASH_ALL # SIGHASH_NONE
  BY SighashAssumption
<1> HIDE DEF F
<1>3. h \in Nat /\ h < F /\ h < 2 * F /\ F \in Nat /\ 2 * F \in Nat
  BY <1>1
<1>4. h % F = h /\ h \div F = 0
  BY <1>3, SmallMod
<1>5. h \div (2 * F) = 0
  BY <1>3, SmallMod
<1>6. ~IsSet(F, h) /\ ~IsSet(2 * F, h)
  BY <1>4, <1>5 DEF IsSet
<1>7. SigHash(h) = h
  BY <1>4 DEF SigHash, F
<1> QED
  BY <1>1, <1>2, <1>6, <1>7 DEF F

(* What is serialised: a signed input is written with its signature, one   *)
(* that is not with its script and its amount.                             *)
InputWritten(in) ==
  IF in.signature = NULL THEN TxInputData(in, in.script)
  ELSE TxInputData([in EXCEPT !.amount = 0], in.signature[1])
InputsWritten(t) == [n \in 1..Len(t.inputs) |-> InputWritten(t.inputs[n])]
OutputsWritten(t) == [n \in 1..Len(t.outputs) |-> OutputData(t.outputs[n])]
Written(t) ==
  LE(t.version, W32) \o BitWVarIntSet(Len(t.inputs)) \o FlattenSeq(InputsWritten(t))
    \o (BitWVarIntSet(Len(t.outputs)) \o FlattenSeq(OutputsWritten(t))) \o LE(t.lockTime, W32)

LEMMA WrittenType ==
  ASSUME NEW t, Countable(t)
  PROVE  /\ InputsWritten(t) \in Seq(Seq(Byte)) /\ Len(InputsWritten(t)) = Len(t.inputs)
         /\ OutputsWritten(t) \in Seq(Seq(Byte)) /\ Len(OutputsWritten(t)) = Len(t.outputs)
         /\ LE(t.version, W32) \in Seq(Byte) /\ Len(LE(t.version, W32)) = W32
         /\ LE(t.lockTime, W32) \in Seq(Byte) /\ Len(LE(t.lockTime, W32)) = W32
         /\ BitWVarIntSet(Len(t.inputs)) \in Seq(Byte)
         /\ BitWVarIntSet(Len(t.outputs)) \in Seq(Byte)
         /\ FlattenSeq(InputsWritten(t)) \in Seq(Byte)
         /\ FlattenSeq(OutputsWritten(t)) \in Seq(Byte)
         /\ Written(t) \in Seq(Byte)
<1> DEFINE m == Len(t.inputs)
           k == Len(t.outputs)
<1>1. m \in Nat /\ k \in Nat
  BY TxType
<1>2. ASSUME NEW n \in 1..m  PROVE InputWritten(t.inputs[n]) \in Seq(Byte)
  <2> DEFINE in == t.inputs[n]
  <2>1. in \in Input
    BY TxType
  <2> HIDE DEF in
  <2>2. CASE in.signature = NULL
    <3>1. in.script \in Script
      BY <2>1, InputType
    <3>2. TxInputData(in, in.script) \in Seq(Byte)
      BY <2>1, <3>1, InputDataType
    <3> QED
      BY <2>2, <3>2 DEF InputWritten, in
  <2>3. CASE in.signature # NULL
    <3> DEFINE bare == [in EXCEPT !.amount = 0]
    <3>1. in.signature[1] \in Script /\ bare \in Input
      BY <2>1, <2>3, InputType
    <3>2. InputWritten(in) = TxInputData(bare, in.signature[1])
      BY <2>3 DEF InputWritten
    <3> HIDE DEF bare
    <3>3. TxInputData(bare, in.signature[1]) \in Seq(Byte)
      BY <3>1, InputDataType
    <3> QED
      BY <3>2, <3>3 DEF in
  <2> QED
    BY <2>2, <2>3
<1>3. InputsWritten(t) \in [1..m -> Seq(Byte)]
  BY <1>2 DEF InputsWritten
<1>4. OutputsWritten(t) \in [1..k -> Seq(Byte)]
  BY TxType, OutputDataType DEF OutputsWritten
<1>5. /\ InputsWritten(t) \in Seq(Seq(Byte)) /\ Len(InputsWritten(t)) = m
      /\ FlattenSeq(InputsWritten(t)) \in Seq(Byte)
  <2> HIDE DEF m
  <2> QED
    BY <1>1, <1>3, ListType
<1>6. /\ OutputsWritten(t) \in Seq(Seq(Byte)) /\ Len(OutputsWritten(t)) = k
      /\ FlattenSeq(OutputsWritten(t)) \in Seq(Byte)
  <2> HIDE DEF k
  <2> QED
    BY <1>1, <1>4, ListType
<1>7. /\ LE(t.version, W32) \in Seq(Byte) /\ Len(LE(t.version, W32)) = W32
      /\ LE(t.lockTime, W32) \in Seq(Byte) /\ Len(LE(t.lockTime, W32)) = W32
  BY TxType, LEType, Widths
<1>8. BitWVarIntSet(m) \in Seq(Byte) /\ BitWVarIntSet(k) \in Seq(Byte)
  BY TxType, VarIntBytes
<1> DEFINE a == LE(t.version, W32)
           b == BitWVarIntSet(m)
           c == FlattenSeq(InputsWritten(t))
           d == BitWVarIntSet(k)
           e == FlattenSeq(OutputsWritten(t))
           l == LE(t.lockTime, W32)
<1>9. Written(t) = a \o b \o c \o (d \o e) \o l
  BY DEF Written
<1>10. /\ a \in Seq(Byte) /\ b \in Seq(Byte) /\ c \in Seq(Byte) /\ d \in Seq(Byte)
       /\ e \in Seq(Byte) /\ l \in Seq(Byte)
  BY <1>5, <1>6, <1>7, <1>8
<1> HIDE DEF a, b, c, d, e, l
<1>11. a \o b \in Seq(Byte) /\ d \o e \in Seq(Byte)
  BY <1>10, Concat
<1>12. a \o b \o c \in Seq(Byte)
  BY <1>10, <1>11, Concat
<1>13. a \o b \o c \o (d \o e) \in Seq(Byte)
  BY <1>11, <1>12, Concat
<1>14. Written(t) \in Seq(Byte)
  BY <1>9, <1>10, <1>13, Concat
<1> QED
  BY <1>5, <1>6, <1>7, <1>8, <1>14

LEMMA SerialisedIs ==
  ASSUME NEW t, Countable(t), NEW h \in {0, SIGHASH_ALL}
  PROVE  TransactionData(t, SIZE_MAX, h) = Written(t)
<1> DEFINE shown == [n \in DOMAIN t.inputs |-> n]
           ins == [n \in DOMAIN shown |-> InputAs(t, shown[n], SIZE_MAX, h)]
           m == Len(t.inputs)
           outs == BitWVarIntSet(Len(t.outputs)) \o AllOutputs(t.outputs)
<1>1. m \in Nat /\ DOMAIN t.inputs = 1..m /\ DOMAIN t.outputs = 1..Len(t.outputs)
  BY TxType
<1>2. Len(shown) = m /\ DOMAIN shown = 1..m /\ \A n \in 1..m : shown[n] = n
  <2>1. shown = [n \in 1..m |-> n]
    BY <1>1
  <2> HIDE DEF shown, m
  <2>2. Len(shown) = m /\ DOMAIN shown = 1..m
    BY <1>1, <2>1, LenOf
  <2> QED
    BY <2>1, <2>2
<1>3. TransactionData(t, SIZE_MAX, h) =
        LE(t.version, W32) \o BitWVarIntSet(Len(shown)) \o FlattenSeq(ins)
          \o outs \o LE(t.lockTime, W32) \o <<>>
  BY TypeSerialised DEF TransactionData
<1>4. ASSUME NEW n \in 1..m  PROVE InputAs(t, n, SIZE_MAX, h) = InputWritten(t.inputs[n])
  <2>1. n # SIZE_MAX
    BY <1>1 DEF SIZE_MAX
  <2>2. CASE t.inputs[n].signature = NULL
    BY <2>1, <2>2 DEF InputAs, InputWritten
  <2>3. CASE t.inputs[n].signature # NULL
    BY <2>1, <2>3 DEF InputAs, InputWritten
  <2> QED
    BY <2>2, <2>3
<1>5. ins = InputsWritten(t)
  <2>1. ins = [n \in 1..m |-> InputAs(t, shown[n], SIZE_MAX, h)]
    BY <1>2
  <2>2. \A n \in 1..m : InputAs(t, shown[n], SIZE_MAX, h) = InputWritten(t.inputs[n])
    BY <1>2, <1>4
  <2> QED
    BY <2>1, <2>2 DEF InputsWritten
<1>6. AllOutputs(t.outputs) = FlattenSeq(OutputsWritten(t))
  BY <1>1 DEF AllOutputs, OutputsWritten
<1>7. TransactionData(t, SIZE_MAX, h) = Written(t) \o <<>>
  BY <1>2, <1>3, <1>5, <1>6 DEF Written
<1>8. Written(t) \in Seq(Byte)
  BY WrittenType
<1> QED
  BY <1>7, <1>8, Concat

LEMMA SignedDataType ==
  ASSUME NEW t, Countable(t), PrimitivesFit, NEW i \in 1..Len(t.inputs), NEW hashType \in HashTypes,
         SigHash(hashType) = SIGHASH_ALL
  PROVE  TransactionData(t, i, hashType) \in Seq(Byte)
<1> DEFINE version == LE(t.version, W32)
           lock == LE(t.lockTime, W32)
           type == LE(hashType, W32)
           which == SigHash(hashType)
<1>1. version \in Seq(Byte) /\ lock \in Seq(Byte) /\ type \in Seq(Byte)
  <2>1. hashType \in Nat /\ W32 \in Nat
    BY HashTypeFacts, Widths
  <2> QED
    BY <2>1, TxType, LEType, LEDigits
<1>2. which \notin {SIGHASH_SINGLE, SIGHASH_NONE} /\ i \in DOMAIN t.inputs /\ i # SIZE_MAX
  BY SighashAssumption, TxType DEF SIZE_MAX
<1>3. \A x, y \in Seq(Byte) : x \o y \in Seq(Byte)
  BY Concat
<1>4. CASE IsSet(SIGHASH_FORKID, hashType)
  <2> DEFINE any == IsSet(SIGHASH_ANYONECANPAY, hashType)
             zero == Zeros(HASH)
             a == IF any THEN zero ELSE Sha256d(AllOutpoints(t))
             b == IF any \/ ~(which \notin {SIGHASH_SINGLE, SIGHASH_NONE}) THEN zero
                  ELSE Sha256d(AllSequences(t))
             d == TxInputData(t.inputs[i], t.inputs[i].script)
             e == Sha256d(AllOutputs(t.outputs))
  <2>1. zero \in Seq(Byte)
    BY Widths
  <2>2. Sha256d(AllOutpoints(t)) \in Seq(Byte) /\ Sha256d(AllSequences(t)) \in Seq(Byte) /\ e \in Seq(Byte)
    BY ListsType, HashBytes
  <2>3. a \in Seq(Byte) /\ b \in Seq(Byte)
    BY <2>1, <2>2
  <2>4. d \in Seq(Byte)
    <3>1. t.inputs[i] \in Input /\ t.inputs[i].script \in Script
      BY TxType, InputType
    <3> QED
      BY <3>1, InputDataType
  <2>5. TransactionData(t, i, hashType) = version \o a \o b \o d \o e \o lock \o type
    BY <1>2, <1>4 DEF TransactionData, WitnessData
  <2> HIDE DEF version, a, b, d, e, lock, type
  <2>6. version \o a \in Seq(Byte)
    BY <1>1, <1>3, <2>3
  <2>7. version \o a \o b \in Seq(Byte)
    BY <1>3, <2>3, <2>6
  <2>8. version \o a \o b \o d \in Seq(Byte)
    BY <1>3, <2>4, <2>7
  <2>9. version \o a \o b \o d \o e \in Seq(Byte)
    BY <1>3, <2>2, <2>8
  <2>10. version \o a \o b \o d \o e \o lock \in Seq(Byte)
    BY <1>1, <1>3, <2>9
  <2> QED
    BY <1>1, <1>3, <2>5, <2>10
<1>5. CASE ~IsSet(SIGHASH_FORKID, hashType)
  <2> DEFINE a == BitWVarIntSet(Len(Shown(t, i, hashType)))
             b == FlattenSeq(ShownBytes(t, i, hashType))
             d == OutputsFor(t, i, hashType)
  <2>1. a \in Seq(Byte) /\ b \in Seq(Byte)
    BY StruckInputsWritten, VarIntBytes
  <2>2. d \in Seq(Byte)
    <3>1. SigHash(hashType) # SIGHASH_SINGLE
      BY <1>2
    <3> DEFINE left == StruckOutputs(t, i, hashType)
               x == BitWVarIntSet(Len(left))
               y == FlattenSeq([n \in DOMAIN left |-> OutputData(left[n])])
    <3>2. d = x \o y /\ x \in Seq(Byte) /\ y \in Seq(Byte)
      BY <3>1, StruckOutputsWritten
    <3> HIDE DEF d, x, y
    <3> QED
      BY <1>3, <3>2
  <2>3. TransactionData(t, i, hashType) = version \o a \o b \o d \o lock \o type
    BY <1>2, <1>5 DEF TransactionData, OutputsFor, Shown, ShownBytes
  <2> HIDE DEF version, a, b, d, lock, type
  <2>4. version \o a \in Seq(Byte)
    BY <1>1, <1>3, <2>1
  <2>5. version \o a \o b \in Seq(Byte)
    BY <1>3, <2>1, <2>4
  <2>6. version \o a \o b \o d \in Seq(Byte)
    BY <1>3, <2>2, <2>5
  <2>7. version \o a \o b \o d \o lock \in Seq(Byte)
    BY <1>1, <1>3, <2>6
  <2> QED
    BY <1>1, <1>3, <2>3, <2>7
<1> QED
  BY <1>4, <1>5

-----------------------------------------------------------------------------
(* Signing.                                                                *)

(* A short push is a length and what is pushed.                            *)
LEMMA ShortPush ==
  ASSUME NEW data \in Seq(Byte), Len(data) < OP_PUSHDATA1
  PROVE  /\ BitWScriptPushData(data) = <<Len(data)>> \o data
         /\ BitWScriptPushData(data) \in Seq(Byte)
         /\ Len(BitWScriptPushData(data)) = 1 + Len(data)
<1>1. Len(data) \in Byte
  <2>1. Len(data) \in Nat /\ OP_PUSHDATA1 \in Byte
    BY Opcodes
  <2> QED
    BY <2>1, BitsFacts DEF Byte
<1>2. BitWScriptPushData(data) = <<Len(data)>> \o data
  <2>1. Len(data) \in Nat /\ OP_PUSHDATA1 \in Byte /\ BYTE \in Nat /\ OP_PUSHDATA1 < BYTE - 1
    <3>1. OP_PUSHDATA1 < VAR_INT16_HEADER /\ OP_PUSHDATA1 \in Nat
      BY Opcodes, BitsFacts DEF Byte, VAR_INT16_HEADER
    <3> QED
      BY <3>1, Opcodes, BitsFacts DEF VAR_INT16_HEADER
  <2>2. /\ ~(Len(data) >= OP_PUSHDATA1) /\ ~(Len(data) >= BYTE - 1)
    BY <2>1 DEF Byte
  <2> QED
    BY <2>2 DEF BitWScriptPushData
<1> QED
  BY <1>1, <1>2, OneMore

(* The signature of an input with the key k, with its hash type.           *)
SignatureOf(t, i, k, hashType) ==
  KeySign(k, Sha256d(TransactionData(t, i, hashType))) \o <<hashType>>
NeedsKey(script) ==
  LET h == Heads(script) IN Len(h) >= 2 /\ h[Len(h) - 1] = OP_EQUALVERIFY

LEMMA KeyBytes ==
  ASSUME NEW k \in Key
  PROVE  /\ PubKey[k] \in Seq(Byte) /\ Len(PubKey[k]) \in PUBKEY_LEN
         /\ Len(PubKey[k]) \in Nat /\ Len(PubKey[k]) < OP_PUSHDATA1
<1>1. PubKey[k] \in Seq(Byte) /\ Len(PubKey[k]) \in PUBKEY_LEN
  BY DataAssumption
<1> QED
  BY <1>1, Opcodes

LEMMA SignatureType ==
  ASSUME NEW t, Countable(t), PrimitivesFit, NEW i \in 1..Len(t.inputs), NEW k \in Key,
         NEW forkId \in ForkIds
  PROVE  LET s == SignatureOf(t, i, k, forkId + SIGHASH_ALL)
             md == Sha256d(TransactionData(t, i, forkId + SIGHASH_ALL))
         IN /\ s \in Seq(Byte) /\ Len(s) \in Nat /\ 0 < Len(s) /\ Len(s) < OP_PUSHDATA1
            /\ s[Len(s)] = forkId + SIGHASH_ALL /\ Front(s) = KeySign(k, md)
            /\ md \in Hash
<1> DEFINE hashType == forkId + SIGHASH_ALL
           md == Sha256d(TransactionData(t, i, hashType))
           x == KeySign(k, md)
           s == SignatureOf(t, i, k, hashType)
<1>1. hashType \in HashTypes /\ hashType \in Byte /\ SigHash(hashType) = SIGHASH_ALL
  BY TypeSigned
<1> HIDE DEF hashType
<1>2. md \in Hash
  BY <1>1, SignedDataType, HashBytes
<1> HIDE DEF md
<1>3. x \in Seq(Byte) /\ Len(x) + 1 < OP_PUSHDATA1
  BY <1>2 DEF PrimitivesFit, SignaturesFit
<1>4. s = x \o <<hashType>>
  BY DEF SignatureOf, md
<1> HIDE DEF x, s
<1>5. /\ s \in Seq(Byte) /\ Len(s) = Len(x) + 1 /\ Len(x) \in Nat /\ s[Len(x) + 1] = hashType
      /\ \A n \in 1..Len(x) : s[n] = x[n]
  BY <1>1, <1>3, <1>4
<1>6. Front(s) = x
  <2> DEFINE f == SubSeq(s, 1, Len(s) - 1)
  <2>1. Len(s) - 1 = Len(x)
    BY <1>5
  <2>2. f \in Seq(Byte) /\ Len(f) = Len(x) /\ \A n \in 1..Len(x) : f[n] = s[n]
    BY <1>5
  <2>3. Front(s) = f
    BY DEF Front
  <2> HIDE DEF f
  <2>4. \A n \in 1..Len(x) : f[n] = x[n]
    BY <1>5, <2>2
  <2>5. f = x
    BY <1>3, <2>2, <2>4, SMTT(30)
  <2> QED
    BY <2>3, <2>5
<1> QED
  BY <1>2, <1>3, <1>5, <1>6 DEF s, x, md, hashType

(* What a scriptSig is, and that it is short.                              *)
LEMMA ScriptSigType ==
  ASSUME NEW t, Countable(t), PrimitivesFit, NEW i \in 1..Len(t.inputs), NEW k \in Key,
         NEW forkId \in ForkIds
  PROVE  LET s == SignatureOf(t, i, k, forkId + SIGHASH_ALL)
             sig == ScriptSig(t, i, k, forkId)
         IN /\ sig = IF NeedsKey(t.inputs[i].script)
                     THEN (<<Len(s)>> \o s) \o (<<Len(PubKey[k])>> \o PubKey[k])
                     ELSE <<Len(s)>> \o s
            /\ sig \in Script
            /\ Len(sig) = IF NeedsKey(t.inputs[i].script)
                          THEN 2 + Len(s) + Len(PubKey[k]) ELSE 1 + Len(s)
<1> DEFINE s == SignatureOf(t, i, k, forkId + SIGHASH_ALL)
           sig == ScriptSig(t, i, k, forkId)
           needs == NeedsKey(t.inputs[i].script)
           p == <<Len(s)>> \o s
           pk == PubKey[k]
           q == <<Len(pk)>> \o pk
<1>1. s \in Seq(Byte) /\ Len(s) \in Nat /\ Len(s) < OP_PUSHDATA1
  BY SignatureType
<1>2. /\ pk \in Seq(Byte) /\ Len(pk) \in Nat /\ Len(pk) < OP_PUSHDATA1
  BY KeyBytes
<1> HIDE DEF s, pk
<1>3. BitWScriptPushData(s) = p /\ p \in Seq(Byte) /\ Len(p) = 1 + Len(s)
  BY <1>1, ShortPush
<1>4. BitWScriptPushData(pk) = q /\ q \in Seq(Byte) /\ Len(q) = 1 + Len(pk)
  BY <1>2, ShortPush
<1>5. sig = BitWScriptPushData(s) \o (IF needs THEN BitWScriptPushData(pk) ELSE <<>>)
  BY DEF ScriptSig, NeedsKey, SignatureOf, s, pk
<1> HIDE DEF p, q, needs, sig
<1>6. sig = IF needs THEN p \o q ELSE p
  <2>1. p \o <<>> = p
    BY <1>3, Concat
  <2> QED
    BY <1>3, <1>4, <1>5, <2>1
<1>7. p \o q \in Seq(Byte) /\ Len(p \o q) = Len(p) + Len(q)
  BY <1>3, <1>4, Concat
<1>8. sig \in Seq(Byte) /\ Len(sig) = IF needs THEN 2 + Len(s) + Len(pk) ELSE 1 + Len(s)
  <2>1. CASE needs
    <3>1. sig = p \o q
      BY <1>6, <2>1
    <3> QED
      BY <1>1, <1>2, <1>3, <1>4, <1>7, <2>1, <3>1
  <2>2. CASE ~needs
    <3>1. sig = p
      BY <1>6, <2>2
    <3> QED
      BY <1>3, <2>2, <3>1
  <2> QED
    BY <2>1, <2>2
<1>9. Len(sig) < Span(W64)
  <2>1. OP_PUSHDATA1 \in Nat /\ 2 * OP_PUSHDATA1 < BYTE
    BY Opcodes, BitsFacts DEF VAR_INT16_HEADER, Byte
  <2>2. BYTE < Span(W64) /\ BYTE \in Nat /\ Span(W64) \in Nat
    BY Sized
  <2>3. CASE needs
    <3>1. Len(sig) = 2 + Len(s) + Len(pk)
      BY <1>8, <2>3
    <3> QED
      BY <1>1, <1>2, <2>1, <2>2, <3>1
  <2>4. CASE ~needs
    <3>1. Len(sig) = 1 + Len(s)
      BY <1>8, <2>4
    <3> QED
      BY <1>1, <2>1, <2>2, <3>1
  <2> QED
    BY <2>3, <2>4
<1> QED
  BY <1>6, <1>8, <1>9 DEF sig, needs, p, q, s, pk, Script

LEMMA NewSignature ==
  ASSUME PrimitivesFit, NEW in \in Input, NEW sig \in Script, NEW c \in CoinType
  PROVE  LET new == BitWTxInputSetSignature(in, sig, c)
         IN /\ new \in Input /\ new.signature = <<sig>>
            /\ new.address = IF in.address # <<>> THEN in.address ELSE BitWAddressFromScriptSig(sig, c)
            /\ new.txHash = in.txHash /\ new.index = in.index /\ new.amount = in.amount
            /\ new.script = in.script /\ new.sequence = in.sequence
<1>1. BitWAddressFromScriptSig(sig, c) \in Seq(Byte)
  BY SpentType DEF Script
<1>2. in.address \in Seq(Byte)
  BY InputType
<1> DEFINE addr == IF in.address # <<>> THEN in.address ELSE BitWAddressFromScriptSig(sig, c)
           new == [in EXCEPT !.signature = <<sig>>, !.address = addr]
<1>3. addr \in Seq(Byte)
  BY <1>1, <1>2
<1>4. BitWTxInputSetSignature(in, sig, c) = new
  BY DEF BitWTxInputSetSignature, Input
<1> HIDE DEF addr
<1>5. /\ new \in Input /\ new.signature = <<sig>> /\ new.address = addr
      /\ new.txHash = in.txHash /\ new.index = in.index /\ new.amount = in.amount
      /\ new.script = in.script /\ new.sequence = in.sequence
  BY <1>3 DEF Input
<1> QED
  BY <1>4, <1>5 DEF addr

(* Two transactions that differ in signatures and addresses only.          *)
Similar(t, u) ==
  /\ u.txHash = t.txHash /\ u.version = t.version /\ u.lockTime = t.lockTime
  /\ u.outputs = t.outputs /\ Len(u.inputs) = Len(t.inputs)
  /\ \A n \in 1..Len(t.inputs) :
       /\ u.inputs[n].txHash = t.inputs[n].txHash /\ u.inputs[n].index = t.inputs[n].index
       /\ u.inputs[n].amount = t.inputs[n].amount /\ u.inputs[n].script = t.inputs[n].script
       /\ u.inputs[n].sequence = t.inputs[n].sequence

(* What a turn of the loop does to the inputs.                             *)
SignerOf(t, i, keys, c) ==
  CHOOSE k \in KeysOf(BitWAddressFromScriptPubKey(t.inputs[i].script, c), keys, c) : TRUE
Signs(t, i, keys, c) ==
  KeysOf(BitWAddressFromScriptPubKey(t.inputs[i].script, c), keys, c) # {}

LEMMA SignInputFacts ==
  ASSUME NEW t, Countable(t), PrimitivesFit, NEW i \in 1..Len(t.inputs),
         NEW keys \in SUBSET Key, NEW forkId \in ForkIds, NEW c \in CoinType
  PROVE  LET u == SignInput(t, i, keys, forkId, c)
         IN /\ Countable(u) /\ Similar(t, u)
            /\ \A n \in 1..Len(t.inputs) : n # i => u.inputs[n] = t.inputs[n]
            /\ u.inputs[i] = IF Signs(t, i, keys, c)
                 THEN BitWTxInputSetSignature(t.inputs[i],
                        ScriptSig(t, i, SignerOf(t, i, keys, c), forkId), c)
                 ELSE t.inputs[i]
            /\ Signs(t, i, keys, c) => SignerOf(t, i, keys, c) \in keys
<1> DEFINE u == SignInput(t, i, keys, forkId, c)
           k == SignerOf(t, i, keys, c)
           sig == ScriptSig(t, i, k, forkId)
           new == BitWTxInputSetSignature(t.inputs[i], sig, c)
<1>1. /\ t.inputs \in Seq(Input) /\ Len(t.inputs) \in Nat /\ DOMAIN t.inputs = 1..Len(t.inputs)
      /\ \A n \in 1..Len(t.inputs) : t.inputs[n] \in Input
  BY TxType
<1>2. CASE ~Signs(t, i, keys, c)
  <2>1. u = t
    BY <1>2 DEF SignInput, SignWith, Signs
  <2> QED
    BY <1>2, <2>1 DEF Similar
<1>3. CASE Signs(t, i, keys, c)
  <2>1. k \in keys
    BY <1>3 DEF Signs, SignerOf, KeysOf
  <2>2. k \in Key
    BY <2>1
  <2> HIDE DEF k
  <2>3. sig \in Script
    BY <2>2, ScriptSigType
  <2>4. u = [t EXCEPT !.inputs[i] = new]
    BY <1>3 DEF SignInput, SignWith, Signs, SignerOf, k
  <2> HIDE DEF sig
  <2>5. /\ new \in Input
        /\ new.txHash = t.inputs[i].txHash /\ new.index = t.inputs[i].index
        /\ new.amount = t.inputs[i].amount /\ new.script = t.inputs[i].script
        /\ new.sequence = t.inputs[i].sequence
    BY <1>1, <2>3, NewSignature
  <2> HIDE DEF new
  <2> DEFINE ins == [t.inputs EXCEPT ![i] = new]
  <2>6. /\ ins \in Seq(Input) /\ Len(ins) = Len(t.inputs) /\ ins[i] = new
        /\ \A n \in 1..Len(t.inputs) : n # i => ins[n] = t.inputs[n]
    BY <1>1, <2>5
  <2>7. /\ u.inputs = ins /\ u.outputs = t.outputs /\ u.txHash = t.txHash
        /\ u.version = t.version /\ u.lockTime = t.lockTime
        /\ ins \in Seq(Input) => u \in Tx
    BY <2>4 DEF Countable, Tx
  <2> HIDE DEF u, ins
  <2>8. Countable(u)
    BY <2>6, <2>7 DEF Countable
  <2>9. Similar(t, u)
    BY <2>5, <2>6, <2>7 DEF Similar
  <2> QED
    BY <1>3, <2>1, <2>6, <2>7, <2>8, <2>9 DEF u, new, sig, k
<1> QED
  BY <1>2, <1>3

(* What is signed for an input is not changed by other signatures.         *)
LEMMA SimilarInput ==
  ASSUME NEW x \in Input, NEW y \in Input, NEW s,
         y.txHash = x.txHash, y.index = x.index, y.amount = x.amount, y.sequence = x.sequence
  PROVE  /\ Outpoint(y) = Outpoint(x) /\ TxInputData(y, s) = TxInputData(x, s)
         /\ LET bare(in) == [in EXCEPT !.amount = 0]
                ended(in) == [bare(in) EXCEPT !.sequence = 0]
            IN /\ TxInputData(bare(y), s) = TxInputData(bare(x), s)
               /\ TxInputData(ended(y), s) = TxInputData(ended(x), s)
<1>1. ASSUME NEW a, NEW b, a.txHash = b.txHash, a.index = b.index, a.amount = b.amount, a.sequence = b.sequence
      PROVE  TxInputData(a, s) = TxInputData(b, s)
  BY <1>1 DEF TxInputData, Outpoint
<1> DEFINE bx == [x EXCEPT !.amount = 0]
           by == [y EXCEPT !.amount = 0]
           ex == [bx EXCEPT !.sequence = 0]
           ey == [by EXCEPT !.sequence = 0]
<1>2. /\ bx.txHash = x.txHash /\ bx.index = x.index /\ bx.amount = 0 /\ bx.sequence = x.sequence
      /\ by.txHash = y.txHash /\ by.index = y.index /\ by.amount = 0 /\ by.sequence = y.sequence
      /\ ex.txHash = x.txHash /\ ex.index = x.index /\ ex.amount = 0 /\ ex.sequence = 0
      /\ ey.txHash = y.txHash /\ ey.index = y.index /\ ey.amount = 0 /\ ey.sequence = 0
  BY DEF Input
<1> HIDE DEF bx, by, ex, ey
<1>3. TxInputData(by, s) = TxInputData(bx, s)
  BY <1>1, <1>2
<1>4. TxInputData(ey, s) = TxInputData(ex, s)
  BY <1>1, <1>2
<1>5. TxInputData(y, s) = TxInputData(x, s) /\ Outpoint(y) = Outpoint(x)
  BY DEF TxInputData, Outpoint
<1> QED
  BY <1>3, <1>4, <1>5 DEF bx, by, ex, ey

LEMMA SimilarData ==
  ASSUME NEW t, Countable(t), NEW u, Countable(u), Similar(t, u), NEW i \in 1..Len(t.inputs),
         NEW hashType
  PROVE  TransactionData(u, i, hashType) = TransactionData(t, i, hashType)
<1> DEFINE m == Len(t.inputs)
<1>1. /\ DOMAIN t.inputs = 1..m /\ DOMAIN u.inputs = 1..m
      /\ \A n \in 1..m : t.inputs[n] \in Input /\ u.inputs[n] \in Input
  <2>1. Len(u.inputs) = m
    BY DEF Similar
  <2> QED
    BY <2>1, TxType
<1>2. /\ u.version = t.version /\ u.lockTime = t.lockTime /\ u.outputs = t.outputs
      /\ \A n \in 1..m :
           /\ u.inputs[n].txHash = t.inputs[n].txHash /\ u.inputs[n].index = t.inputs[n].index
           /\ u.inputs[n].amount = t.inputs[n].amount /\ u.inputs[n].script = t.inputs[n].script
           /\ u.inputs[n].sequence = t.inputs[n].sequence
  BY DEF Similar
<1>3. ASSUME NEW n \in 1..m
      PROVE  /\ Outpoint(u.inputs[n]) = Outpoint(t.inputs[n])
             /\ LE(u.inputs[n].sequence, W32) = LE(t.inputs[n].sequence, W32)
             /\ TxInputData(u.inputs[n], u.inputs[n].script) = TxInputData(t.inputs[n], t.inputs[n].script)
             /\ InputAs(u, n, i, hashType) = InputAs(t, n, i, hashType)
  <2> DEFINE x == t.inputs[n]
             y == u.inputs[n]
             bare(in) == [in EXCEPT !.amount = 0]
             ended(in) == [bare(in) EXCEPT !.sequence = 0]
             ends == SigHash(hashType) \in {SIGHASH_NONE, SIGHASH_SINGLE}
  <2>1. /\ x \in Input /\ y \in Input /\ y.txHash = x.txHash /\ y.index = x.index
        /\ y.amount = x.amount /\ y.sequence = x.sequence /\ y.script = x.script
    BY <1>1, <1>2
  <2>2. i # SIZE_MAX
    BY DEF SIZE_MAX
  <2>3. /\ InputAs(u, n, i, hashType) =
             IF n = i THEN TxInputData(bare(y), y.script)
             ELSE TxInputData(IF ends THEN ended(y) ELSE bare(y), <<>>)
        /\ InputAs(t, n, i, hashType) =
             IF n = i THEN TxInputData(bare(x), x.script)
             ELSE TxInputData(IF ends THEN ended(x) ELSE bare(x), <<>>)
    BY <2>2 DEF InputAs
  <2> HIDE DEF x, y, ends
  <2>4. \A s : /\ Outpoint(y) = Outpoint(x) /\ TxInputData(y, s) = TxInputData(x, s)
               /\ TxInputData(bare(y), s) = TxInputData(bare(x), s)
               /\ TxInputData(ended(y), s) = TxInputData(ended(x), s)
    BY <2>1, SimilarInput
  <2> HIDE DEF bare, ended
  <2>5. InputAs(u, n, i, hashType) = InputAs(t, n, i, hashType)
    <3>1. CASE n = i
      BY <2>1, <2>3, <2>4, <3>1
    <3>2. CASE n # i /\ ends
      BY <2>3, <2>4, <3>2
    <3>3. CASE n # i /\ ~ends
      BY <2>3, <2>4, <3>3
    <3> QED
      BY <3>1, <3>2, <3>3
  <2> QED
    BY <2>1, <2>4, <2>5 DEF x, y
<1>4. AllOutpoints(u) = AllOutpoints(t) /\ AllSequences(u) = AllSequences(t)
  <2>1. [n \in 1..m |-> Outpoint(u.inputs[n])] = [n \in 1..m |-> Outpoint(t.inputs[n])]
    BY <1>3
  <2>2. [n \in 1..m |-> LE(u.inputs[n].sequence, W32)] = [n \in 1..m |-> LE(t.inputs[n].sequence, W32)]
    BY <1>3
  <2> QED
    BY <1>1, <2>1, <2>2 DEF AllOutpoints, AllSequences
<1>5. WitnessData(u, i, hashType) = WitnessData(t, i, hashType)
  BY <1>1, <1>2, <1>3, <1>4 DEF WitnessData
<1>6. /\ Shown(u, i, hashType) = Shown(t, i, hashType)
      /\ ShownBytes(u, i, hashType) = ShownBytes(t, i, hashType)
  <2> DEFINE shown == Shown(t, i, hashType)
  <2>1. Shown(u, i, hashType) = shown
    BY <1>1 DEF Shown
  <2>2. \A n \in DOMAIN shown : shown[n] \in 1..m
    BY <1>1 DEF Shown
  <2> HIDE DEF shown
  <2>3. \A n \in DOMAIN shown : InputAs(u, shown[n], i, hashType) = InputAs(t, shown[n], i, hashType)
    BY <1>3, <2>2
  <2>4. [n \in DOMAIN shown |-> InputAs(u, shown[n], i, hashType)] = [n \in DOMAIN shown |-> InputAs(t, shown[n], i, hashType)]
    BY <2>3
  <2> QED
    BY <2>1, <2>4 DEF ShownBytes, shown
<1>7. OutputsFor(u, i, hashType) = OutputsFor(t, i, hashType)
  BY <1>2 DEF OutputsFor
<1>8. ASSUME NEW v
      PROVE  TransactionData(v, i, hashType) =
               CASE IsSet(SIGHASH_FORKID, hashType) -> WitnessData(v, i, hashType)
                 [] ~IsSet(SIGHASH_FORKID, hashType) /\ IsSet(SIGHASH_ANYONECANPAY, hashType)
                      /\ i \notin DOMAIN v.inputs -> <<>>
                 [] OTHER ->
                      LE(v.version, W32) \o BitWVarIntSet(Len(Shown(v, i, hashType)))
                        \o FlattenSeq(ShownBytes(v, i, hashType)) \o OutputsFor(v, i, hashType)
                        \o LE(v.lockTime, W32) \o (IF i = SIZE_MAX THEN <<>> ELSE LE(hashType, W32))
  BY DEF TransactionData, Shown, ShownBytes, OutputsFor
<1> QED
  BY <1>1, <1>2, <1>5, <1>6, <1>7, <1>8

LEMMA SimilarSigns ==
  ASSUME NEW t, Countable(t), NEW u, Countable(u), Similar(t, u), NEW i \in 1..Len(t.inputs),
         NEW keys, NEW forkId, NEW c
  PROVE  /\ Signs(u, i, keys, c) <=> Signs(t, i, keys, c)
         /\ SignerOf(u, i, keys, c) = SignerOf(t, i, keys, c)
         /\ \A k : ScriptSig(u, i, k, forkId) = ScriptSig(t, i, k, forkId)
<1>1. u.inputs[i].script = t.inputs[i].script
  BY DEF Similar
<1>2. TransactionData(u, i, forkId + SIGHASH_ALL) = TransactionData(t, i, forkId + SIGHASH_ALL)
  BY SimilarData
<1> QED
  BY <1>1, <1>2 DEF Signs, SignerOf, ScriptSig

LEMMA SimilarTwice ==
  ASSUME NEW t, NEW u, NEW v, Similar(t, u), Similar(u, v)
  PROVE  Similar(t, v)
BY DEF Similar

LEMMA SignedUpToFacts ==
  ASSUME NEW t, Countable(t), PrimitivesFit, NEW keys \in SUBSET Key, NEW forkId \in ForkIds,
         NEW c \in CoinType
  PROVE  LET u == SignedUpTo(t, keys, forkId, c)
             n == Len(t.inputs)
         IN /\ u[0] = t /\ \A k \in 1..n : u[k] = SignInput(u[k - 1], k, keys, forkId, c)
            /\ \A k \in 0..n : Countable(u[k]) /\ Similar(t, u[k])
<1> DEFINE n == Len(t.inputs)
           T == {s \in Tx : Countable(s) /\ Similar(t, s)}
           step(s, k) == SignInput(s, k, keys, forkId, c)
           F == [k \in 1..n |-> [s \in T |-> step(s, k)]]
           P(f) == f = [k \in 0..n |-> IF k = 0 THEN t ELSE step(f[k - 1], k)]
           u == SignedUpTo(t, keys, forkId, c)
<1>1. n \in Nat /\ t \in T
  BY TxType DEF Countable, Similar
<1>2. ASSUME NEW s \in T, NEW k \in 1..n  PROVE step(s, k) \in T
  <2>1. Countable(s) /\ Similar(t, s) /\ k \in 1..Len(s.inputs)
    BY DEF Similar
  <2>2. Countable(step(s, k)) /\ Similar(s, step(s, k))
    BY <2>1, SignInputFacts
  <2> HIDE DEF step
  <2>3. Similar(t, step(s, k))
    BY <2>1, <2>2, SimilarTwice
  <2> QED
    BY <2>2, <2>3 DEF Countable
<1>3. u = CHOOSE f : P(f)
  BY DEF SignedUpTo
<1>4. \A s \in T : Countable(s) /\ Similar(t, s)
  OBVIOUS
<1> HIDE DEF n, T, step, u
<1>5. F \in [1..n -> [T -> T]] /\ \A k \in 1..n : \A s \in T : F[k][s] = step(s, k)
  BY <1>2
<1> HIDE DEF F
<1>6. PICK h : Iterated(h, n, T, t, F)
  BY <1>1, <1>5, Iterates
<1>7. ASSUME NEW k \in 0..n  PROVE h[k] = IF k = 0 THEN t ELSE step(h[k - 1], k)
  <2>1. CASE k = 0
    BY <1>6, <2>1 DEF Iterated
  <2>2. CASE k # 0
    <3>1. k \in 1..n /\ k - 1 \in 0..n
      BY <1>1, <2>2
    <3>2. h[k - 1] \in T /\ h[k] = F[k][h[k - 1]]
      BY <1>6, <3>1 DEF Iterated
    <3> QED
      BY <1>5, <2>2, <3>1, <3>2
  <2> QED
    BY <2>1, <2>2
<1>8. P(h)
  <2>1. h = [k \in 0..n |-> h[k]]
    BY <1>6 DEF Iterated
  <2> QED
    BY <1>7, <2>1, Zenon
<1>9. P(u)
  <2> HIDE DEF P
  <2> QED
    BY <1>3, <1>8
<1>10. \A k \in 0..n : u[k] = IF k = 0 THEN t ELSE step(u[k - 1], k)
  BY <1>9, Zenon
<1>11. u[0] = t /\ \A k \in 1..n : u[k] = step(u[k - 1], k)
  <2>1. 0 \in 0..n /\ \A k \in 1..n : k \in 0..n /\ k # 0
    BY <1>1
  <2> QED
    BY <1>10, <2>1, Zenon
<1> DEFINE S == {k \in 0..n : u[k] \in T}
<1>12. 0 \in S
  BY <1>1, <1>11
<1>13. ASSUME NEW k \in 1..n, k - 1 \in S  PROVE k \in S
  BY <1>2, <1>11, <1>13
<1>14. \A k \in 0..n : k \in S
  <2> HIDE DEF S
  <2> QED
    BY <1>1, <1>12, <1>13, AllUpTo
<1>15. \A k \in 0..n : Countable(u[k]) /\ Similar(t, u[k])
  BY <1>4, <1>14
<1> QED
  BY <1>11, <1>15 DEF u, n, step

(* An input once signed is not touched by the turns behind it.             *)
LEMMA SignedInputs ==
  ASSUME NEW t, Countable(t), PrimitivesFit, NEW keys \in SUBSET Key, NEW forkId \in ForkIds,
         NEW c \in CoinType
  PROVE  LET v == SignedUpTo(t, keys, forkId, c)[Len(t.inputs)]
         IN /\ Countable(v) /\ Similar(t, v)
            /\ \A i \in 1..Len(t.inputs) : v.inputs[i] =
                 IF Signs(t, i, keys, c)
                 THEN BitWTxInputSetSignature(t.inputs[i],
                        ScriptSig(t, i, SignerOf(t, i, keys, c), forkId), c)
                 ELSE t.inputs[i]
<1> DEFINE n == Len(t.inputs)
           u == SignedUpTo(t, keys, forkId, c)
           New(i) == IF Signs(t, i, keys, c)
                     THEN BitWTxInputSetSignature(t.inputs[i],
                            ScriptSig(t, i, SignerOf(t, i, keys, c), forkId), c)
                     ELSE t.inputs[i]
<1>1. n \in Nat
  BY TxType
<1>2. /\ u[0] = t /\ \A k \in 1..n : u[k] = SignInput(u[k - 1], k, keys, forkId, c)
      /\ \A k \in 0..n : Countable(u[k]) /\ Similar(t, u[k])
  BY SignedUpToFacts
<1> HIDE DEF u
<1>3. ASSUME NEW k \in 1..n
      PROVE  /\ \A i \in 1..n : i # k => u[k].inputs[i] = u[k - 1].inputs[i]
             /\ u[k - 1].inputs[k] = t.inputs[k] => u[k].inputs[k] = New(k)
  <2> DEFINE s == u[k - 1]
             w == u[k]
  <2>1. k - 1 \in 0..n /\ w = SignInput(s, k, keys, forkId, c)
    BY <1>1, <1>2
  <2>2. Countable(s) /\ Similar(t, s)
    BY <1>2, <2>1
  <2> HIDE DEF s, w
  <2>3. Len(s.inputs) = n
    BY <2>2 DEF Similar
  <2>4. /\ \A i \in 1..n : i # k => w.inputs[i] = s.inputs[i]
        /\ w.inputs[k] = IF Signs(s, k, keys, c)
             THEN BitWTxInputSetSignature(s.inputs[k],
                    ScriptSig(s, k, SignerOf(s, k, keys, c), forkId), c)
             ELSE s.inputs[k]
    BY <2>1, <2>2, <2>3, SignInputFacts
  <2>5. /\ Signs(s, k, keys, c) <=> Signs(t, k, keys, c)
        /\ SignerOf(s, k, keys, c) = SignerOf(t, k, keys, c)
        /\ \A j : ScriptSig(s, k, j, forkId) = ScriptSig(t, k, j, forkId)
    BY <2>2, SimilarSigns
  <2>6. s.inputs[k] = t.inputs[k] => w.inputs[k] = New(k)
    <3>1. CASE Signs(t, k, keys, c)
      BY <2>4, <2>5, <3>1
    <3>2. CASE ~Signs(t, k, keys, c)
      BY <2>4, <2>5, <3>2
    <3> QED
      BY <3>1, <3>2
  <2> QED
    BY <2>4, <2>6 DEF s, w
<1> HIDE DEF New
<1> DEFINE S == {k \in 0..n : \A i \in 1..n : u[k].inputs[i] = IF i <= k THEN New(i) ELSE t.inputs[i]}
<1>4. 0 \in S
  BY <1>1, <1>2
<1>5. ASSUME NEW k \in 1..n, k - 1 \in S  PROVE k \in S
  <2>1. k \in 0..n /\ k \in Nat
    BY <1>1
  <2>2. \A i \in 1..n : u[k - 1].inputs[i] = IF i <= k - 1 THEN New(i) ELSE t.inputs[i]
    BY <1>5
  <2>3. ASSUME NEW i \in 1..n  PROVE u[k].inputs[i] = IF i <= k THEN New(i) ELSE t.inputs[i]
    <3>1. CASE i = k
      <4>1. ~(i <= k - 1) /\ i <= k
        BY <2>1, <3>1
      <4>2. u[k - 1].inputs[k] = t.inputs[k]
        BY <2>2, <3>1, <4>1
      <4> QED
        BY <1>3, <3>1, <4>1, <4>2
    <3>2. CASE i # k
      <4>1. i <= k - 1 <=> i <= k
        BY <2>1, <3>2
      <4>2. u[k].inputs[i] = u[k - 1].inputs[i]
        BY <1>3, <3>2
      <4> QED
        BY <2>2, <4>1, <4>2
    <3> QED
      BY <3>1, <3>2
  <2> QED
    BY <2>1, <2>3
<1>6. \A k \in 0..n : k \in S
  <2> HIDE DEF S
  <2> QED
    BY <1>1, <1>4, <1>5, AllUpTo
<1>7. n \in 0..n
  BY <1>1
<1>8. \A i \in 1..n : u[n].inputs[i] = New(i)
  <2>1. \A i \in 1..n : i <= n
    BY <1>1
  <2>2. \A i \in 1..n : u[n].inputs[i] = IF i <= n THEN New(i) ELSE t.inputs[i]
    BY <1>6, <1>7
  <2> QED
    BY <2>1, <2>2
<1>9. Countable(u[n]) /\ Similar(t, u[n])
  BY <1>2, <1>7
<1> QED
  BY <1>8, <1>9 DEF u, n, New

(* A signed transaction: every input that one of the keys can sign is, and *)
(* if no input is left its hash is that of what is serialised.             *)
LEMMA SignFacts ==
  ASSUME NEW t, Countable(t), PrimitivesFit, NEW keys \in SUBSET Key, NEW forkId \in ForkIds,
         NEW c \in CoinType
  PROVE  LET r == BitWTransactionSign(t, keys, forkId, c)
         IN /\ Countable(r)
            /\ r.version = t.version /\ r.lockTime = t.lockTime /\ r.outputs = t.outputs
            /\ Len(r.inputs) = Len(t.inputs)
            /\ \A i \in 1..Len(t.inputs) :
                 /\ r.inputs[i] =
                      IF Signs(t, i, keys, c)
                      THEN BitWTxInputSetSignature(t.inputs[i],
                             ScriptSig(t, i, SignerOf(t, i, keys, c), forkId), c)
                      ELSE t.inputs[i]
                 /\ \A hashType : TransactionData(r, i, hashType) = TransactionData(t, i, hashType)
            /\ BitWTransactionIsSigned(r) => r.txHash = Sha256d(Written(r))
<1> DEFINE v == SignedUpTo(t, keys, forkId, c)[Len(t.inputs)]
           r == BitWTransactionSign(t, keys, forkId, c)
           new == Sha256d(TransactionData(v, SIZE_MAX, 0))
<1>1. /\ Countable(v) /\ Similar(t, v)
      /\ \A i \in 1..Len(t.inputs) : v.inputs[i] =
           IF Signs(t, i, keys, c)
           THEN BitWTxInputSetSignature(t.inputs[i],
                  ScriptSig(t, i, SignerOf(t, i, keys, c), forkId), c)
           ELSE t.inputs[i]
  BY SignedInputs
<1>2. r = IF BitWTransactionIsSigned(v) THEN [v EXCEPT !.txHash = new] ELSE v
  BY DEF BitWTransactionSign, Hashed
<1> HIDE DEF v
<1>3. new = Sha256d(Written(v)) /\ new \in Hash
  <2>1. TransactionData(v, SIZE_MAX, 0) = Written(v)
    BY <1>1, SerialisedIs
  <2>2. Written(v) \in Seq(Byte)
    BY <1>1, WrittenType
  <2> QED
    BY <2>1, <2>2, HashBytes
<1> HIDE DEF new, r
<1>4. /\ v \in Tx /\ Len(v.inputs) < Span(W64) /\ Len(v.outputs) < Span(W64)
      /\ DOMAIN v = {"txHash", "version", "inputs", "outputs", "lockTime"}
  BY <1>1 DEF Countable, Tx
<1>5. /\ r.version = v.version /\ r.lockTime = v.lockTime /\ r.outputs = v.outputs
      /\ r.inputs = v.inputs /\ r \in Tx
      /\ BitWTransactionIsSigned(v) => r.txHash = new
  <2>1. CASE BitWTransactionIsSigned(v)
    <3>1. r = [v EXCEPT !.txHash = new]
      BY <1>2, <2>1
    <3> QED
      BY <1>3, <1>4, <3>1 DEF Tx
  <2>2. CASE ~BitWTransactionIsSigned(v)
    <3>1. r = v
      BY <1>2, <2>2
    <3> QED
      BY <1>4, <2>2, <3>1
  <2> QED
    BY <2>1, <2>2
<1>6. Countable(r)
  BY <1>4, <1>5 DEF Countable
<1>7. BitWTransactionIsSigned(r) => r.txHash = Sha256d(Written(r))
  <2>1. BitWTransactionIsSigned(r) <=> BitWTransactionIsSigned(v)
    BY <1>5 DEF BitWTransactionIsSigned
  <2>2. Written(r) = Written(v)
    BY <1>5 DEF Written, InputsWritten, OutputsWritten
  <2> QED
    BY <1>3, <1>5, <2>1, <2>2
<1>8. ASSUME NEW i \in 1..Len(t.inputs), NEW hashType
      PROVE  TransactionData(r, i, hashType) = TransactionData(t, i, hashType)
  <2>1. Len(v.inputs) = Len(t.inputs)
    BY <1>1 DEF Similar
  <2>2. TransactionData(r, i, hashType) = TransactionData(v, i, hashType)
    <3> DEFINE w == [v EXCEPT !.txHash = r.txHash]
    <3>1. \A x, y : x.version = y.version /\ x.lockTime = y.lockTime /\ x.outputs = y.outputs
                      /\ x.inputs = y.inputs =>
                        TransactionData(x, i, hashType) = TransactionData(y, i, hashType)
      BY DEF TransactionData, WitnessData, InputAs, AllOutpoints, AllSequences
    <3> QED
      BY <1>5, <3>1
  <2>3. TransactionData(v, i, hashType) = TransactionData(t, i, hashType)
    BY <1>1, SimilarData
  <2> QED
    BY <2>2, <2>3
<1>9. /\ r.version = t.version /\ r.lockTime = t.lockTime /\ r.outputs = t.outputs
      /\ Len(r.inputs) = Len(t.inputs)
  BY <1>1, <1>5 DEF Similar
<1>10. \A i \in 1..Len(t.inputs) : r.inputs[i] =
         IF Signs(t, i, keys, c)
         THEN BitWTxInputSetSignature(t.inputs[i],
                ScriptSig(t, i, SignerOf(t, i, keys, c), forkId), c)
         ELSE t.inputs[i]
  BY <1>1, <1>5
<1> QED
  BY <1>6, <1>7, <1>8, <1>9, <1>10 DEF r

-----------------------------------------------------------------------------
(* Parsing: whatever bytes are read, what comes out is a transaction.      *)

LEMMA VarIntType ==
  ASSUME NEW b \in Seq(Byte), NEW off \in Nat
  PROVE  LET v == BitWVarInt(b, off)
         IN /\ v.value \in Uint(W64) /\ v.value \in Nat /\ v.len \in Nat /\ v.len > 0
            /\ off + v.len > Len(b) => off + 1 > Len(b) \/ v.value = 0
            /\ off + 1 > Len(b) => v.value = 0
<1> DEFINE h == GetLE(b, off, 1)
           w == VarIntWidth(h)
           x == GetLE(b, off + 1, w)
           v == BitWVarInt(b, off)
<1>1. h \in Uint(1) /\ h \in Nat /\ (off + 1 > Len(b) => h = 0)
  BY AtType
<1>2. w \in {0, W16, W32, W64} /\ w \in Nat
  BY Widths DEF VarIntWidth
<1>3. x \in Uint(w) /\ x \in Nat /\ (off + 1 + w > Len(b) => x = 0)
  <2>1. off + 1 \in Nat
    OBVIOUS
  <2> HIDE DEF w
  <2> QED
    BY <1>2, <2>1, AtType
<1>4. v = [value |-> IF w = 0 THEN h ELSE x, len |-> 1 + w]
  BY DEF BitWVarInt, VarIntBehind
<1>5. h = 0 => w = 0
  <2>1. VAR_INT16_HEADER # 0 /\ VAR_INT32_HEADER # 0 /\ VAR_INT64_HEADER # 0
    BY BitsFacts DEF VAR_INT16_HEADER, VAR_INT32_HEADER, VAR_INT64_HEADER
  <2> QED
    BY <2>1 DEF VarIntWidth
<1> HIDE DEF h, w, x, v
<1>6. v.value \in Uint(W64) /\ v.value \in Nat /\ v.len \in Nat /\ v.len > 0
  <2>1. h \in Uint(W64)
    BY <1>1, Sized
  <2>2. x \in Uint(W64) \/ w = 0
    BY <1>2, <1>3, Sized
  <2>3. v.value \in {h, x} /\ (w = 0 => v.value = h) /\ v.len = 1 + w
    BY <1>4
  <2>4. v.value \in Uint(W64)
    BY <2>1, <2>2, <2>3
  <2> QED
    BY <1>1, <1>2, <1>3, <2>3, <2>4
<1>7. off + 1 > Len(b) => v.value = 0
  BY <1>1, <1>4, <1>5
<1>8. off + v.len > Len(b) => off + 1 > Len(b) \/ v.value = 0
  <2>1. Len(b) \in Nat
    OBVIOUS
  <2>2. CASE w = 0
    BY <1>4, <2>1, <2>2
  <2>3. CASE w # 0
    <3>1. v.value = x /\ v.len = 1 + w
      BY <1>4, <2>3
    <3>2. off + (1 + w) = off + 1 + w
      BY <1>2
    <3> QED
      BY <1>3, <3>1, <3>2
  <2> QED
    BY <2>2, <2>3
<1> QED
  BY <1>6, <1>7, <1>8 DEF v

LEMMA ScriptAtType ==
  ASSUME NEW b \in Seq(Byte), NEW off \in Nat
  PROVE  LET s == ScriptAt(b, off)
         IN s.bytes \in Script /\ s.end \in Nat /\ s.end > off
<1> DEFINE v == BitWVarInt(b, off)
           n == v.value
           at == off + v.len
<1>1. n \in Uint(W64) /\ n \in Nat /\ v.len \in Nat /\ v.len > 0
  BY VarIntType
<1> HIDE DEF v
<1>2. ScriptAt(b, off) = [bytes |-> At(b, at, n), end |-> at + n]
  BY DEF ScriptAt, ScriptOf, ScriptBehind, v
<1>3. at \in Nat /\ at > off
  BY <1>1
<1> HIDE DEF n, at
<1>4. At(b, at, n) \in Seq(Byte) /\ Len(At(b, at, n)) = n
  BY <1>1, <1>3, AtType
<1>5. n < Span(W64)
  BY <1>1, Sized DEF Uint
<1> QED
  BY <1>1, <1>2, <1>3, <1>4, <1>5 DEF Script

LEMMA NewInputType ==
  ASSUME NEW h \in Hash, NEW index \in Uint(W32), NEW amount \in Uint(W64), NEW sequence \in Uint(W32)
  PROVE  LET in == NewInput(h, index, amount, sequence)
         IN /\ in \in Input /\ in.signature = NULL /\ in.script = <<>> /\ in.address = <<>>
            /\ in.txHash = h /\ in.index = index /\ in.amount = amount /\ in.sequence = sequence
<1>1. <<>> \in Seq(Byte) /\ Len(<<>>) = 0
  OBVIOUS
<1>2. Span(W64) \in Nat /\ Span(W64) > 0
  BY Widths, SpanStep
<1>3. <<>> \in Script
  BY <1>1, <1>2 DEF Script
<1> QED
  BY <1>1, <1>3 DEF NewInput, Input, NULL

LEMMA ScriptInputType ==
  ASSUME PrimitivesFit, NEW in \in Input, NEW script \in Script
  PROVE  LET new == BitWTxInputSetScript(in, script)
         IN /\ new \in Input /\ new.signature = in.signature /\ new.script = script
            /\ new.address = BitWAddressFromScriptPubKey(script, "BTC")
            /\ new.amount = in.amount /\ new.sequence = in.sequence
            /\ new.txHash = in.txHash /\ new.index = in.index
<1> DEFINE addr == BitWAddressFromScriptPubKey(script, "BTC")
<1>1. addr \in Seq(Byte)
  <2>1. "BTC" \in CoinType
    BY VersionAssumption DEF CoinType
  <2> QED
    BY <2>1, PaidType DEF Script
<1> HIDE DEF addr
<1>2. BitWTxInputSetScript(in, script) = [in EXCEPT !.script = script, !.address = addr]
  BY DEF BitWTxInputSetScript, addr
<1>3. LET new == [in EXCEPT !.script = script, !.address = addr]
      IN /\ new \in Input /\ new.signature = in.signature /\ new.script = script
         /\ new.address = addr
         /\ new.amount = in.amount /\ new.sequence = in.sequence
         /\ new.txHash = in.txHash /\ new.index = in.index
  BY <1>1 DEF Input
<1> QED
  BY <1>2, <1>3 DEF addr

LEMMA InputAtType ==
  ASSUME NEW b \in Seq(Byte), NEW c \in CoinType, NEW off \in Nat, PrimitivesFit
  PROVE  LET in == InputAt(b, c, off)
         IN /\ in \in Input
            /\ in.signature # NULL => BitWAddressFromScriptPubKey(in.signature[1], c) = <<>>
<1> DEFINE script == InputScript(b, off)
           unsigned == CouldReceive(b, c, script)
           h == At(b, off, HASH)
           index == GetLE(b, off + HASH, W32)
           amount == IF unsigned THEN GetLE(b, script.end, W64) ELSE 0
           sequence == GetLE(b, script.end, W32)
           read == NewInput(h, index, amount, sequence)
           in == InputAt(b, c, off)
<1>1. off + HASH \in Nat /\ off + HASH + W32 \in Nat /\ HASH \in Nat /\ W32 \in Nat /\ W64 \in Nat
  BY Widths
<1>2. script.bytes \in Script /\ script.end \in Nat
  BY <1>1, ScriptAtType DEF InputScript
<1> HIDE DEF script
<1>3. h \in Hash
  <2>1. h \in Seq(Byte) /\ Len(h) = HASH
    BY <1>1, AtType
  <2> QED
    BY <2>1, Widths
<1>4. index \in Uint(W32) /\ sequence \in Uint(W32) /\ amount \in Uint(W64)
  <2>1. index \in Uint(W32)
    BY <1>1, AtType
  <2>2. sequence \in Uint(W32) /\ GetLE(b, script.end, W64) \in Uint(W64)
    BY <1>1, <1>2, AtType
  <2>3. 0 \in Uint(W64)
    BY Widths
  <2> QED
    BY <2>1, <2>2, <2>3
<1>5. in = CASE unsigned -> BitWTxInputSetScript(read, script.bytes)
             [] ~unsigned /\ script.end <= Len(b) -> BitWTxInputSetSignature(read, script.bytes, c)
             [] OTHER -> read
  BY DEF InputAt, ReadInput, script
<1> HIDE DEF h, index, amount, sequence
<1>6. read \in Input /\ read.signature = NULL
  BY <1>3, <1>4, NewInputType
<1> HIDE DEF read, in
<1>7. CASE unsigned
  <2>1. in = BitWTxInputSetScript(read, script.bytes)
    BY <1>5, <1>7
  <2> QED
    BY <1>2, <1>6, <2>1, ScriptInputType DEF in
<1>8. CASE ~unsigned /\ script.end <= Len(b)
  <2>1. in = BitWTxInputSetSignature(read, script.bytes, c)
    BY <1>5, <1>8
  <2>2. in \in Input /\ in.signature = <<script.bytes>>
    BY <1>2, <1>6, <2>1, NewSignature
  <2>3. in.signature[1] = script.bytes
    BY <2>2
  <2>4. BitWAddressFromScriptPubKey(script.bytes, c) = <<>>
    BY <1>8 DEF CouldReceive
  <2> QED
    BY <2>2, <2>3, <2>4 DEF in
<1>9. CASE ~unsigned /\ ~(script.end <= Len(b))
  <2>1. in = read
    BY <1>5, <1>9
  <2> QED
    BY <1>6, <2>1 DEF in
<1> QED
  BY <1>7, <1>8, <1>9

LEMMA EmptyPays == \A c : BitWAddressFromScriptPubKey(<<>>, c) = <<>>
<1> DEFINE h == Heads(<<>>)
           at == BitWScriptElements(<<>>)
<1>1. <<>> \in Seq(Byte) /\ Len(<<>>) = 0
  OBVIOUS
<1>2. h \in Seq(Byte) /\ Len(h) = 0
  <2>1. /\ h \in Seq(Byte) /\ Len(h) \in Nat
        /\ Len(h) # 0 => \A n \in 1..Len(h) : at[n] \in 0..(Len(<<>>) - 1)
    BY <1>1, HeadsFacts
  <2> HIDE DEF h, at
  <2>2. ASSUME Len(h) # 0  PROVE FALSE
    <3>1. at[1] \in 0..(0 - 1)
      BY <1>1, <2>1, <2>2
    <3> QED
      BY <3>1
  <2> QED
    BY <2>1, <2>2
<1> HIDE DEF h
<1>3. ~PaysPubkeyHash(h) /\ ~PaysScriptHash(h) /\ ~PaysPubkey(h)
  BY <1>2 DEF PaysPubkeyHash, PaysScriptHash, PaysPubkey
<1> QED
  BY <1>3 DEF BitWAddressFromScriptPubKey, AddressPaid, h

LEMMA ScriptOutputType ==
  ASSUME PrimitivesFit, NEW amount \in Uint(W64), NEW script \in Script, NEW c \in CoinType
  PROVE  LET new == BitWTxOutputSetScript(NewOutput(amount), script, c)
         IN /\ new \in Output /\ new.amount = amount /\ new.script = script
            /\ new.address = BitWAddressFromScriptPubKey(script, c)
            /\ new = [address |-> BitWAddressFromScriptPubKey(script, c), amount |-> amount,
                      script |-> script]
<1> DEFINE addr == BitWAddressFromScriptPubKey(script, c)
<1>1. addr \in Seq(Byte)
  BY PaidType DEF Script
<1> HIDE DEF addr
<1>2. BitWTxOutputSetScript(NewOutput(amount), script, c) =
        [address |-> addr, amount |-> amount, script |-> script]
  <2> DEFINE out == NewOutput(amount)
  <2>1. out = [address |-> <<>>, amount |-> amount, script |-> <<>>]
    BY DEF NewOutput
  <2>2. BitWTxOutputSetScript(out, script, c) = [out EXCEPT !.script = script, !.address = addr]
    BY DEF BitWTxOutputSetScript, addr
  <2> HIDE DEF out
  <2>3. [out EXCEPT !.script = script, !.address = addr] =
          [address |-> addr, amount |-> amount, script |-> script]
    <3> DEFINE x == [out EXCEPT !.script = script]
    <3>1. x = [address |-> <<>>, amount |-> amount, script |-> script]
      BY <2>1
    <3> HIDE DEF x
    <3>2. [x EXCEPT !.address = addr] = [address |-> addr, amount |-> amount, script |-> script]
      BY <3>1
    <3> QED
      BY <3>2 DEF x
  <2> QED
    BY <2>2, <2>3 DEF out
<1> QED
  BY <1>1, <1>2 DEF Output, addr

LEMMA OutputAtType ==
  ASSUME NEW b \in Seq(Byte), NEW c \in CoinType, NEW off \in Nat, PrimitivesFit
  PROVE  LET out == OutputAt(b, c, off)
         IN out \in Output /\ out.address = BitWAddressFromScriptPubKey(out.script, c)
<1> DEFINE script == OutputScript(b, off)
           amount == GetLE(b, off, W64)
           out == OutputAt(b, c, off)
<1>1. off + W64 \in Nat /\ W64 \in Nat
  BY Widths
<1>2. script.bytes \in Script /\ script.end \in Nat
  BY <1>1, ScriptAtType DEF OutputScript
<1>3. amount \in Uint(W64)
  BY <1>1, AtType
<1>4. out = IF script.end <= Len(b)
            THEN BitWTxOutputSetScript(NewOutput(amount), script.bytes, c) ELSE NewOutput(amount)
  BY DEF OutputAt, ReadOutput
<1> HIDE DEF script, amount, out
<1>5. CASE script.end <= Len(b)
  <2>1. out = BitWTxOutputSetScript(NewOutput(amount), script.bytes, c)
    BY <1>4, <1>5
  <2> QED
    BY <1>2, <1>3, <2>1, ScriptOutputType DEF out
<1>6. CASE ~(script.end <= Len(b))
  <2>1. out = [address |-> <<>>, amount |-> amount, script |-> <<>>]
    BY <1>4, <1>6 DEF NewOutput
  <2>2. <<>> \in Seq(Byte) /\ Len(<<>>) = 0
    OBVIOUS
  <2>3. Span(W64) \in Nat /\ Span(W64) > 0
    BY Widths, SpanStep
  <2>4. <<>> \in Script
    BY <2>2, <2>3 DEF Script
  <2> QED
    BY <1>3, <2>1, <2>2, <2>4, EmptyPays DEF Output, out
<1> QED
  BY <1>5, <1>6

LEMMA NextInputType ==
  ASSUME NEW b \in Seq(Byte), NEW off \in Nat
  PROVE  /\ NextInput(b, off) \in Nat /\ off <= NextInput(b, off)
         /\ off <= Len(b) => off < NextInput(b, off)
<1>1. off + HASH + W32 \in Nat /\ off + HASH + W32 >= off /\ W32 \in Nat /\ Len(b) \in Nat
  BY Widths
<1>2. InputScript(b, off).end \in Nat /\ InputScript(b, off).end > off + HASH + W32
  BY <1>1, ScriptAtType DEF InputScript
<1> QED
  BY <1>1, <1>2 DEF NextInput

LEMMA NextOutputType ==
  ASSUME NEW b \in Seq(Byte), NEW off \in Nat
  PROVE  /\ NextOutput(b, off) \in Nat /\ off <= NextOutput(b, off)
         /\ off <= Len(b) => off < NextOutput(b, off)
<1>1. off + W64 \in Nat /\ off + W64 >= off /\ Len(b) \in Nat
  BY Widths
<1>2. OutputScript(b, off).end \in Nat /\ OutputScript(b, off).end > off + W64
  BY <1>1, ScriptAtType DEF OutputScript
<1> QED
  BY <1>1, <1>2 DEF NextOutput

LEMMA InputOffsetsFacts ==
  ASSUME NEW b \in Seq(Byte), NEW off \in Nat, NEW n \in Nat
  PROVE  LET at == InputOffsets(b, off, n)
         IN /\ at[0] = off /\ \A k \in 1..n : at[k] = NextInput(b, at[k - 1])
            /\ \A k \in 0..n : at[k] \in Nat
<1> DEFINE g(s) == NextInput(b, s)
           F == [k \in 1..n |-> [s \in Nat |-> g(s)]]
           P(f) == f = [k \in 0..n |-> IF k = 0 THEN off ELSE g(f[k - 1])]
           at == InputOffsets(b, off, n)
<1>1. at = CHOOSE f : P(f)
  BY DEF InputOffsets
<1>2. \A s \in Nat : g(s) \in Nat
  BY NextInputType
<1> HIDE DEF g, at
<1>3. F \in [1..n -> [Nat -> Nat]] /\ \A k \in 1..n : \A s \in Nat : F[k][s] = g(s)
  BY <1>2
<1> HIDE DEF F
<1>4. PICK h : Iterated(h, n, Nat, off, F)
  BY <1>3, Iterates
<1>5. ASSUME NEW k \in 0..n  PROVE h[k] = IF k = 0 THEN off ELSE g(h[k - 1])
  <2>1. CASE k = 0
    BY <1>4, <2>1 DEF Iterated
  <2>2. CASE k # 0
    <3>1. k \in 1..n /\ k - 1 \in 0..n
      BY <2>2
    <3>2. h[k - 1] \in Nat /\ h[k] = F[k][h[k - 1]]
      BY <1>4, <3>1 DEF Iterated
    <3> QED
      BY <1>3, <2>2, <3>1, <3>2
  <2> QED
    BY <2>1, <2>2
<1>6. P(h)
  <2>1. h = [k \in 0..n |-> h[k]]
    BY <1>4 DEF Iterated
  <2> QED
    BY <1>5, <2>1, Zenon
<1>7. P(at)
  <2> HIDE DEF P
  <2> QED
    BY <1>1, <1>6
<1>8. \A k \in 0..n : at[k] = IF k = 0 THEN off ELSE g(at[k - 1])
  BY <1>7, Zenon
<1>9. at[0] = off /\ \A k \in 1..n : at[k] = g(at[k - 1])
  <2>1. 0 \in 0..n /\ \A k \in 1..n : k \in 0..n /\ k # 0
    OBVIOUS
  <2> QED
    BY <1>8, <2>1, Zenon
<1> DEFINE S == {k \in 0..n : at[k] \in Nat}
<1>10. 0 \in S
  BY <1>9
<1>11. ASSUME NEW k \in 1..n, k - 1 \in S  PROVE k \in S
  <2>1. at[k - 1] \in Nat /\ k \in 0..n
    BY <1>11
  <2>2. at[k] = g(at[k - 1])
    BY <1>9
  <2> QED
    BY <1>2, <2>1, <2>2
<1>12. \A k \in 0..n : k \in S
  <2> HIDE DEF S
  <2> QED
    BY <1>10, <1>11, AllUpTo
<1> QED
  BY <1>9, <1>12 DEF at, g

LEMMA OutputOffsetsFacts ==
  ASSUME NEW b \in Seq(Byte), NEW off \in Nat, NEW n \in Nat
  PROVE  LET at == OutputOffsets(b, off, n)
         IN /\ at[0] = off /\ \A k \in 1..n : at[k] = NextOutput(b, at[k - 1])
            /\ \A k \in 0..n : at[k] \in Nat
<1> DEFINE g(s) == NextOutput(b, s)
           F == [k \in 1..n |-> [s \in Nat |-> g(s)]]
           P(f) == f = [k \in 0..n |-> IF k = 0 THEN off ELSE g(f[k - 1])]
           at == OutputOffsets(b, off, n)
<1>1. at = CHOOSE f : P(f)
  BY DEF OutputOffsets
<1>2. \A s \in Nat : g(s) \in Nat
  BY NextOutputType
<1> HIDE DEF g, at
<1>3. F \in [1..n -> [Nat -> Nat]] /\ \A k \in 1..n : \A s \in Nat : F[k][s] = g(s)
  BY <1>2
<1> HIDE DEF F
<1>4. PICK h : Iterated(h, n, Nat, off, F)
  BY <1>3, Iterates
<1>5. ASSUME NEW k \in 0..n  PROVE h[k] = IF k = 0 THEN off ELSE g(h[k - 1])
  <2>1. CASE k = 0
    BY <1>4, <2>1 DEF Iterated
  <2>2. CASE k # 0
    <3>1. k \in 1..n /\ k - 1 \in 0..n
      BY <2>2
    <3>2. h[k - 1] \in Nat /\ h[k] = F[k][h[k - 1]]
      BY <1>4, <3>1 DEF Iterated
    <3> QED
      BY <1>3, <2>2, <3>1, <3>2
  <2> QED
    BY <2>1, <2>2
<1>6. P(h)
  <2>1. h = [k \in 0..n |-> h[k]]
    BY <1>4 DEF Iterated
  <2> QED
    BY <1>5, <2>1, Zenon
<1>7. P(at)
  <2> HIDE DEF P
  <2> QED
    BY <1>1, <1>6
<1>8. \A k \in 0..n : at[k] = IF k = 0 THEN off ELSE g(at[k - 1])
  BY <1>7, Zenon
<1>9. at[0] = off /\ \A k \in 1..n : at[k] = g(at[k - 1])
  <2>1. 0 \in 0..n /\ \A k \in 1..n : k \in 0..n /\ k # 0
    OBVIOUS
  <2> QED
    BY <1>8, <2>1, Zenon
<1> DEFINE S == {k \in 0..n : at[k] \in Nat}
<1>10. 0 \in S
  BY <1>9
<1>11. ASSUME NEW k \in 1..n, k - 1 \in S  PROVE k \in S
  <2>1. at[k - 1] \in Nat /\ k \in 0..n
    BY <1>11
  <2>2. at[k] = g(at[k - 1])
    BY <1>9
  <2> QED
    BY <1>2, <2>1, <2>2
<1>12. \A k \in 0..n : k \in S
  <2> HIDE DEF S
  <2> QED
    BY <1>10, <1>11, AllUpTo
<1> QED
  BY <1>9, <1>12 DEF at, g

(* Signatures that would be read as such, outputs with their addresses.    *)
SignaturesPayNothing(t, c) ==
  \A n \in 1..Len(t.inputs) : t.inputs[n].signature # NULL =>
    BitWAddressFromScriptPubKey(t.inputs[n].signature[1], c) = <<>>
OutputsAddressed(t, c) ==
  \A n \in 1..Len(t.outputs) :
    t.outputs[n].address = BitWAddressFromScriptPubKey(t.outputs[n].script, c)
Fits(t, c) == Countable(t) /\ SignaturesPayNothing(t, c) /\ OutputsAddressed(t, c)

LEMMA ListOf ==
  ASSUME NEW S, NEW n \in Nat, NEW F \in [1..n -> S]
  PROVE  F \in Seq(S) /\ Len(F) = n
OBVIOUS

LEMMA ParseInputsType ==
  ASSUME NEW b \in Seq(Byte), NEW c \in CoinType, NEW off \in Nat, NEW count \in Uint(W64),
         PrimitivesFit
  PROVE  LET ins == ParseInputs(b, c, off, count)
         IN /\ ins.off \in Nat /\ ins.all \in Seq(Input) /\ Len(ins.all) <= count
            /\ \A n \in 1..Len(ins.all) : ins.all[n].signature # NULL =>
                 BitWAddressFromScriptPubKey(ins.all[n].signature[1], c) = <<>>
<1> DEFINE n == Min2(count, Len(b))
           at == InputOffsets(b, off, n)
           all == [k \in 1..n |-> InputAt(b, c, at[k - 1])]
<1>1. n \in Nat /\ n <= count
  <2>1. count \in Nat /\ Len(b) \in Nat
    BY Widths
  <2> QED
    BY <2>1 DEF Min2
<1> HIDE DEF n
<1>2. \A k \in 0..n : at[k] \in Nat
  BY <1>1, InputOffsetsFacts
<1> HIDE DEF at
<1>3. ASSUME NEW k \in 1..n
      PROVE  LET in == InputAt(b, c, at[k - 1])
             IN /\ in \in Input
                /\ in.signature # NULL => BitWAddressFromScriptPubKey(in.signature[1], c) = <<>>
  <2>1. k - 1 \in 0..n
    BY <1>1
  <2> QED
    BY <1>2, <2>1, InputAtType
<1>4. all \in [1..n -> Input] /\ \A k \in 1..n : all[k] = InputAt(b, c, at[k - 1])
  BY <1>3
<1>5. ParseInputs(b, c, off, count) = [off |-> at[n], all |-> all]
  BY DEF ParseInputs, n, at
<1> HIDE DEF all
<1>6. all \in Seq(Input) /\ Len(all) = n
  BY <1>1, <1>4, ListOf
<1>7. at[n] \in Nat
  BY <1>1, <1>2
<1> QED
  BY <1>1, <1>3, <1>4, <1>5, <1>6, <1>7

LEMMA ParseOutputsType ==
  ASSUME NEW b \in Seq(Byte), NEW c \in CoinType, NEW off \in Nat, NEW count \in Uint(W64),
         PrimitivesFit
  PROVE  LET outs == ParseOutputs(b, c, off, count)
         IN /\ outs.off \in Nat /\ outs.all \in Seq(Output) /\ Len(outs.all) <= count
            /\ \A n \in 1..Len(outs.all) :
                 outs.all[n].address = BitWAddressFromScriptPubKey(outs.all[n].script, c)
<1> DEFINE n == Min2(count, Len(b))
           at == OutputOffsets(b, off, n)
           all == [k \in 1..n |-> OutputAt(b, c, at[k - 1])]
<1>1. n \in Nat /\ n <= count
  <2>1. count \in Nat /\ Len(b) \in Nat
    BY Widths
  <2> QED
    BY <2>1 DEF Min2
<1> HIDE DEF n
<1>2. \A k \in 0..n : at[k] \in Nat
  BY <1>1, OutputOffsetsFacts
<1> HIDE DEF at
<1>3. ASSUME NEW k \in 1..n
      PROVE  LET out == OutputAt(b, c, at[k - 1])
             IN out \in Output /\ out.address = BitWAddressFromScriptPubKey(out.script, c)
  <2>1. k - 1 \in 0..n
    BY <1>1
  <2> QED
    BY <1>2, <2>1, OutputAtType
<1>4. all \in [1..n -> Output] /\ \A k \in 1..n : all[k] = OutputAt(b, c, at[k - 1])
  BY <1>3
<1>5. ParseOutputs(b, c, off, count) = [off |-> at[n], all |-> all]
  BY DEF ParseOutputs, n, at
<1> HIDE DEF all
<1>6. all \in Seq(Output) /\ Len(all) = n
  BY <1>1, <1>4, ListOf
<1>7. at[n] \in Nat
  BY <1>1, <1>2
<1> QED
  BY <1>1, <1>3, <1>4, <1>5, <1>6, <1>7

(* An input that was read has a script or a signature.                     *)
LEMMA UnsignedOrBare ==
  ASSUME NEW b \in Seq(Byte), NEW c \in CoinType, NEW off \in Nat, PrimitivesFit,
         InputAt(b, c, off).signature # NULL
  PROVE  InputAt(b, c, off).script = <<>>
<1> DEFINE script == InputScript(b, off)
           unsigned == CouldReceive(b, c, script)
           h == At(b, off, HASH)
           index == GetLE(b, off + HASH, W32)
           amount == IF unsigned THEN GetLE(b, script.end, W64) ELSE 0
           sequence == GetLE(b, script.end, W32)
           read == NewInput(h, index, amount, sequence)
           in == InputAt(b, c, off)
<1>1. in = CASE unsigned -> BitWTxInputSetScript(read, script.bytes)
             [] ~unsigned /\ script.end <= Len(b) -> BitWTxInputSetSignature(read, script.bytes, c)
             [] OTHER -> read
  BY DEF InputAt, ReadInput
<1> HIDE DEF script, unsigned, h, index, amount, sequence, in
<1>2. /\ read.signature = NULL /\ read.script = <<>>
      /\ DOMAIN read = {"txHash", "index", "address", "amount", "script", "signature", "sequence"}
  BY DEF NewInput
<1> HIDE DEF read
<1>3. BitWTxInputSetScript(read, script.bytes).signature = NULL
  BY <1>2 DEF BitWTxInputSetScript
<1>4. BitWTxInputSetSignature(read, script.bytes, c).script = <<>>
  BY <1>2 DEF BitWTxInputSetSignature
<1>5. in.signature # NULL
  BY DEF in
<1>6. in.script = <<>>
  <2>1. CASE unsigned
    BY <1>1, <1>3, <1>5, <2>1
  <2>2. CASE ~unsigned /\ script.end <= Len(b)
    BY <1>1, <1>4, <2>2
  <2>3. CASE ~unsigned /\ ~(script.end <= Len(b))
    BY <1>1, <1>2, <1>5, <2>3
  <2> QED
    BY <2>1, <2>2, <2>3
<1> QED
  BY <1>6 DEF in

LEMMA ParsedType ==
  ASSUME NEW b \in Seq(Byte), NEW c \in CoinType, PrimitivesFit
  PROVE  \A back \in ToSet(BitWTransactionParse(b, c)) :
           /\ Fits(back, c)
           /\ \A n \in 1..Len(back.inputs) :
                back.inputs[n].signature # NULL => back.inputs[n].script = <<>>
<1> DEFINE inCount == BitWVarInt(b, W32)
           ins == ParseInputs(b, c, W32 + inCount.len, inCount.value)
           outCount == BitWVarInt(b, ins.off)
           outs == ParseOutputs(b, c, ins.off + outCount.len, outCount.value)
           end == outs.off + W32
           isSigned == \A n \in DOMAIN ins.all : ins.all[n].script = <<>>
           version == GetLE(b, 0, W32)
           lock == GetLE(b, outs.off, W32)
           t == [txHash |-> Zeros(HASH), version |-> version, inputs |-> ins.all,
                 outputs |-> outs.all, lockTime |-> lock]
           new == IF isSigned THEN [t EXCEPT !.txHash = Sha256d(SubSeq(b, 1, end))] ELSE t
<1>1. BitWTransactionParse(b, c) =
        IF inCount.value = 0 THEN NULL
        ELSE IF end > Len(b) THEN NULL ELSE <<new>>
  BY DEF BitWTransactionParse, ParseFromInputs, ParseBehindInputs, ParseFromOutputs, Parsed
<1>2. W32 \in Nat /\ 0 \in Nat /\ Len(b) \in Nat
  BY Widths
<1>3. inCount.value \in Uint(W64) /\ inCount.len \in Nat
  BY <1>2, VarIntType
<1> HIDE DEF inCount
<1>4. /\ ins.off \in Nat /\ ins.all \in Seq(Input) /\ Len(ins.all) <= inCount.value
      /\ \A n \in 1..Len(ins.all) : ins.all[n].signature # NULL =>
           BitWAddressFromScriptPubKey(ins.all[n].signature[1], c) = <<>>
  <2>1. W32 + inCount.len \in Nat
    BY <1>2, <1>3
  <2> QED
    BY <1>3, <2>1, ParseInputsType
<1>5. \A n \in 1..Len(ins.all) : ins.all[n].signature # NULL => ins.all[n].script = <<>>
  <2> DEFINE m == Min2(inCount.value, Len(b))
             at == InputOffsets(b, W32 + inCount.len, m)
  <2>1. m \in Nat
    BY <1>2, <1>3, Widths DEF Min2
  <2>2. \A k \in 0..m : at[k] \in Nat
    <3>1. W32 + inCount.len \in Nat
      BY <1>2, <1>3
    <3> HIDE DEF m
    <3> QED
      BY <2>1, <3>1, InputOffsetsFacts
  <2>3. ins.all = [k \in 1..m |-> InputAt(b, c, at[k - 1])]
    BY DEF ParseInputs
  <2> HIDE DEF m, at, ins
  <2>4. Len(ins.all) = m
    <3>1. ins.all = [k \in 1..m |-> ins.all[k]]
      BY <2>3
    <3> QED
      BY <2>1, <3>1, LenOf
  <2>5. ASSUME NEW off \in Nat, InputAt(b, c, off).signature # NULL
        PROVE  InputAt(b, c, off).script = <<>>
    BY <2>5, UnsignedOrBare
  <2>6. \A k \in 1..m : k - 1 \in 0..m /\ ins.all[k] = InputAt(b, c, at[k - 1])
    BY <2>1, <2>3
  <2> QED
    BY <2>2, <2>4, <2>5, <2>6
<1> HIDE DEF ins
<1>6. outCount.value \in Uint(W64) /\ outCount.len \in Nat
  BY <1>4, VarIntType
<1> HIDE DEF outCount
<1>7. /\ outs.off \in Nat /\ outs.all \in Seq(Output) /\ Len(outs.all) <= outCount.value
      /\ \A n \in 1..Len(outs.all) :
           outs.all[n].address = BitWAddressFromScriptPubKey(outs.all[n].script, c)
  <2>1. ins.off + outCount.len \in Nat
    BY <1>4, <1>6
  <2> QED
    BY <1>6, <2>1, ParseOutputsType
<1> HIDE DEF outs
<1>8. version \in Uint(W32) /\ lock \in Uint(W32)
  BY <1>2, <1>7, AtType
<1>9. Len(ins.all) < Span(W64) /\ Len(outs.all) < Span(W64)
  <2>1. /\ inCount.value \in 0..(Span(W64) - 1) /\ outCount.value \in 0..(Span(W64) - 1)
        /\ Span(W64) \in Nat
    BY <1>3, <1>6, Sized DEF Uint
  <2>2. Len(ins.all) \in Nat /\ Len(outs.all) \in Nat
    BY <1>4, <1>7
  <2> QED
    BY <1>4, <1>7, <2>1, <2>2
<1> HIDE DEF version, lock
<1>10. t \in Tx
  BY <1>4, <1>7, <1>8, Widths DEF Tx
<1>11. ASSUME ~(end > Len(b))  PROVE Sha256d(SubSeq(b, 1, end)) \in Hash
  <2>1. SubSeq(b, 1, end) \in Seq(Byte)
    BY <1>2, <1>7, <1>11
  <2> QED
    BY <2>1, HashBytes
<1>12. ASSUME ~(end > Len(b))
       PROVE  new \in Tx /\ new.inputs = ins.all /\ new.outputs = outs.all
  <2> DEFINE h == Sha256d(SubSeq(b, 1, end))
  <2>1. h \in Hash
    BY <1>11, <1>12
  <2> HIDE DEF h
  <2>2. /\ [t EXCEPT !.txHash = h] \in Tx
        /\ [t EXCEPT !.txHash = h].inputs = ins.all /\ [t EXCEPT !.txHash = h].outputs = outs.all
    BY <1>10, <2>1 DEF Tx
  <2>3. CASE isSigned
    BY <2>2, <2>3 DEF h
  <2>4. CASE ~isSigned
    BY <1>10, <2>4
  <2> QED
    BY <2>3, <2>4
<1> HIDE DEF new, end
<1>13. ASSUME NEW back \in ToSet(BitWTransactionParse(b, c))
       PROVE  back = new /\ ~(end > Len(b))
  <2>1. ToSet(NULL) = {} /\ ToSet(<<new>>) = {new}
    BY DEF ToSet, NULL
  <2> QED
    BY <1>1, <1>13, <2>1
<1>14. ASSUME NEW back \in ToSet(BitWTransactionParse(b, c))
       PROVE  Fits(back, c) /\ back.inputs = ins.all
  <2>1. back \in Tx /\ back.inputs = ins.all /\ back.outputs = outs.all
    BY <1>12, <1>13
  <2>2. Countable(back)
    BY <1>9, <2>1 DEF Countable
  <2> QED
    BY <1>4, <1>7, <2>1, <2>2 DEF Fits, SignaturesPayNothing, OutputsAddressed
<1> QED
  BY <1>5, <1>14

-----------------------------------------------------------------------------
(* A scriptSig is read back as the pushes it was made from.                *)

(* Once the walk is behind the script it stays there.                      *)
LEMMA WalkEnds ==
  ASSUME NEW script \in Seq(Byte), NEW m \in 0..Len(script),
         ElementsWalk(script)[m].off = Len(script)
  PROVE  BitWScriptElements(script) = ElementsWalk(script)[m].found
<1> DEFINE walk == ElementsWalk(script)
           n == Len(script)
           S == {k \in 0..(n - m) : walk[m + k] = walk[m]}
<1>1. n \in Nat /\ m \in Nat /\ n - m \in Nat
  OBVIOUS
<1>2. \A k \in 1..n : walk[k] = NextElement(script, walk[k - 1])
  BY WalkFacts
<1>3. walk[m].off = n
  OBVIOUS
<1>4. NextElement(script, walk[m]) = walk[m]
  BY <1>1, <1>3 DEF NextElement
<1>5. BitWScriptElements(script) = IF walk[n].off = n THEN walk[n].found ELSE <<>>
  BY DEF BitWScriptElements
<1> HIDE DEF walk, n
<1>6. 0 \in S
  BY <1>1
<1>7. ASSUME NEW k \in 1..(n - m), k - 1 \in S  PROVE k \in S
  <2>1. m + k \in 1..n /\ (m + k) - 1 = m + (k - 1) /\ k \in 0..(n - m)
    BY <1>1
  <2>2. walk[m + (k - 1)] = walk[m]
    BY <1>7
  <2>3. walk[m + k] = walk[m]
    BY <1>2, <1>4, <2>1, <2>2
  <2> QED
    BY <2>1, <2>3
<1>8. \A k \in 0..(n - m) : k \in S
  <2> HIDE DEF S
  <2> QED
    BY <1>1, <1>6, <1>7, AllUpTo
<1>9. walk[n] = walk[m]
  <2>1. n - m \in 0..(n - m) /\ m + (n - m) = n
    BY <1>1
  <2> QED
    BY <1>8, <2>1
<1> QED
  BY <1>3, <1>5, <1>9 DEF walk

(* A push at off, of n bytes, is passed in one turn.                       *)
LEMMA PushPassed ==
  ASSUME NEW script \in Seq(Byte), NEW off \in Nat, NEW n \in Nat, n < OP_PUSHDATA1,
         off < Len(script), script[off + 1] = n, NEW s, s.off = off
  PROVE  /\ LenWidth(script[off + 1]) = 0 /\ ElementLen(script, off, 0) = n
         /\ NextElement(script, s) =
              [off |-> off + 1 + n, len |-> n, found |-> Append(s.found, off)]
<1>1. /\ OP_PUSHDATA1 \in Nat /\ OP_PUSHDATA2 \in Nat /\ OP_PUSHDATA4 \in Nat
      /\ OP_PUSHDATA1 < OP_PUSHDATA2 /\ OP_PUSHDATA2 < OP_PUSHDATA4
  BY Opcodes, Widths
<1>2. n # OP_PUSHDATA1 /\ n # OP_PUSHDATA2 /\ n # OP_PUSHDATA4 /\ ~(n > OP_PUSHDATA4)
  BY <1>1
<1>3. LenWidth(script[off + 1]) = 0
  BY <1>2 DEF LenWidth
<1>4. \A before : ElementLen(script, off, before) = n
  BY <1>2, <1>3 DEF ElementLen
<1>5. NextElement(script, s) = [off |-> off + 1 + n, len |-> n, found |-> Append(s.found, off)]
  <2>1. ~(s.off >= Len(script)) /\ off + 1 + 0 + n = off + 1 + n
    OBVIOUS
  <2> QED
    BY <1>3, <1>4, <2>1 DEF NextElement
<1> QED
  BY <1>3, <1>4, <1>5

LEMMA OnePush ==
  ASSUME NEW s \in Seq(Byte), Len(s) < OP_PUSHDATA1
  PROVE  LET x == <<Len(s)>> \o s
         IN /\ BitWScriptElements(x) = <<0>> /\ BitWScriptData(x, 0) = s
            /\ Heads(x) = <<Len(s)>>
<1> DEFINE n == Len(s)
           x == <<Len(s)>> \o s
           walk == ElementsWalk(x)
<1>1. /\ n \in Nat /\ x \in Seq(Byte) /\ Len(x) = 1 + n
      /\ OP_PUSHDATA1 \in Nat /\ MAX_SCRIPT_LENGTH \in Nat /\ 2 * OP_PUSHDATA1 <= MAX_SCRIPT_LENGTH
  <2>1. x = BitWScriptPushData(s)
    BY ShortPush
  <2>2. n \in Nat
    OBVIOUS
  <2> HIDE DEF x
  <2>3. x \in Seq(Byte) /\ Len(x) = 1 + n
    BY <2>1, ShortPush
  <2>4. OP_PUSHDATA1 \in Byte /\ MAX_SCRIPT_LENGTH \in Nat /\ 2 * OP_PUSHDATA1 <= MAX_SCRIPT_LENGTH
    BY Opcodes
  <2>5. OP_PUSHDATA1 \in Nat
    BY <2>4, Widths
  <2> QED
    BY <2>2, <2>3, <2>4, <2>5
<1>2. x[1] = n
  OBVIOUS
<1>3. SubSeq(x, 2, 1 + n) = s
  <2> DEFINE y == SubSeq(x, 2, 1 + n)
  <2>1. \A k \in 1..n : x[1 + k] = s[k]
    OBVIOUS
  <2> HIDE DEF x
  <2>2. y \in Seq(Byte) /\ Len(y) = n /\ \A k \in 1..n : y[k] = x[1 + k]
    BY <1>1
  <2> HIDE DEF y
  <2>3. y = s
    BY <2>1, <2>2
  <2> QED
    BY <2>3 DEF y
<1> HIDE DEF n, x
<1>4. /\ walk[0] = [off |-> 0, len |-> 0, found |-> <<>>]
      /\ \A k \in 1..Len(x) : walk[k] = NextElement(x, walk[k - 1])
  BY <1>1, WalkFacts
<1>5. 0 < Len(x) /\ x[0 + 1] = n /\ n < OP_PUSHDATA1 /\ 1 \in 0..Len(x) /\ 1 \in 1..Len(x)
  BY <1>1, <1>2 DEF n
<1>6. /\ LenWidth(x[0 + 1]) = 0 /\ ElementLen(x, 0, 0) = n
      /\ NextElement(x, walk[0]) = [off |-> 0 + 1 + n, len |-> n, found |-> Append(walk[0].found, 0)]
  <2>1. walk[0].off = 0
    BY <1>4
  <2>2. 0 \in Nat
    OBVIOUS
  <2> DEFINE start == walk[0]
  <2> HIDE DEF walk, start
  <2>3. x \in Seq(Byte) /\ n \in Nat /\ n < OP_PUSHDATA1 /\ 0 < Len(x) /\ x[0 + 1] = n
    BY <1>1, <1>5
  <2>4. start.off = 0
    BY <2>1 DEF start
  <2>5. /\ LenWidth(x[0 + 1]) = 0 /\ ElementLen(x, 0, 0) = n
        /\ NextElement(x, start) = [off |-> 0 + 1 + n, len |-> n, found |-> Append(start.found, 0)]
    BY <2>2, <2>3, <2>4, PushPassed
  <2> QED
    BY <2>5 DEF start
<1>7. walk[1].off = Len(x) /\ walk[1].found = <<0>>
  <2>1. walk[1] = NextElement(x, walk[0])
    BY <1>4, <1>5
  <2>2. walk[0].found = <<>>
    BY <1>4
  <2> HIDE DEF walk
  <2> QED
    BY <1>1, <1>6, <2>1, <2>2
<1>8. BitWScriptElements(x) = <<0>>
  <2>1. BitWScriptElements(x) = walk[1].found
    BY <1>1, <1>5, <1>7, WalkEnds
  <2> QED
    BY <1>7, <2>1
<1>9. BitWScriptData(x, 0) = s
  <2>1. BitWScriptData(x, 0) = At(x, 1, n)
    BY <1>6 DEF BitWScriptData
  <2>2. At(x, 1, n) = SubSeq(x, 2, 1 + n)
    BY <1>1 DEF At
  <2> QED
    BY <1>3, <2>1, <2>2
<1>10. Heads(x) = <<n>>
  <2>1. ~(Len(x) > MAX_SCRIPT_LENGTH)
    BY <1>1, <1>5
  <2>2. Heads(x) = HeadsAt(x, <<0>>)
    BY <1>8, <2>1 DEF Heads
  <2>3. HeadsAt(x, <<0>>) = <<x[0 + 1]>>
    <3> DEFINE y == <<0>>
    <3>1. DOMAIN y = {1} /\ y[1] = 0
      OBVIOUS
    <3> HIDE DEF y
    <3>2. [k \in DOMAIN y |-> x[y[k] + 1]] = [k \in {1} |-> x[0 + 1]]
      BY <3>1
    <3> QED
      BY <3>2 DEF HeadsAt, y
  <2> QED
    BY <1>2, <2>2, <2>3
<1> QED
  BY <1>8, <1>9, <1>10 DEF x, n

LEMMA TwoPushes ==
  ASSUME NEW s \in Seq(Byte), NEW p \in Seq(Byte), Len(s) < OP_PUSHDATA1, Len(p) < OP_PUSHDATA1
  PROVE  LET x == (<<Len(s)>> \o s) \o (<<Len(p)>> \o p)
         IN /\ BitWScriptElements(x) = <<0, 1 + Len(s)>>
            /\ BitWScriptData(x, 0) = s /\ BitWScriptData(x, 1 + Len(s)) = p
            /\ Heads(x) = <<Len(s), Len(p)>>
<1> DEFINE n == Len(s)
           m == Len(p)
           a == <<Len(s)>> \o s
           b == <<Len(p)>> \o p
           x == a \o b
           walk == ElementsWalk(x)
<1>1. /\ n \in Nat /\ m \in Nat /\ n < OP_PUSHDATA1 /\ m < OP_PUSHDATA1
      /\ OP_PUSHDATA1 \in Nat /\ MAX_SCRIPT_LENGTH \in Nat /\ 2 * OP_PUSHDATA1 <= MAX_SCRIPT_LENGTH
  <2>1. n \in Nat /\ m \in Nat
    OBVIOUS
  <2>2. OP_PUSHDATA1 \in Byte /\ MAX_SCRIPT_LENGTH \in Nat /\ 2 * OP_PUSHDATA1 <= MAX_SCRIPT_LENGTH
    BY Opcodes
  <2>3. OP_PUSHDATA1 \in Nat
    BY <2>2, Widths
  <2> QED
    BY <2>1, <2>2, <2>3
<1>2. a \in Seq(Byte) /\ Len(a) = 1 + n /\ b \in Seq(Byte) /\ Len(b) = 1 + m
  <2>1. a = BitWScriptPushData(s) /\ b = BitWScriptPushData(p)
    BY ShortPush
  <2> HIDE DEF a, b
  <2> QED
    BY <2>1, ShortPush
<1>3. a[1] = n /\ b[1] = m /\ \A k \in 1..n : a[1 + k] = s[k]
  OBVIOUS
<1>4. \A k \in 1..m : b[1 + k] = p[k]
  OBVIOUS
<1> HIDE DEF a, b
<1>5. /\ x \in Seq(Byte) /\ Len(x) = n + m + 2
      /\ \A k \in 1..(1 + n) : x[k] = a[k]
      /\ \A k \in 1..(1 + m) : x[(1 + n) + k] = b[k]
  <2>1. /\ x \in Seq(Byte) /\ Len(x) = Len(a) + Len(b)
        /\ \A k \in 1..Len(a) : x[k] = a[k]
    <3>1. a \in Seq(Byte) /\ b \in Seq(Byte)
      BY <1>2
    <3> QED
      BY <3>1, ConcatType
  <2>2. \A j \in 1..Len(b) : x[Len(a) + j] = b[j]
    BY <1>2, ConcatType
  <2> HIDE DEF x, n, m
  <2> QED
    BY <1>1, <1>2, <2>1, <2>2
<1> HIDE DEF x, n, m
<1>6. /\ x[1] = n /\ x[(1 + n) + 1] = m
      /\ \A k \in 1..n : x[1 + k] = s[k]
      /\ \A k \in 1..m : x[(2 + n) + k] = p[k]
  <2>1. 1 \in 1..(1 + n) /\ 1 \in 1..(1 + m)
    BY <1>1
  <2>2. \A k \in 1..n : 1 + k \in 1..(1 + n)
    BY <1>1
  <2>3. \A k \in 1..m : 1 + k \in 1..(1 + m) /\ (1 + n) + (1 + k) = (2 + n) + k
    BY <1>1
  <2>4. x[1] = n /\ x[(1 + n) + 1] = m
    BY <1>3, <1>5, <2>1
  <2>5. \A k \in 1..n : x[1 + k] = s[k]
    BY <1>3, <1>5, <2>2
  <2>6. \A k \in 1..m : x[(2 + n) + k] = p[k]
    BY <1>4, <1>5, <2>3
  <2> QED
    BY <2>4, <2>5, <2>6
<1>7. /\ walk[0] = [off |-> 0, len |-> 0, found |-> <<>>]
      /\ \A k \in 1..Len(x) : walk[k] = NextElement(x, walk[k - 1])
  BY <1>5, WalkFacts
<1> HIDE DEF walk
<1>8. /\ 1 \in 1..Len(x) /\ 2 \in 1..Len(x) /\ 2 \in 0..Len(x) /\ 2 - 1 = 1 /\ 1 - 1 = 0
      /\ 0 < Len(x) /\ 1 + n < Len(x) /\ 1 + n \in Nat
  BY <1>1, <1>5
<1>9. /\ LenWidth(x[0 + 1]) = 0 /\ ElementLen(x, 0, 0) = n
      /\ NextElement(x, walk[0]) = [off |-> 0 + 1 + n, len |-> n, found |-> Append(walk[0].found, 0)]
  <2>1. walk[0].off = 0 /\ x[0 + 1] = n /\ 0 \in Nat
    BY <1>6, <1>7
  <2> DEFINE start == walk[0]
  <2>2. x \in Seq(Byte) /\ n \in Nat /\ n < OP_PUSHDATA1 /\ 0 < Len(x) /\ x[0 + 1] = n /\ start.off = 0 /\ 0 \in Nat
    BY <1>1, <1>5, <1>8, <2>1
  <2> HIDE DEF start
  <2>3. /\ LenWidth(x[0 + 1]) = 0 /\ ElementLen(x, 0, 0) = n
        /\ NextElement(x, start) = [off |-> 0 + 1 + n, len |-> n, found |-> Append(start.found, 0)]
    BY <2>2, PushPassed
  <2> QED
    BY <2>3 DEF start
<1>10. walk[1].off = 1 + n /\ walk[1].found = <<0>>
  <2>1. walk[1] = NextElement(x, walk[0])
    BY <1>7, <1>8
  <2>2. walk[0].found = <<>>
    BY <1>7
  <2> QED
    BY <1>1, <1>9, <2>1, <2>2
<1>11. /\ LenWidth(x[(1 + n) + 1]) = 0 /\ ElementLen(x, 1 + n, 0) = m
       /\ NextElement(x, walk[1]) =
            [off |-> (1 + n) + 1 + m, len |-> m, found |-> Append(walk[1].found, 1 + n)]
  <2> DEFINE start == walk[1]
             off == 1 + n
  <2>1. x \in Seq(Byte) /\ m \in Nat /\ m < OP_PUSHDATA1 /\ off < Len(x) /\ x[off + 1] = m /\ start.off = off /\ off \in Nat
    BY <1>1, <1>5, <1>6, <1>8, <1>10
  <2> HIDE DEF start, off
  <2>2. /\ LenWidth(x[off + 1]) = 0 /\ ElementLen(x, off, 0) = m
        /\ NextElement(x, start) = [off |-> off + 1 + m, len |-> m, found |-> Append(start.found, off)]
    BY <2>1, PushPassed
  <2> QED
    BY <2>2 DEF start, off
<1>12. walk[2].off = Len(x) /\ walk[2].found = <<0, 1 + n>>
  <2>1. walk[2] = NextElement(x, walk[1])
    BY <1>7, <1>8
  <2>2. (1 + n) + 1 + m = Len(x)
    BY <1>1, <1>5
  <2>3. Append(<<0>>, 1 + n) = <<0, 1 + n>>
    <3>1. ASSUME NEW j \in Nat  PROVE Append(<<0>>, j) = <<0, j>>
      <4>1. <<0>> \in Seq(Nat) /\ <<0, j>> \in Seq(Nat) /\ Append(<<0>>, j) \in Seq(Nat)
        OBVIOUS
      <4>2. Len(Append(<<0>>, j)) = 2 /\ Append(<<0>>, j)[1] = 0 /\ Append(<<0>>, j)[2] = j
        BY <4>1
      <4> DEFINE y == Append(<<0>>, j)
                 z == <<0, j>>
      <4>3. y \in Seq(Nat) /\ z \in Seq(Nat) /\ Len(y) = 2 /\ Len(z) = 2
        BY <4>1, <4>2
      <4>4. \A k \in 1..2 : y[k] = z[k]
        BY <4>2
      <4> HIDE DEF y, z
      <4>5. y = [k \in 1..2 |-> y[k]] /\ z = [k \in 1..2 |-> z[k]]
        BY <4>3
      <4>6. y = z
        BY <4>4, <4>5
      <4> QED
        BY <4>6 DEF y, z
    <3> QED
      BY <1>8, <3>1
  <2> QED
    BY <1>10, <1>11, <2>1, <2>2, <2>3
<1>13. BitWScriptElements(x) = <<0, 1 + n>>
  <2>1. BitWScriptElements(x) = ElementsWalk(x)[2].found
    BY <1>5, <1>8, <1>12, WalkEnds DEF walk
  <2> QED
    BY <1>12, <2>1 DEF walk
<1>14. BitWScriptData(x, 0) = s
  <2>1. BitWScriptData(x, 0) = At(x, 1, n)
    BY <1>9 DEF BitWScriptData
  <2>2. Stands(x, 1, s)
    <3>1. 1 + n <= Len(x)
      BY <1>1, <1>5
    <3> QED
      BY <1>6, <3>1 DEF Stands, n
  <2>3. At(x, 1, n) = s
    BY <1>5, <2>2, StandsAt DEF n
  <2> QED
    BY <2>1, <2>3
<1>15. BitWScriptData(x, 1 + n) = p
  <2>1. BitWScriptData(x, 1 + n) = At(x, 2 + n, m)
    <3>1. (1 + n) + 1 + 0 = 2 + n
      BY <1>1
    <3> QED
      BY <1>11, <3>1 DEF BitWScriptData
  <2>2. Stands(x, 2 + n, p)
    <3>1. (2 + n) + m <= Len(x)
      BY <1>1, <1>5
    <3> QED
      BY <1>6, <3>1 DEF Stands, m
  <2>3. At(x, 2 + n, m) = p
    <3>1. 2 + n \in Nat
      BY <1>1
    <3> QED
      BY <1>5, <2>2, <3>1, StandsAt DEF m
  <2> QED
    BY <2>1, <2>3
<1>16. Heads(x) = <<n, m>>
  <2>1. ~(Len(x) > MAX_SCRIPT_LENGTH)
    BY <1>1, <1>5
  <2>2. Heads(x) = HeadsAt(x, <<0, 1 + n>>)
    BY <1>13, <2>1 DEF Heads
  <2>3. HeadsAt(x, <<0, 1 + n>>) = <<x[0 + 1], x[(1 + n) + 1]>>
    BY DEF HeadsAt
  <2> QED
    BY <1>6, <2>2, <2>3
<1> QED
  BY <1>13, <1>14, <1>15, <1>16 DEF x, a, b, n, m

-----------------------------------------------------------------------------
(* The invariant.                                                          *)

NoneSigned(t) == \A n \in 1..Len(t.inputs) : t.inputs[n].signature = NULL

(* A signature next to the script it is for was made for it, by the key    *)
(* whose address the script pays; one that was parsed has no script.       *)
SignedByPayee(t, c) ==
  \A i \in 1..Len(t.inputs) :
    t.inputs[i].signature # NULL /\ t.inputs[i].script # <<>> =>
      \E k \in Key, forkId \in ForkIds :
        /\ t.inputs[i].signature = <<ScriptSig(t, i, k, forkId)>>
        /\ BitWKeyAddress(k, c) = BitWAddressFromScriptPubKey(t.inputs[i].script, c)

IInv ==
  /\ coin \in CoinType /\ phase \in {"build", "signed", "parsed"}
  /\ Fits(tx, coin) /\ SignedByPayee(tx, coin)
  /\ phase = "build" => NoneSigned(tx)
  /\ phase = "signed" => tx.inputs # <<>>
  /\ phase = "signed" /\ BitWTransactionIsSigned(tx) => tx.txHash = Sha256d(Written(tx))

(* What a scriptSig is read back as.                                       *)
LEMMA SignatureRead ==
  ASSUME NEW t, Countable(t), PrimitivesFit, NEW i \in 1..Len(t.inputs), NEW k \in Key,
         NEW forkId \in ForkIds
  PROVE  LET s == SignatureOf(t, i, k, forkId + SIGHASH_ALL)
             sig == ScriptSig(t, i, k, forkId)
             needs == NeedsKey(t.inputs[i].script)
         IN /\ BitWScriptData(sig, 0) = s
            /\ ~needs => BitWScriptElements(sig) = <<0>> /\ Heads(sig) = <<Len(s)>>
            /\ needs => /\ BitWScriptElements(sig) = <<0, 1 + Len(s)>>
                        /\ BitWScriptData(sig, 1 + Len(s)) = PubKey[k]
                        /\ Heads(sig) = <<Len(s), Len(PubKey[k])>>
<1> DEFINE s == SignatureOf(t, i, k, forkId + SIGHASH_ALL)
           sig == ScriptSig(t, i, k, forkId)
           needs == NeedsKey(t.inputs[i].script)
           pk == PubKey[k]
<1>1. s \in Seq(Byte) /\ Len(s) < OP_PUSHDATA1
  BY SignatureType
<1>2. pk \in Seq(Byte) /\ Len(pk) < OP_PUSHDATA1
  BY KeyBytes
<1>3. sig = IF needs THEN (<<Len(s)>> \o s) \o (<<Len(pk)>> \o pk) ELSE <<Len(s)>> \o s
  BY ScriptSigType
<1> HIDE DEF s, sig, needs, pk
<1>4. CASE needs
  <2>1. sig = (<<Len(s)>> \o s) \o (<<Len(pk)>> \o pk)
    BY <1>3, <1>4
  <2>2. /\ BitWScriptElements(sig) = <<0, 1 + Len(s)>> /\ BitWScriptData(sig, 0) = s
        /\ BitWScriptData(sig, 1 + Len(s)) = pk /\ Heads(sig) = <<Len(s), Len(pk)>>
    BY <1>1, <1>2, <2>1, TwoPushes
  <2> QED
    BY <1>4, <2>2 DEF s, sig, needs, pk
<1>5. CASE ~needs
  <2>1. sig = <<Len(s)>> \o s
    BY <1>3, <1>5
  <2>2. /\ BitWScriptElements(sig) = <<0>> /\ BitWScriptData(sig, 0) = s
        /\ Heads(sig) = <<Len(s)>>
    BY <1>1, <2>1, OnePush
  <2> QED
    BY <1>5, <2>2 DEF s, sig, needs, pk
<1> QED
  BY <1>4, <1>5

(* A scriptSig is never taken for a script that pays.                      *)
LEMMA ScriptSigPaysNothing ==
  ASSUME NEW t, Countable(t), PrimitivesFit, NEW i \in 1..Len(t.inputs), NEW k \in Key,
         NEW forkId \in ForkIds, NEW c
  PROVE  BitWAddressFromScriptPubKey(ScriptSig(t, i, k, forkId), c) = <<>>
<1> DEFINE s == SignatureOf(t, i, k, forkId + SIGHASH_ALL)
           sig == ScriptSig(t, i, k, forkId)
           needs == NeedsKey(t.inputs[i].script)
           n == Len(s)
           m == Len(PubKey[k])
           h == Heads(sig)
<1>1. h = <<n>> \/ h = <<n, m>>
  BY SignatureRead
<1>2. m \in Nat /\ m < OP_PUSHDATA1
  BY KeyBytes
<1>3. OP_PUSHDATA1 \in Nat /\ OP_PUSHDATA4 \in Nat /\ OP_CHECKSIG \in Nat
      /\ OP_PUSHDATA1 < OP_PUSHDATA4 /\ OP_PUSHDATA4 < OP_CHECKSIG
  <2>1. /\ OP_PUSHDATA1 \in Byte /\ OP_PUSHDATA2 \in Byte /\ OP_PUSHDATA4 \in Byte /\ OP_CHECKSIG \in Byte
        /\ OP_PUSHDATA1 < OP_PUSHDATA2 /\ OP_PUSHDATA2 < OP_PUSHDATA4 /\ OP_CHECKSIG > OP_PUSHDATA4
    BY Opcodes
  <2>2. Byte \subseteq Nat
    BY Widths
  <2> QED
    BY <2>1, <2>2
<1> HIDE DEF n, m, h
<1>4. m # OP_CHECKSIG
  BY <1>2, <1>3
<1>5. ~PaysPubkeyHash(h) /\ ~PaysScriptHash(h) /\ ~PaysPubkey(h)
  <2>1. CASE h = <<n>>
    BY <2>1 DEF PaysPubkeyHash, PaysScriptHash, PaysPubkey
  <2>2. CASE h = <<n, m>>
    BY <1>4, <2>2 DEF PaysPubkeyHash, PaysScriptHash, PaysPubkey
  <2> QED
    BY <1>1, <2>1, <2>2
<1> QED
  BY <1>5 DEF BitWAddressFromScriptPubKey, AddressPaid, h

LEMMA MoreInputs ==
  ASSUME NEW t, Countable(t), NEW in \in Input, Len(t.inputs) + 1 < Span(W64)
  PROVE  LET u == [t EXCEPT !.inputs = Append(@, in)]
         IN /\ Countable(u) /\ u.outputs = t.outputs /\ Len(u.inputs) = Len(t.inputs) + 1
            /\ \A n \in 1..Len(t.inputs) : u.inputs[n] = t.inputs[n]
            /\ u.inputs[Len(t.inputs) + 1] = in
<1> DEFINE ins == Append(t.inputs, in)
           u == [t EXCEPT !.inputs = ins]
<1>1. t \in Tx /\ t.inputs \in Seq(Input) /\ Len(t.outputs) < Span(W64)
  BY TxType DEF Countable
<1>2. /\ ins \in Seq(Input) /\ Len(ins) = Len(t.inputs) + 1
      /\ ins[Len(t.inputs) + 1] = in /\ \A n \in 1..Len(t.inputs) : ins[n] = t.inputs[n]
  BY <1>1
<1> HIDE DEF ins
<1>3. u.inputs = ins /\ u.outputs = t.outputs /\ u \in Tx
  BY <1>1, <1>2 DEF Tx
<1> QED
  BY <1>1, <1>2, <1>3 DEF Countable, ins

LEMMA OtherOutputs ==
  ASSUME NEW t, Countable(t), NEW outs \in Seq(Output), Len(outs) < Span(W64)
  PROVE  LET u == [t EXCEPT !.outputs = outs]
         IN Countable(u) /\ u.outputs = outs /\ u.inputs = t.inputs
<1> DEFINE u == [t EXCEPT !.outputs = outs]
<1>1. t \in Tx /\ Len(t.inputs) < Span(W64)
  BY DEF Countable
<1>2. u.outputs = outs /\ u.inputs = t.inputs /\ u \in Tx
  BY <1>1 DEF Tx
<1> QED
  BY <1>1, <1>2 DEF Countable

LEMMA Bounds ==
  /\ MaxInputs \in Nat /\ MaxInputs < Span(W64) /\ MaxOutputs \in Nat /\ MaxOutputs < Span(W64)
  /\ Span(W64) \in Nat /\ 0 < Span(W64) /\ Amounts \subseteq Uint(W64)
<1>1. Span(W64) \in Nat /\ BYTE \in Nat /\ BYTE < Span(W64)
  BY Sized
<1>2. MaxInputs \in Uint(W64) /\ MaxOutputs \in Uint(W64) /\ Amounts \subseteq Uint(W64)
  BY DataAssumption
<1> QED
  BY <1>1, <1>2 DEF Uint

-----------------------------------------------------------------------------
(* Every step keeps the invariant.                                         *)

LEMMA InitFits == Init => IInv
<1> SUFFICES ASSUME Init  PROVE IInv
  OBVIOUS
<1>1. coin \in CoinType /\ tx = BitWTransactionNew /\ phase = "build"
  BY DEF Init
<1>2. /\ Zeros(HASH) \in Hash /\ 0 \in Uint(W32) /\ TX_VERSION \in Uint(W32)
  <2>1. W32 \in Nat /\ Zeros(HASH) \in Hash
    BY Widths
  <2>2. 0 \in Uint(W32)
    BY <2>1, Widths
  <2> QED
    BY <2>1, <2>2, DataAssumption
<1>3. /\ tx.inputs = <<>> /\ tx.outputs = <<>> /\ tx \in Tx
  BY <1>1, <1>2 DEF BitWTransactionNew, Tx
<1>4. Len(tx.inputs) = 0 /\ Len(tx.outputs) = 0
  BY <1>3
<1>5. Countable(tx)
  BY <1>3, <1>4, Bounds DEF Countable
<1>6. NoneSigned(tx) /\ SignedByPayee(tx, coin) /\ SignaturesPayNothing(tx, coin)
      /\ OutputsAddressed(tx, coin)
  BY <1>4 DEF NoneSigned, SignedByPayee, SignaturesPayNothing, OutputsAddressed
<1> QED
  BY <1>1, <1>5, <1>6 DEF IInv, Fits

(* A step that builds: nothing is signed.                                  *)
LEMMA BuildFits ==
  ASSUME IInv, phase = "build", phase' = phase, coin' = coin, Countable(tx'), NoneSigned(tx'),
         OutputsAddressed(tx', coin)
  PROVE  IInv'
<1>1. SignedByPayee(tx', coin) /\ SignaturesPayNothing(tx', coin)
  BY DEF NoneSigned, SignedByPayee, SignaturesPayNothing
<1> QED
  BY <1>1 DEF IInv, Fits

LEMMA AddInputFits ==
  ASSUME IInv, PrimitivesFit, NEW p \in Prevouts, BitWTransactionAddInput(p)
  PROVE  IInv'
<1> DEFINE in == BitWTxInputSetScript(NewInput(p.txHash, p.index, p.amount, p.sequence), p.script)
<1>1. in \in Input /\ in.signature = NULL
  <2>1. /\ p.txHash \in Hash /\ p.script \in Script
        /\ p.index \in Uint(W32) /\ p.sequence \in Uint(W32) /\ p.amount \in Uint(W64)
    BY DataAssumption
  <2> DEFINE new == NewInput(p.txHash, p.index, p.amount, p.sequence)
  <2>2. new \in Input /\ new.signature = NULL
    BY <2>1, NewInputType
  <2> HIDE DEF new
  <2>3. BitWTxInputSetScript(new, p.script) \in Input /\ BitWTxInputSetScript(new, p.script).signature = NULL
    BY <2>1, <2>2, ScriptInputType
  <2> QED
    BY <2>3 DEF new
<1>2. /\ phase = "build" /\ Len(tx.inputs) < MaxInputs /\ tx' = [tx EXCEPT !.inputs = Append(@, in)]
      /\ phase' = phase /\ coin' = coin
  BY DEF BitWTransactionAddInput
<1> HIDE DEF in
<1>3. /\ Countable(tx) /\ NoneSigned(tx) /\ OutputsAddressed(tx, coin) /\ Len(tx.inputs) \in Nat
  BY <1>2, TxType DEF IInv, Fits
<1>4. Len(tx.inputs) + 1 < Span(W64)
  BY <1>2, <1>3, Bounds
<1>5. /\ Countable(tx') /\ tx'.outputs = tx.outputs /\ Len(tx'.inputs) = Len(tx.inputs) + 1
      /\ \A n \in 1..Len(tx.inputs) : tx'.inputs[n] = tx.inputs[n]
      /\ tx'.inputs[Len(tx.inputs) + 1] = in
  BY <1>1, <1>2, <1>3, <1>4, MoreInputs
<1>6. NoneSigned(tx')
  <2> SUFFICES ASSUME NEW n \in 1..Len(tx'.inputs)  PROVE tx'.inputs[n].signature = NULL
    BY DEF NoneSigned
  <2>1. n \in 1..Len(tx.inputs) \/ n = Len(tx.inputs) + 1
    BY <1>3, <1>5
  <2> QED
    BY <1>1, <1>3, <1>5, <2>1 DEF NoneSigned
<1>7. OutputsAddressed(tx', coin)
  BY <1>3, <1>5 DEF OutputsAddressed
<1> QED
  BY <1>2, <1>5, <1>6, <1>7, BuildFits

LEMMA AddOutputFits ==
  ASSUME IInv, PrimitivesFit, NEW amount \in Uint(W64), NEW script \in Script,
         BitWTransactionAddOutput(amount, script)
  PROVE  IInv'
<1> DEFINE out == BitWTxOutputSetScript(NewOutput(amount), script, coin)
           outs == Append(tx.outputs, out)
<1>1. /\ phase = "build" /\ Len(tx.outputs) < MaxOutputs /\ tx' = [tx EXCEPT !.outputs = outs]
      /\ phase' = phase /\ coin' = coin
  BY DEF BitWTransactionAddOutput
<1>2. /\ Countable(tx) /\ NoneSigned(tx) /\ OutputsAddressed(tx, coin) /\ coin \in CoinType
  BY <1>1 DEF IInv, Fits
<1>3. out \in Output /\ out.address = BitWAddressFromScriptPubKey(out.script, coin)
  BY <1>2, ScriptOutputType
<1> HIDE DEF out
<1>4. tx.outputs \in Seq(Output) /\ Len(tx.outputs) \in Nat
  BY <1>2, TxType
<1>5. /\ outs \in Seq(Output) /\ Len(outs) = Len(tx.outputs) + 1 /\ outs[Len(tx.outputs) + 1] = out
      /\ \A n \in 1..Len(tx.outputs) : outs[n] = tx.outputs[n]
  BY <1>3, <1>4
<1> HIDE DEF outs
<1>6. Len(outs) < Span(W64)
  BY <1>1, <1>4, <1>5, Bounds
<1>7. Countable(tx') /\ tx'.outputs = outs /\ tx'.inputs = tx.inputs
  BY <1>1, <1>2, <1>5, <1>6, OtherOutputs
<1>8. OutputsAddressed(tx', coin)
  <2> SUFFICES ASSUME NEW n \in 1..Len(outs)
               PROVE  outs[n].address = BitWAddressFromScriptPubKey(outs[n].script, coin)
    BY <1>7 DEF OutputsAddressed
  <2>1. n \in 1..Len(tx.outputs) \/ n = Len(tx.outputs) + 1
    BY <1>4, <1>5
  <2> QED
    BY <1>2, <1>3, <1>5, <2>1 DEF OutputsAddressed
<1>9. NoneSigned(tx')
  BY <1>2, <1>7 DEF NoneSigned
<1> QED
  BY <1>1, <1>7, <1>8, <1>9, BuildFits

LEMMA AddOutputToFits ==
  ASSUME IInv, PrimitivesFit, NEW amount \in Amounts, NEW k \in Key,
         AddOutputTo(amount, BitWKeyAddress(k, coin))
  PROVE  IInv'
<1> DEFINE addr == BitWKeyAddress(k, coin)
           out == BitWTxOutputSetAddress(NewOutput(amount), addr, coin)
<1>1. BitWAddressIsValid(addr, coin) /\ BitWTransactionAddOutput(amount, out.script)
  BY DEF AddOutputTo
<1>2. coin \in CoinType /\ amount \in Uint(W64)
  BY Bounds DEF IInv
<1>3. addr \in Seq(Byte) /\ Len(addr) = 1 + HASH160_LEN
  <2>1. PubKey[k] \in Seq(Byte)
    BY KeyBytes
  <2>2. Hash160(PubKey[k]) \in Seq(Byte) /\ Len(Hash160(PubKey[k])) = HASH160_LEN
    BY <2>1, HashBytes
  <2>3. PubkeyAddress[coin] \in Byte
    BY <1>2, Versions
  <2> QED
    BY <2>2, <2>3, OneMore DEF BitWKeyAddress
<1> HIDE DEF addr
<1>4. out.script = BitWAddressScriptPubKey(addr, coin)
  BY DEF BitWTxOutputSetAddress, NewOutput
<1>5. out.script \in Script
  BY <1>2, <1>3, <1>4, PayScript
<1> HIDE DEF out
<1> QED
  BY <1>1, <1>2, <1>5, AddOutputFits

LEMMA ShuffleFits ==
  ASSUME IInv, BitWTransactionShuffleOutputs
  PROVE  IInv'
<1>1. /\ phase = "build" /\ phase' = phase /\ coin' = coin
      /\ \E p \in [DOMAIN tx.outputs -> DOMAIN tx.outputs] :
           tx' = [tx EXCEPT !.outputs = [n \in DOMAIN p |-> @[p[n]]]]
  BY DEF BitWTransactionShuffleOutputs
<1>2. /\ Countable(tx) /\ NoneSigned(tx) /\ OutputsAddressed(tx, coin)
  BY <1>1 DEF IInv, Fits
<1> DEFINE m == Len(tx.outputs)
<1>3. /\ tx.outputs \in Seq(Output) /\ m \in Nat /\ m < Span(W64) /\ DOMAIN tx.outputs = 1..m
      /\ \A n \in 1..m : tx.outputs[n] \in Output
  BY <1>2, TxType DEF Countable
<1> HIDE DEF m
<1>4. PICK p \in [1..m -> 1..m] : tx' = [tx EXCEPT !.outputs = [n \in 1..m |-> tx.outputs[p[n]]]]
  BY <1>1, <1>3
<1> DEFINE outs == [n \in 1..m |-> tx.outputs[p[n]]]
<1>5. outs \in Seq(Output) /\ Len(outs) = m
  <2>1. outs \in [1..m -> Output]
    BY <1>3
  <2> HIDE DEF outs
  <2> QED
    BY <1>3, <2>1, ListOf
<1>6. \A n \in 1..m : outs[n] = tx.outputs[p[n]]
  OBVIOUS
<1> HIDE DEF outs
<1>7. Countable(tx') /\ tx'.outputs = outs /\ tx'.inputs = tx.inputs
  <2>1. tx' = [tx EXCEPT !.outputs = outs]
    BY <1>4 DEF outs
  <2> QED
    BY <1>2, <1>3, <1>5, <2>1, OtherOutputs
<1>8. OutputsAddressed(tx', coin)
  <2>1. \A n \in 1..m : tx.outputs[n].address = BitWAddressFromScriptPubKey(tx.outputs[n].script, coin)
    BY <1>2 DEF OutputsAddressed, m
  <2>2. \A n \in 1..m : outs[n].address = BitWAddressFromScriptPubKey(outs[n].script, coin)
    BY <1>6, <2>1
  <2> QED
    BY <1>5, <1>7, <2>2 DEF OutputsAddressed
<1>9. NoneSigned(tx')
  BY <1>2, <1>7 DEF NoneSigned
<1> QED
  BY <1>1, <1>7, <1>8, <1>9, BuildFits

(* The scriptSig depends on the script of its input and what is hashed.    *)
LEMMA SameScriptSig ==
  ASSUME NEW t, NEW u, NEW i, NEW k, NEW forkId, u.inputs[i].script = t.inputs[i].script,
         \A hashType : TransactionData(u, i, hashType) = TransactionData(t, i, hashType)
  PROVE  ScriptSig(u, i, k, forkId) = ScriptSig(t, i, k, forkId)
<1>1. TransactionData(u, i, forkId + SIGHASH_ALL) = TransactionData(t, i, forkId + SIGHASH_ALL)
  OBVIOUS
<1> QED
  BY <1>1 DEF ScriptSig

LEMMA SignFits ==
  ASSUME IInv, PrimitivesFit, NEW keys \in SUBSET Key, NEW forkId \in ForkIds, Sign(keys, forkId)
  PROVE  IInv'
<1> DEFINE n == Len(tx.inputs)
           Now(i) == Signs(tx, i, keys, coin)
           By(i) == SignerOf(tx, i, keys, coin)
           New(i) == ScriptSig(tx, i, By(i), forkId)
<1>1. /\ Countable(tx) /\ SignedByPayee(tx, coin) /\ SignaturesPayNothing(tx, coin)
      /\ OutputsAddressed(tx, coin) /\ coin \in CoinType
  BY DEF IInv, Fits
<1>2. tx' = BitWTransactionSign(tx, keys, forkId, coin) /\ phase' = "signed" /\ coin' = coin
  BY DEF Sign
<1>3. /\ Countable(tx') /\ tx'.outputs = tx.outputs /\ Len(tx'.inputs) = n
      /\ \A i \in 1..n :
           /\ tx'.inputs[i] = IF Now(i) THEN BitWTxInputSetSignature(tx.inputs[i], New(i), coin)
                              ELSE tx.inputs[i]
           /\ \A hashType : TransactionData(tx', i, hashType) = TransactionData(tx, i, hashType)
      /\ BitWTransactionIsSigned(tx') => tx'.txHash = Sha256d(Written(tx'))
  BY <1>1, <1>2, SignFacts
<1>4. \A i \in 1..n : Now(i) => /\ By(i) \in Key
                                /\ BitWKeyAddress(By(i), coin) =
                                     BitWAddressFromScriptPubKey(tx.inputs[i].script, coin)
  BY DEF Signs, SignerOf, KeysOf
<1>5. \A i \in 1..n : Now(i) => /\ New(i) \in Script
                                /\ BitWAddressFromScriptPubKey(New(i), coin) = <<>>
  BY <1>1, <1>4, ScriptSigType, ScriptSigPaysNothing
<1>6. \A i \in 1..n : tx.inputs[i] \in Input
  BY <1>1, TxType
<1> HIDE DEF New, Now, By, n
<1>7. \A i \in 1..n : Now(i) => /\ tx'.inputs[i].signature = <<New(i)>>
                                /\ tx'.inputs[i].script = tx.inputs[i].script
  <2> SUFFICES ASSUME NEW i \in 1..n, Now(i)
               PROVE  /\ tx'.inputs[i].signature = <<New(i)>>
                      /\ tx'.inputs[i].script = tx.inputs[i].script
    OBVIOUS
  <2>1. tx'.inputs[i] = BitWTxInputSetSignature(tx.inputs[i], New(i), coin)
    BY <1>3
  <2>2. New(i) \in Script /\ tx.inputs[i] \in Input
    BY <1>5, <1>6
  <2> QED
    BY <1>1, <2>1, <2>2, NewSignature
<1>8. \A i \in 1..n : ~Now(i) => tx'.inputs[i] = tx.inputs[i]
  BY <1>3
<1>9. SignaturesPayNothing(tx', coin)
  <2> SUFFICES ASSUME NEW i \in 1..n, tx'.inputs[i].signature # NULL
               PROVE  BitWAddressFromScriptPubKey(tx'.inputs[i].signature[1], coin) = <<>>
    BY <1>3 DEF SignaturesPayNothing
  <2>1. CASE Now(i)
    <3>1. tx'.inputs[i].signature[1] = New(i)
      BY <1>7, <2>1
    <3> QED
      BY <1>5, <2>1, <3>1
  <2>2. CASE ~Now(i)
    BY <1>1, <1>8, <2>2 DEF SignaturesPayNothing, n
  <2> QED
    BY <2>1, <2>2
<1>10. SignedByPayee(tx', coin)
  <2> SUFFICES ASSUME NEW i \in 1..n, tx'.inputs[i].signature # NULL, tx'.inputs[i].script # <<>>
               PROVE  \E k \in Key, f \in ForkIds :
                        /\ tx'.inputs[i].signature = <<ScriptSig(tx', i, k, f)>>
                        /\ BitWKeyAddress(k, coin) =
                             BitWAddressFromScriptPubKey(tx'.inputs[i].script, coin)
    BY <1>3 DEF SignedByPayee
  <2>1. tx'.inputs[i].script = tx.inputs[i].script
    BY <1>7, <1>8
  <2>2. \A hashType : TransactionData(tx', i, hashType) = TransactionData(tx, i, hashType)
    BY <1>3
  <2>3. \A k, f : ScriptSig(tx', i, k, f) = ScriptSig(tx, i, k, f)
    BY <2>1, <2>2, SameScriptSig
  <2>4. CASE Now(i)
    <3>1. tx'.inputs[i].signature = <<ScriptSig(tx, i, By(i), forkId)>>
      BY <1>7, <2>4 DEF New
    <3>2. tx'.inputs[i].signature = <<ScriptSig(tx', i, By(i), forkId)>>
      BY <2>3, <3>1
    <3> QED
      BY <1>4, <2>1, <2>4, <3>2
  <2>5. CASE ~Now(i)
    <3>1. tx.inputs[i].signature # NULL /\ tx.inputs[i].script # <<>>
          /\ tx'.inputs[i].signature = tx.inputs[i].signature
      BY <1>8, <2>5
    <3>2. \E k \in Key, f \in ForkIds :
            /\ tx.inputs[i].signature = <<ScriptSig(tx, i, k, f)>>
            /\ BitWKeyAddress(k, coin) = BitWAddressFromScriptPubKey(tx.inputs[i].script, coin)
      BY <1>1, <3>1 DEF SignedByPayee, n
    <3> QED
      BY <2>1, <2>3, <3>1, <3>2
  <2> QED
    BY <2>4, <2>5
<1>11. OutputsAddressed(tx', coin)
  BY <1>1, <1>3 DEF OutputsAddressed
<1>12. tx'.inputs # <<>>
  <2>1. tx.inputs # <<>> /\ n = Len(tx.inputs)
    BY DEF Sign, n
  <2>2. tx.inputs \in Seq(Input) /\ tx'.inputs \in Seq(Input)
    BY <1>1, <1>3, TxType
  <2>3. Len(tx.inputs) # 0
    BY <2>1, <2>2
  <2> QED
    BY <1>3, <2>1, <2>2, <2>3
<1> QED
  BY <1>1, <1>2, <1>3, <1>9, <1>10, <1>11, <1>12 DEF IInv, Fits

LEMMA ReloadFits ==
  ASSUME IInv, PrimitivesFit, Reload
  PROVE  IInv'
<1>1. Countable(tx) /\ coin \in CoinType
  BY DEF IInv, Fits
<1>2. PICK back \in ToSet(BitWTransactionParse(BitWTransactionSerialize(tx), coin)) : tx' = back
  BY DEF Reload
<1>3. phase' = "parsed" /\ coin' = coin
  BY DEF Reload
<1>4. BitWTransactionSerialize(tx) \in Seq(Byte)
  BY <1>1, SerialisedIs, WrittenType DEF BitWTransactionSerialize
<1>5. /\ Fits(back, coin)
      /\ \A n \in 1..Len(back.inputs) :
           back.inputs[n].signature # NULL => back.inputs[n].script = <<>>
  BY <1>1, <1>2, <1>4, ParsedType
<1>6. SignedByPayee(tx', coin)
  BY <1>2, <1>5 DEF SignedByPayee
<1> QED
  BY <1>1, <1>2, <1>3, <1>5, <1>6 DEF IInv

LEMMA NextFits ==
  ASSUME PrimitivesFit
  PROVE  IInv /\ [Next]_vars => IInv'
<1> SUFFICES ASSUME IInv, [Next]_vars  PROVE IInv'
  OBVIOUS
<1>1. CASE \E p \in Prevouts : BitWTransactionAddInput(p)
  BY <1>1, AddInputFits
<1>2. CASE \E p \in Payments : BitWTransactionAddOutput(p.amount, p.script)
  <2>1. PICK p \in Payments : BitWTransactionAddOutput(p.amount, p.script)
    BY <1>2
  <2>2. p.script \in Script /\ p.amount \in Uint(W64)
    BY DataAssumption
  <2> QED
    BY <2>1, <2>2, AddOutputFits
<1>3. CASE \E amount \in Amounts, k \in Key : AddOutputTo(amount, BitWKeyAddress(k, coin))
  BY <1>3, AddOutputToFits
<1>4. CASE BitWTransactionShuffleOutputs
  BY <1>4, ShuffleFits
<1>5. CASE \E keys \in SUBSET Key, forkId \in ForkIds : Sign(keys, forkId)
  BY <1>5, SignFits
<1>6. CASE Reload
  BY <1>6, ReloadFits
<1>7. CASE UNCHANGED vars
  <2>1. tx' = tx /\ phase' = phase /\ coin' = coin
    BY <1>7 DEF vars
  <2> QED
    BY <2>1 DEF IInv, Fits
<1> QED
  BY <1>1, <1>2, <1>3, <1>4, <1>5, <1>6, <1>7 DEF Next

(* In every reachable state each signature was made for the transaction as *)
(* it is by the key its input pays, whatever was signed before or after it,*)
(* a signed transaction has the hash of its bytes, and no scriptSig could  *)
(* be taken for the script of an output: the inductive invariant of a      *)
(* transaction.                                                            *)
THEOREM SigningInvariance ==
  ASSUME PrimitivesFit
  PROVE  Spec => []IInv
<1>1. Init => IInv
  BY InitFits
<1>2. IInv /\ [Next]_vars => IInv'
  BY NextFits
<1> QED
  BY <1>1, <1>2, PTL DEF Spec

(* What is built, signed and parsed is a transaction: no field outgrows its*)
(* width, whatever bytes were read.                                        *)
THEOREM TransactionTyped ==
  ASSUME PrimitivesFit
  PROVE  Spec => []TypeOK
<1>1. IInv => TypeOK
  BY DEF IInv, Fits, Countable, TypeOK
<1> QED
  BY <1>1, SigningInvariance, PTL

(* What BitWTransaction.c hashes for an input is what the protocol says,   *)
(* for every hash type.                                                    *)
THEOREM DigestsAlwaysMatch ==
  ASSUME PrimitivesFit
  PROVE  Spec => []DigestsMatch
<1>1. IInv => DigestsMatch
  <2> SUFFICES ASSUME IInv, NEW i \in DOMAIN tx.inputs, NEW hashType \in HashTypes,
                      SigHash(hashType) = SIGHASH_SINGLE => i \in DOMAIN tx.outputs,
                      IsSet(SIGHASH_FORKID, hashType) => tx.inputs[i].amount # 0
               PROVE  TransactionData(tx, i, hashType) = Digest(tx, i, hashType)
    BY DEF DigestsMatch
  <2>1. Countable(tx) /\ i \in 1..Len(tx.inputs)
    BY TxType DEF IInv, Fits
  <2> QED
    BY <2>1, DigestMatches
<1> QED
  BY <1>1, SigningInvariance, PTL

(* Who signed for a script that pays a public key hash shows that key.     *)
LEMMA AddressShown ==
  ASSUME NEW t, Countable(t), PrimitivesFit, NEW i \in 1..Len(t.inputs), NEW k \in Key,
         NEW forkId \in ForkIds, NEW c, PaysPubkeyHash(Heads(t.inputs[i].script))
  PROVE  BitWAddressFromScriptSig(ScriptSig(t, i, k, forkId), c) = BitWKeyAddress(k, c)
<1> DEFINE s == SignatureOf(t, i, k, forkId + SIGHASH_ALL)
           sig == ScriptSig(t, i, k, forkId)
           pk == PubKey[k]
           h == Heads(sig)
           at == BitWScriptElements(sig)
<1>1. NeedsKey(t.inputs[i].script)
  <2> DEFINE g == Heads(t.inputs[i].script)
  <2>1. Len(g) = 5 /\ g[4] = OP_EQUALVERIFY
    BY DEF PaysPubkeyHash
  <2> HIDE DEF g
  <2>2. Len(g) >= 2 /\ g[Len(g) - 1] = OP_EQUALVERIFY
    BY <2>1
  <2> QED
    BY <2>2 DEF NeedsKey, g
<1>2. at = <<0, 1 + Len(s)>> /\ BitWScriptData(sig, 1 + Len(s)) = pk /\ h = <<Len(s), Len(pk)>>
  BY <1>1, SignatureRead
<1>3. Len(s) \in Nat /\ Len(s) < OP_PUSHDATA1
  BY SignatureType
<1>4. Len(pk) \in Nat /\ Len(pk) < OP_PUSHDATA1 /\ Len(pk) \in PUBKEY_LEN
  BY KeyBytes
<1>5. Len(pk) > 0
  BY <1>4, Opcodes
<1>6. OP_PUSHDATA1 \in Nat /\ OP_PUSHDATA4 \in Nat /\ OP_PUSHDATA1 < OP_PUSHDATA4
  <2>1. /\ OP_PUSHDATA1 \in Byte /\ OP_PUSHDATA2 \in Byte /\ OP_PUSHDATA4 \in Byte
        /\ OP_PUSHDATA1 < OP_PUSHDATA2 /\ OP_PUSHDATA2 < OP_PUSHDATA4
    BY Opcodes
  <2>2. Byte \subseteq Nat
    BY Widths
  <2> QED
    BY <2>1, <2>2
<1> DEFINE n == Len(s)
           m == Len(pk)
<1> HIDE DEF n, m, h, at, sig, s, pk
<1>7. h = <<n, m>> /\ at = <<0, 1 + n>> /\ BitWScriptData(sig, 1 + n) = pk
  BY <1>2 DEF n, m
<1>8. n \in Nat /\ n <= OP_PUSHDATA4 /\ m \in 1..OP_PUSHDATA4 /\ m \in PUBKEY_LEN
  BY <1>3, <1>4, <1>5, <1>6 DEF n, m
<1>9. Len(h) = 2 /\ h[1] = n /\ h[2] = m
  BY <1>7
<1>10. Last(at) = 1 + n
  BY <1>7 DEF Last
<1>11. AddressSpent(h, pk, c) = <<PubkeyAddress[c]>> \o Hash160(pk)
  BY <1>8, <1>9 DEF AddressSpent
<1>12. BitWAddressFromScriptSig(sig, c) = AddressSpent(h, pk, c)
  BY <1>7, <1>10 DEF BitWAddressFromScriptSig, h, at
<1> QED
  BY <1>11, <1>12 DEF BitWKeyAddress, sig, pk

(* However often and with whatever keys a transaction is signed, every     *)
(* scriptSig BitWTransactionSign leaves next to its script pushes a        *)
(* signature of what the protocol hashes, by the key the input pays, and   *)
(* shows that key's address.                                               *)
THEOREM SignaturesAlwaysVerify ==
  ASSUME PrimitivesFit
  PROVE  Spec => []SignaturesVerify
<1>1. ASSUME IInv  PROVE SignaturesVerify
  <2> SUFFICES ASSUME NEW i \in DOMAIN tx.inputs,
                      tx.inputs[i].signature # NULL, tx.inputs[i].script # <<>>,
                      LET sig == tx.inputs[i].signature[1]
                          pushed == BitWScriptData(sig, BitWScriptElements(sig)[1])
                      IN IsSet(SIGHASH_FORKID, pushed[Len(pushed)]) => tx.inputs[i].amount # 0
               PROVE  LET in == tx.inputs[i]
                          sig == in.signature[1]
                          pushed == BitWScriptData(sig, BitWScriptElements(sig)[1])
                          hashType == pushed[Len(pushed)]
                          addr == BitWAddressFromScriptPubKey(in.script, coin)
                      IN /\ BitWScriptElements(sig) # <<>>
                         /\ \E k \in Key :
                              /\ BitWKeyAddress(k, coin) = addr
                              /\ Front(pushed) = KeySign(k, Sha256d(Digest(tx, i, hashType)))
                         /\ PaysPubkeyHash(Heads(in.script)) =>
                              BitWAddressFromScriptSig(sig, coin) = addr
    BY DEF SignaturesVerify
  <2> DEFINE in == tx.inputs[i]
             sig == in.signature[1]
             pushed == BitWScriptData(sig, BitWScriptElements(sig)[1])
             hashType == pushed[Len(pushed)]
             addr == BitWAddressFromScriptPubKey(in.script, coin)
  <2>1. Countable(tx) /\ i \in 1..Len(tx.inputs) /\ SignedByPayee(tx, coin)
    BY <1>1, TxType DEF IInv, Fits
  <2>2. PICK k \in Key, forkId \in ForkIds :
          in.signature = <<ScriptSig(tx, i, k, forkId)>> /\ BitWKeyAddress(k, coin) = addr
    BY <2>1 DEF SignedByPayee
  <2> DEFINE s == SignatureOf(tx, i, k, forkId + SIGHASH_ALL)
             md == Sha256d(TransactionData(tx, i, forkId + SIGHASH_ALL))
  <2>3. sig = ScriptSig(tx, i, k, forkId)
    BY <2>2
  <2>4. /\ BitWScriptData(sig, 0) = s
        /\ BitWScriptElements(sig) = <<0>> \/ BitWScriptElements(sig) = <<0, 1 + Len(s)>>
    BY <2>1, <2>3, SignatureRead
  <2>5. BitWScriptElements(sig) # <<>> /\ BitWScriptElements(sig)[1] = 0
    BY <2>4
  <2>6. pushed = s
    BY <2>4, <2>5
  <2>7. s[Len(s)] = forkId + SIGHASH_ALL /\ Front(s) = KeySign(k, md)
    BY <2>1, SignatureType
  <2>8. hashType = forkId + SIGHASH_ALL
    BY <2>6, <2>7
  <2>9. TransactionData(tx, i, hashType) = Digest(tx, i, hashType)
    <3>1. hashType \in HashTypes /\ SigHash(hashType) = SIGHASH_ALL
      BY <2>8, TypeSigned
    <3>2. SIGHASH_ALL # SIGHASH_SINGLE
      BY SighashAssumption
    <3>3. IsSet(SIGHASH_FORKID, hashType) => tx.inputs[i].amount # 0
      OBVIOUS
    <3> HIDE DEF hashType
    <3> QED
      BY <2>1, <3>1, <3>2, <3>3, DigestMatches
  <2>10. Front(pushed) = KeySign(k, Sha256d(Digest(tx, i, hashType)))
    BY <2>6, <2>7, <2>8, <2>9
  <2>11. ASSUME PaysPubkeyHash(Heads(in.script))  PROVE BitWAddressFromScriptSig(sig, coin) = addr
    BY <2>1, <2>2, <2>3, <2>11, AddressShown
  <2> QED
    BY <2>2, <2>5, <2>10, <2>11
<1> QED
  BY <1>1, SigningInvariance, PTL

-----------------------------------------------------------------------------
(* What was written is read back.                                          *)

(* What is read of an input with a signature.                              *)
ReadBack(in, c) ==
  [in EXCEPT !.script = <<>>, !.amount = 0,
             !.address = BitWAddressFromScriptSig(in.signature[1], c)]

LEMMA ReadBackIs ==
  ASSUME PrimitivesFit, NEW in \in Input, in.signature # NULL, NEW c \in CoinType
  PROVE  ReadBack(in, c) =
           BitWTxInputSetSignature(NewInput(in.txHash, in.index, 0, in.sequence),
                                   in.signature[1], c)
<1> DEFINE s == in.signature[1]
           addr == BitWAddressFromScriptSig(s, c)
           read == NewInput(in.txHash, in.index, 0, in.sequence)
           shown == [txHash |-> in.txHash, index |-> in.index, address |-> addr, amount |-> 0,
                     script |-> <<>>, signature |-> <<s>>, sequence |-> in.sequence]
<1>1. in.signature = <<s>>
  BY InputType
<1>2. read = [txHash |-> in.txHash, index |-> in.index, address |-> <<>>, amount |-> 0,
              script |-> <<>>, signature |-> NULL, sequence |-> in.sequence]
  BY DEF NewInput
<1>3. BitWTxInputSetSignature(read, s, c) = [read EXCEPT !.signature = <<s>>, !.address = addr]
  <2>1. read.address = <<>>
    BY <1>2
  <2> HIDE DEF read, addr
  <2>2. (IF read.address # <<>> THEN read.address ELSE addr) = addr
    BY <2>1
  <2>3. BitWTxInputSetSignature(read, s, c) =
          [read EXCEPT !.signature = <<s>>,
                       !.address = IF read.address # <<>> THEN read.address ELSE addr]
    BY DEF BitWTxInputSetSignature, addr
  <2> QED
    BY <2>2, <2>3
<1> HIDE DEF s, addr, read, shown
<1>4. [read EXCEPT !.signature = <<s>>, !.address = addr] = shown
  <2> DEFINE x == [read EXCEPT !.signature = <<s>>]
  <2>1. x = [txHash |-> in.txHash, index |-> in.index, address |-> <<>>, amount |-> 0,
             script |-> <<>>, signature |-> <<s>>, sequence |-> in.sequence]
    BY <1>2
  <2> HIDE DEF x
  <2>2. [x EXCEPT !.address = addr] = shown
    BY <2>1 DEF shown
  <2> QED
    BY <2>2 DEF x
<1>5. in = [txHash |-> in.txHash, index |-> in.index, address |-> in.address, amount |-> in.amount,
            script |-> in.script, signature |-> <<s>>, sequence |-> in.sequence]
  BY <1>1 DEF Input
<1>6. [in EXCEPT !.script = <<>>, !.amount = 0, !.address = addr] = shown
  <2> DEFINE x == [in EXCEPT !.script = <<>>]
             y == [x EXCEPT !.amount = 0]
  <2>1. x = [txHash |-> in.txHash, index |-> in.index, address |-> in.address, amount |-> in.amount,
             script |-> <<>>, signature |-> <<s>>, sequence |-> in.sequence]
    BY <1>5
  <2> HIDE DEF x
  <2>2. y = [txHash |-> in.txHash, index |-> in.index, address |-> in.address, amount |-> 0,
             script |-> <<>>, signature |-> <<s>>, sequence |-> in.sequence]
    BY <2>1
  <2> HIDE DEF y
  <2>3. [y EXCEPT !.address = addr] = shown
    BY <2>2 DEF shown
  <2> QED
    BY <2>3 DEF x, y
<1> QED
  BY <1>3, <1>4, <1>6 DEF ReadBack, s, addr, read

(* A script with its length in front.                                      *)
LEMMA ScriptStands ==
  ASSUME NEW b \in Seq(Byte), NEW off \in Nat, NEW script \in Script,
         Stands(b, off, BitWVarIntSet(Len(script))),
         Stands(b, off + BitWVarIntSize(Len(script)), script)
  PROVE  ScriptAt(b, off) =
           [bytes |-> script, end |-> off + BitWVarIntSize(Len(script)) + Len(script)]
<1> DEFINE n == Len(script)
           w == BitWVarIntSize(n)
<1>1. script \in Seq(Byte) /\ n \in 0..(Span(W64) - 1) /\ w \in Nat
  BY ScriptLength
<1> HIDE DEF n, w
<1>2. BitWVarInt(b, off) = [value |-> n, len |-> w]
  BY <1>1, StandsVarInt DEF n, w
<1>3. At(b, off + w, n) = script
  <2>1. off + w \in Nat /\ Stands(b, off + w, script)
    BY <1>1 DEF n, w
  <2> HIDE DEF n
  <2>2. At(b, off + w, Len(script)) = script
    BY <1>1, <2>1, StandsAt
  <2> QED
    BY <2>2 DEF n
<1> QED
  BY <1>2, <1>3 DEF ScriptAt, ScriptOf, ScriptBehind, n, w

LEMMA InputStands ==
  ASSUME PrimitivesFit, NEW b \in Seq(Byte), NEW off \in Nat, NEW in \in Input, NEW c \in CoinType,
         in.signature # NULL, BitWAddressFromScriptPubKey(in.signature[1], c) = <<>>,
         Stands(b, off, InputWritten(in))
  PROVE  /\ NextInput(b, off) = off + Len(InputWritten(in))
         /\ InputAt(b, c, off) = ReadBack(in, c)
<1> DEFINE H == in.txHash
           X == LE(in.index, W32)
           O == Outpoint(in)
           s == in.signature[1]
           V == BitWVarIntSet(Len(s))
           Q == LE(in.sequence, W32)
           start == off + HASH + W32
           end == start + Len(V) + Len(s)
<1>1. /\ H \in Seq(Byte) /\ Len(H) = HASH /\ in.index \in Uint(W32) /\ in.sequence \in Uint(W32)
      /\ s \in Script /\ s \in Seq(Byte) /\ HASH \in Nat /\ W32 \in Nat
  BY InputType, Widths DEF Script
<1>2. X \in Seq(Byte) /\ Len(X) = W32 /\ Q \in Seq(Byte) /\ Len(Q) = W32
  BY <1>1, LEType
<1>3. V \in Seq(Byte) /\ Len(V) = BitWVarIntSize(Len(s)) /\ Len(V) \in Nat /\ Len(s) \in Nat
  BY <1>1, ScriptLength
<1>4. O = H \o X /\ O \in Seq(Byte) /\ Len(O) = HASH + W32
  BY OutpointType DEF Outpoint
<1>5. InputWritten(in) = O \o V \o s \o Q
  BY <1>1, BareData DEF InputWritten
<1> HIDE DEF H, X, O, s, V, Q
<1>6. /\ O \o V \in Seq(Byte) /\ Len(O \o V) = HASH + W32 + Len(V)
      /\ O \o V \o s \in Seq(Byte) /\ Len(O \o V \o s) = HASH + W32 + Len(V) + Len(s)
      /\ Len(O \o V \o s \o Q) = HASH + W32 + Len(V) + Len(s) + W32
  <2>1. O \o V \in Seq(Byte) /\ Len(O \o V) = HASH + W32 + Len(V)
    BY <1>3, <1>4, Concat
  <2> DEFINE y == O \o V
             z == y \o s
  <2> HIDE DEF y
  <2>2. z \in Seq(Byte) /\ Len(z) = Len(y) + Len(s) /\ y \in Seq(Byte) /\ Len(y) = HASH + W32 + Len(V)
    BY <1>1, <2>1, Concat DEF y
  <2> HIDE DEF z
  <2>3. Len(z \o Q) = Len(z) + Len(Q)
    BY <1>2, <2>2, Concat
  <2>4. Len(z) = HASH + W32 + Len(V) + Len(s)
    BY <2>2
  <2>5. Len(z \o Q) = HASH + W32 + Len(V) + Len(s) + W32
    BY <1>2, <2>3, <2>4
  <2> QED
    BY <2>1, <2>2, <2>4, <2>5 DEF z, y
<1>7. Stands(b, off, O \o V \o s) /\ Stands(b, end, Q)
  <2>1. Stands(b, off, O \o V \o s) /\ Stands(b, off + Len(O \o V \o s), Q)
    BY <1>2, <1>5, <1>6, StandsConcat
  <2>2. off + Len(O \o V \o s) = end
    BY <1>1, <1>3, <1>6
  <2> QED
    BY <2>1, <2>2
<1>8. Stands(b, off, O \o V) /\ Stands(b, start + Len(V), s)
  <2>1. Stands(b, off, O \o V) /\ Stands(b, off + Len(O \o V), s)
    BY <1>1, <1>6, <1>7, StandsConcat
  <2>2. off + Len(O \o V) = start + Len(V)
    BY <1>1, <1>3, <1>6
  <2> QED
    BY <2>1, <2>2
<1>9. Stands(b, off, O) /\ Stands(b, start, V)
  <2>1. Stands(b, off, O) /\ Stands(b, off + Len(O), V)
    BY <1>3, <1>4, <1>8, StandsConcat
  <2>2. off + Len(O) = start
    BY <1>1, <1>4
  <2> QED
    BY <2>1, <2>2
<1>10. Stands(b, off, H) /\ Stands(b, off + HASH, X)
  BY <1>1, <1>2, <1>4, <1>9, StandsConcat
<1>11. At(b, off, HASH) = H
  BY <1>1, <1>10, StandsAt
<1>12. GetLE(b, off + HASH, W32) = in.index
  <2>1. off + HASH \in Nat /\ in.index \in 0..(Span(W32) - 1)
    BY <1>1 DEF Uint
  <2> QED
    BY <1>1, <1>10, <2>1, StandsLE DEF X
<1>13. GetLE(b, end, W32) = in.sequence
  <2>1. end \in Nat /\ in.sequence \in 0..(Span(W32) - 1)
    BY <1>1, <1>3 DEF Uint
  <2> HIDE DEF end
  <2> QED
    BY <1>1, <1>7, <2>1, StandsLE DEF Q
<1>14. InputScript(b, off) = [bytes |-> s, end |-> end]
  <2>1. start \in Nat
    BY <1>1
  <2> HIDE DEF start
  <2>2. ScriptAt(b, start) = [bytes |-> s, end |-> start + Len(V) + Len(s)]
    BY <1>1, <1>3, <1>8, <1>9, <2>1, ScriptStands DEF V
  <2> QED
    BY <2>2 DEF InputScript, start
<1>15. end <= Len(b) /\ off <= Len(b)
  BY <1>1, <1>2, <1>3, <1>7 DEF Stands
<1>16. NextInput(b, off) = end + W32
  <2> HIDE DEF end
  <2>1. ~(off > Len(b))
    BY <1>15
  <2> QED
    BY <1>14, <2>1 DEF NextInput
<1>17. InputAt(b, c, off) =
         BitWTxInputSetSignature(NewInput(H, in.index, 0, in.sequence), s, c)
  <2> DEFINE script == [bytes |-> s, end |-> end]
  <2> HIDE DEF end
  <2>1. BitWAddressFromScriptPubKey(s, c) = <<>>
    BY DEF s
  <2>2. ~CouldReceive(b, c, script)
    BY <2>1 DEF CouldReceive
  <2>3. ReadInput(b, c, off, script, FALSE) =
          BitWTxInputSetSignature(NewInput(At(b, off, HASH), GetLE(b, off + HASH, W32), 0,
                                           GetLE(b, end, W32)), s, c)
    BY <1>15 DEF ReadInput
  <2>4. InputAt(b, c, off) = ReadInput(b, c, off, script, CouldReceive(b, c, script))
    BY <1>14 DEF InputAt
  <2>5. CouldReceive(b, c, script) = FALSE
    BY <2>2 DEF CouldReceive
  <2>6. InputAt(b, c, off) = ReadInput(b, c, off, script, FALSE)
    BY <2>4, <2>5
  <2> QED
    BY <1>11, <1>12, <1>13, <2>3, <2>6
<1>18. off + Len(InputWritten(in)) = end + W32
  <2> DEFINE l == Len(InputWritten(in))
  <2>1. l = HASH + W32 + Len(V) + Len(s) + W32
    BY <1>5, <1>6
  <2> HIDE DEF l
  <2>2. off + l = end + W32
    BY <1>1, <1>3, <2>1
  <2> QED
    BY <2>2 DEF l
<1>19. ReadBack(in, c) = BitWTxInputSetSignature(NewInput(H, in.index, 0, in.sequence), s, c)
  BY ReadBackIs DEF H, s
<1> QED
  BY <1>16, <1>17, <1>18, <1>19

LEMMA OutputStands ==
  ASSUME PrimitivesFit, NEW b \in Seq(Byte), NEW off \in Nat, NEW out \in Output, NEW c \in CoinType,
         out.address = BitWAddressFromScriptPubKey(out.script, c),
         Stands(b, off, OutputData(out))
  PROVE  /\ NextOutput(b, off) = off + Len(OutputData(out))
         /\ OutputAt(b, c, off) = out
<1> DEFINE A == LE(out.amount, W64)
           s == out.script
           V == BitWVarIntSet(Len(s))
           start == off + W64
           end == start + Len(V) + Len(s)
<1>1. out.amount \in Uint(W64) /\ s \in Script /\ s \in Seq(Byte) /\ W64 \in Nat
  BY OutputType, Widths
<1>2. A \in Seq(Byte) /\ Len(A) = W64
  BY <1>1, LEType
<1>3. V \in Seq(Byte) /\ Len(V) = BitWVarIntSize(Len(s)) /\ Len(V) \in Nat /\ Len(s) \in Nat
  BY <1>1, ScriptLength
<1>4. OutputData(out) = A \o V \o s
  BY DEF OutputData
<1> HIDE DEF A, s, V
<1>5. /\ A \o V \in Seq(Byte) /\ Len(A \o V) = W64 + Len(V)
      /\ Len(A \o V \o s) = W64 + Len(V) + Len(s)
  <2>1. A \o V \in Seq(Byte) /\ Len(A \o V) = W64 + Len(V)
    BY <1>2, <1>3, Concat
  <2>2. Len(A \o V \o s) = W64 + Len(V) + Len(s)
    BY <1>1, <2>1, Concat
  <2> QED
    BY <2>1, <2>2
<1>6. Stands(b, off, A \o V) /\ Stands(b, start + Len(V), s)
  <2>1. Stands(b, off, A \o V) /\ Stands(b, off + Len(A \o V), s)
    BY <1>1, <1>4, <1>5, StandsConcat
  <2>2. off + Len(A \o V) = start + Len(V)
    BY <1>1, <1>3, <1>5
  <2> QED
    BY <2>1, <2>2
<1>7. Stands(b, off, A) /\ Stands(b, start, V)
  BY <1>2, <1>3, <1>6, StandsConcat
<1>8. GetLE(b, off, W64) = out.amount
  <2>1. out.amount \in 0..(Span(W64) - 1)
    BY <1>1 DEF Uint
  <2> QED
    BY <1>1, <1>7, <2>1, StandsLE DEF A
<1>9. OutputScript(b, off) = [bytes |-> s, end |-> end]
  <2>1. start \in Nat
    BY <1>1
  <2> HIDE DEF start
  <2>2. ScriptAt(b, start) = [bytes |-> s, end |-> start + Len(V) + Len(s)]
    BY <1>1, <1>3, <1>6, <1>7, <2>1, ScriptStands DEF V
  <2> QED
    BY <2>2 DEF OutputScript, start
<1>10. end <= Len(b) /\ off <= Len(b)
  BY <1>1, <1>3, <1>6 DEF Stands
<1>11. NextOutput(b, off) = end
  <2> HIDE DEF end
  <2>1. ~(off > Len(b))
    BY <1>10
  <2> QED
    BY <1>9, <2>1 DEF NextOutput
<1>12. OutputAt(b, c, off) = BitWTxOutputSetScript(NewOutput(out.amount), s, c)
  <2> HIDE DEF end
  <2> QED
    BY <1>8, <1>9, <1>10 DEF OutputAt, ReadOutput
<1>13. BitWTxOutputSetScript(NewOutput(out.amount), s, c) =
         [address |-> BitWAddressFromScriptPubKey(s, c), amount |-> out.amount, script |-> s]
  BY <1>1, ScriptOutputType
<1>14. out = [address |-> out.address, amount |-> out.amount, script |-> out.script]
  BY DEF Output
<1>15. off + Len(OutputData(out)) = end
  BY <1>1, <1>3, <1>4, <1>5
<1> QED
  BY <1>11, <1>12, <1>13, <1>14, <1>15 DEF s

(* Every turn of a loop passes a byte, until it is behind the end.         *)
LEMMA InputsPassed ==
  ASSUME NEW b \in Seq(Byte), NEW off \in Nat, NEW n \in Nat
  PROVE  \A k \in 0..n : LET at == InputOffsets(b, off, n)[k]
                         IN at \in Nat /\ (at > Len(b) \/ at >= off + k)
<1> DEFINE at == InputOffsets(b, off, n)
           S == {k \in 0..n : at[k] > Len(b) \/ at[k] >= off + k}
<1>1. /\ at[0] = off /\ \A k \in 1..n : at[k] = NextInput(b, at[k - 1])
      /\ \A k \in 0..n : at[k] \in Nat
  BY InputOffsetsFacts
<1>2. Len(b) \in Nat
  OBVIOUS
<1> HIDE DEF at
<1>3. 0 \in S
  BY <1>1
<1>4. ASSUME NEW k \in 1..n, k - 1 \in S  PROVE k \in S
  <2> DEFINE was == at[k - 1]
             is == at[k]
  <2>1. k - 1 \in 0..n /\ k \in 0..n
    OBVIOUS
  <2>2. was \in Nat /\ is \in Nat /\ is = NextInput(b, was) /\ (was > Len(b) \/ was >= off + (k - 1))
    BY <1>1, <1>4, <2>1
  <2> HIDE DEF was, is
  <2>3. is >= was /\ (was <= Len(b) => is > was)
    BY <2>2, NextInputType
  <2>4. is > Len(b) \/ is >= off + k
    BY <1>2, <2>2, <2>3
  <2> QED
    BY <2>1, <2>4 DEF is
<1>5. \A k \in 0..n : k \in S
  <2> HIDE DEF S
  <2> QED
    BY <1>3, <1>4, AllUpTo
<1> QED
  BY <1>1, <1>5 DEF at

LEMMA OutputsPassed ==
  ASSUME NEW b \in Seq(Byte), NEW off \in Nat, NEW n \in Nat
  PROVE  \A k \in 0..n : LET at == OutputOffsets(b, off, n)[k]
                         IN at \in Nat /\ (at > Len(b) \/ at >= off + k)
<1> DEFINE at == OutputOffsets(b, off, n)
           S == {k \in 0..n : at[k] > Len(b) \/ at[k] >= off + k}
<1>1. /\ at[0] = off /\ \A k \in 1..n : at[k] = NextOutput(b, at[k - 1])
      /\ \A k \in 0..n : at[k] \in Nat
  BY OutputOffsetsFacts
<1>2. Len(b) \in Nat
  OBVIOUS
<1> HIDE DEF at
<1>3. 0 \in S
  BY <1>1
<1>4. ASSUME NEW k \in 1..n, k - 1 \in S  PROVE k \in S
  <2> DEFINE was == at[k - 1]
             is == at[k]
  <2>1. k - 1 \in 0..n /\ k \in 0..n
    OBVIOUS
  <2>2. was \in Nat /\ is \in Nat /\ is = NextOutput(b, was) /\ (was > Len(b) \/ was >= off + (k - 1))
    BY <1>1, <1>4, <2>1
  <2> HIDE DEF was, is
  <2>3. is >= was /\ (was <= Len(b) => is > was)
    BY <2>2, NextOutputType
  <2>4. is > Len(b) \/ is >= off + k
    BY <1>2, <2>2, <2>3
  <2> QED
    BY <2>1, <2>4 DEF is
<1>5. \A k \in 0..n : k \in S
  <2> HIDE DEF S
  <2> QED
    BY <1>3, <1>4, AllUpTo
<1> QED
  BY <1>1, <1>5 DEF at

(* All inputs of a signed transaction.                                     *)
LEMMA InputsWalked ==
  ASSUME PrimitivesFit, NEW b \in Seq(Byte), NEW off \in Nat, NEW t, Countable(t), NEW c \in CoinType,
         BitWTransactionIsSigned(t), SignaturesPayNothing(t, c),
         Stands(b, off, FlattenSeq(InputsWritten(t)))
  PROVE  ParseInputs(b, c, off, Len(t.inputs)) =
           [off |-> off + Len(FlattenSeq(InputsWritten(t))),
            all |-> [k \in 1..Len(t.inputs) |-> ReadBack(t.inputs[k], c)]]
<1> DEFINE n == Len(t.inputs)
           seqs == InputsWritten(t)
           at == InputOffsets(b, off, n)
<1>1. /\ n \in Nat /\ seqs \in Seq(Seq(Byte)) /\ Len(seqs) = n
      /\ \A k \in 1..n : seqs[k] = InputWritten(t.inputs[k])
  <2>1. \A k \in 1..n : seqs[k] = InputWritten(t.inputs[k])
    BY DEF InputsWritten
  <2> QED
    BY <2>1, WrittenType, TxType
<1>2. \A k \in 1..n : /\ t.inputs[k] \in Input /\ t.inputs[k].signature # NULL
                      /\ BitWAddressFromScriptPubKey(t.inputs[k].signature[1], c) = <<>>
  BY TxType DEF BitWTransactionIsSigned, SignaturesPayNothing
<1> HIDE DEF n, seqs
<1>3. PICK f : Accumulates(f, seqs, Byte) /\ FlattenSeq(seqs) = f[n]
  BY <1>1, FlattenPrefixes
<1>4. /\ \A k \in 0..n : f[k] \in Seq(Byte) /\ Len(f[k]) \in Nat
      /\ f[0] = <<>> /\ \A k \in 1..n : f[k] = f[k - 1] \o seqs[k]
  <2>1. f \in [0..n -> Seq(Byte)] /\ f[0] = <<>> /\ \A k \in 1..n : f[k] = f[k - 1] \o seqs[k]
    BY <1>1, <1>3 DEF Accumulates
  <2>2. \A x \in Seq(Byte) : Len(x) \in Nat
    OBVIOUS
  <2>3. \A k \in 0..n : f[k] \in Seq(Byte)
    BY <2>1
  <2> QED
    BY <2>1, <2>2, <2>3
<1>5. Stands(b, off, f[n])
  BY <1>3 DEF seqs
<1>6. \A k \in 1..n : Stands(b, off + Len(f[k - 1]), seqs[k])
  BY <1>1, <1>3, <1>5, StandsFlatten
<1>7. at[0] = off /\ \A k \in 1..n : at[k] = NextInput(b, at[k - 1])
  BY <1>1, InputOffsetsFacts
<1>8. ASSUME NEW k \in 1..n, at[k - 1] = off + Len(f[k - 1])
      PROVE  at[k] = off + Len(f[k]) /\ InputAt(b, c, at[k - 1]) = ReadBack(t.inputs[k], c)
  <2> DEFINE was == at[k - 1]
             in == t.inputs[k]
             x == f[k - 1]
  <2>1. k - 1 \in 0..n /\ k \in 0..n
    BY <1>1
  <2>2. x \in Seq(Byte) /\ Len(x) \in Nat /\ was = off + Len(x)
    BY <1>4, <1>8, <2>1
  <2>3. at[k] = NextInput(b, was) /\ f[k] = x \o InputWritten(in) /\ Stands(b, was, InputWritten(in))
    BY <1>1, <1>4, <1>6, <1>7, <2>2
  <2>4. was \in Nat /\ in \in Input /\ in.signature # NULL
        /\ BitWAddressFromScriptPubKey(in.signature[1], c) = <<>> /\ InputWritten(in) \in Seq(Byte)
    BY <1>1, <1>2, <2>2
  <2> HIDE DEF was, in, x, at
  <2>5. NextInput(b, was) = was + Len(InputWritten(in)) /\ InputAt(b, c, was) = ReadBack(in, c)
    BY <2>3, <2>4, InputStands
  <2>6. Len(x \o InputWritten(in)) = Len(x) + Len(InputWritten(in)) /\ Len(InputWritten(in)) \in Nat
    BY <2>2, <2>4, Concat
  <2>7. at[k] = off + Len(f[k])
    <3> DEFINE l == Len(InputWritten(in))
               m == Len(x)
    <3>1. at[k] = (off + m) + l /\ Len(f[k]) = m + l /\ m \in Nat /\ l \in Nat
      BY <2>2, <2>3, <2>5, <2>6
    <3> HIDE DEF l, m
    <3> QED
      BY <3>1
  <2> QED
    BY <2>5, <2>7 DEF was, in
<1> DEFINE S == {k \in 0..n : at[k] = off + Len(f[k])}
<1>9. 0 \in S
  <2>1. Len(f[0]) = 0 /\ 0 \in 0..n /\ at[0] = off
    BY <1>1, <1>4, <1>7
  <2> HIDE DEF at
  <2>2. at[0] = off + Len(f[0])
    BY <2>1
  <2> QED
    BY <2>1, <2>2
<1>10. ASSUME NEW k \in 1..n, k - 1 \in S  PROVE k \in S
  <2>1. at[k - 1] = off + Len(f[k - 1]) /\ k \in 0..n
    BY <1>10
  <2>2. at[k] = off + Len(f[k])
    <3> HIDE DEF at
    <3> QED
      BY <1>8, <2>1
  <2> QED
    BY <2>1, <2>2
<1>11. \A k \in 0..n : k \in S
  <2> HIDE DEF S
  <2> QED
    BY <1>1, <1>9, <1>10, AllUpTo
<1>12. at[n] = off + Len(f[n]) /\ n \in 0..n
  BY <1>1, <1>11
<1>13. \A k \in 1..n : InputAt(b, c, at[k - 1]) = ReadBack(t.inputs[k], c)
  <2> SUFFICES ASSUME NEW k \in 1..n  PROVE InputAt(b, c, at[k - 1]) = ReadBack(t.inputs[k], c)
    OBVIOUS
  <2>1. k - 1 \in 0..n
    BY <1>1
  <2>2. at[k - 1] = off + Len(f[k - 1])
    BY <1>11, <2>1
  <2> HIDE DEF at
  <2> QED
    BY <1>8, <2>2
<1>14. n <= Len(b)
  <2> DEFINE end == at[n]
             m == Len(f[n])
  <2>1. end \in Nat /\ (end > Len(b) \/ end >= off + n)
    BY <1>1, <1>12, InputsPassed
  <2>2. off + m <= Len(b) /\ end = off + m /\ m \in Nat
    BY <1>4, <1>5, <1>12 DEF Stands
  <2> HIDE DEF end, m
  <2> QED
    BY <1>1, <2>1, <2>2
<1>15. Min2(n, Len(b)) = n
  BY <1>1, <1>14 DEF Min2
<1>16. ParseInputs(b, c, off, n) = [off |-> at[n], all |-> [k \in 1..n |-> InputAt(b, c, at[k - 1])]]
  BY <1>15 DEF ParseInputs
<1> HIDE DEF at
<1>17. [k \in 1..n |-> InputAt(b, c, at[k - 1])] = [k \in 1..n |-> ReadBack(t.inputs[k], c)]
  BY <1>13
<1> QED
  BY <1>3, <1>12, <1>16, <1>17 DEF n, seqs

(* All outputs.                                                            *)
LEMMA OutputsWalked ==
  ASSUME PrimitivesFit, NEW b \in Seq(Byte), NEW off \in Nat, NEW t, Countable(t), NEW c \in CoinType,
         OutputsAddressed(t, c), Stands(b, off, FlattenSeq(OutputsWritten(t)))
  PROVE  ParseOutputs(b, c, off, Len(t.outputs)) =
           [off |-> off + Len(FlattenSeq(OutputsWritten(t))), all |-> t.outputs]
<1> DEFINE n == Len(t.outputs)
           seqs == OutputsWritten(t)
           at == OutputOffsets(b, off, n)
<1>1. /\ n \in Nat /\ seqs \in Seq(Seq(Byte)) /\ Len(seqs) = n
      /\ \A k \in 1..n : seqs[k] = OutputData(t.outputs[k])
  <2>1. \A k \in 1..n : seqs[k] = OutputData(t.outputs[k])
    BY DEF OutputsWritten
  <2> QED
    BY <2>1, WrittenType, TxType
<1>2. \A k \in 1..n : /\ t.outputs[k] \in Output
                      /\ t.outputs[k].address = BitWAddressFromScriptPubKey(t.outputs[k].script, c)
  BY TxType DEF OutputsAddressed
<1> HIDE DEF n, seqs
<1>3. PICK f : Accumulates(f, seqs, Byte) /\ FlattenSeq(seqs) = f[n]
  BY <1>1, FlattenPrefixes
<1>4. /\ \A k \in 0..n : f[k] \in Seq(Byte) /\ Len(f[k]) \in Nat
      /\ f[0] = <<>> /\ \A k \in 1..n : f[k] = f[k - 1] \o seqs[k]
  <2>1. f \in [0..n -> Seq(Byte)] /\ f[0] = <<>> /\ \A k \in 1..n : f[k] = f[k - 1] \o seqs[k]
    BY <1>1, <1>3 DEF Accumulates
  <2>2. \A x \in Seq(Byte) : Len(x) \in Nat
    OBVIOUS
  <2>3. \A k \in 0..n : f[k] \in Seq(Byte)
    BY <2>1
  <2> QED
    BY <2>1, <2>2, <2>3
<1>5. Stands(b, off, f[n])
  BY <1>3 DEF seqs
<1>6. \A k \in 1..n : Stands(b, off + Len(f[k - 1]), seqs[k])
  BY <1>1, <1>3, <1>5, StandsFlatten
<1>7. at[0] = off /\ \A k \in 1..n : at[k] = NextOutput(b, at[k - 1])
  BY <1>1, OutputOffsetsFacts
<1>8. ASSUME NEW k \in 1..n, at[k - 1] = off + Len(f[k - 1])
      PROVE  at[k] = off + Len(f[k]) /\ OutputAt(b, c, at[k - 1]) = t.outputs[k]
  <2> DEFINE was == at[k - 1]
             out == t.outputs[k]
             x == f[k - 1]
  <2>1. k - 1 \in 0..n /\ k \in 0..n
    BY <1>1
  <2>2. x \in Seq(Byte) /\ Len(x) \in Nat /\ was = off + Len(x)
    BY <1>4, <1>8, <2>1
  <2>3. at[k] = NextOutput(b, was) /\ f[k] = x \o OutputData(out) /\ Stands(b, was, OutputData(out))
    BY <1>1, <1>4, <1>6, <1>7, <2>2
  <2>4. was \in Nat /\ out \in Output /\ OutputData(out) \in Seq(Byte)
        /\ out.address = BitWAddressFromScriptPubKey(out.script, c)
    BY <1>1, <1>2, <2>2
  <2> HIDE DEF was, out, x, at
  <2>5. NextOutput(b, was) = was + Len(OutputData(out)) /\ OutputAt(b, c, was) = out
    BY <2>3, <2>4, OutputStands
  <2>6. Len(x \o OutputData(out)) = Len(x) + Len(OutputData(out)) /\ Len(OutputData(out)) \in Nat
    BY <2>2, <2>4, Concat
  <2>7. at[k] = off + Len(f[k])
    <3> DEFINE l == Len(OutputData(out))
               m == Len(x)
    <3>1. at[k] = (off + m) + l /\ Len(f[k]) = m + l /\ m \in Nat /\ l \in Nat
      BY <2>2, <2>3, <2>5, <2>6
    <3> HIDE DEF l, m
    <3> QED
      BY <3>1
  <2> QED
    BY <2>5, <2>7 DEF was, out
<1> DEFINE S == {k \in 0..n : at[k] = off + Len(f[k])}
<1>9. 0 \in S
  <2>1. Len(f[0]) = 0 /\ 0 \in 0..n /\ at[0] = off
    BY <1>1, <1>4, <1>7
  <2> HIDE DEF at
  <2>2. at[0] = off + Len(f[0])
    BY <2>1
  <2> QED
    BY <2>1, <2>2
<1>10. ASSUME NEW k \in 1..n, k - 1 \in S  PROVE k \in S
  <2>1. at[k - 1] = off + Len(f[k - 1]) /\ k \in 0..n
    BY <1>10
  <2>2. at[k] = off + Len(f[k])
    <3> HIDE DEF at
    <3> QED
      BY <1>8, <2>1
  <2> QED
    BY <2>1, <2>2
<1>11. \A k \in 0..n : k \in S
  <2> HIDE DEF S
  <2> QED
    BY <1>1, <1>9, <1>10, AllUpTo
<1>12. at[n] = off + Len(f[n]) /\ n \in 0..n
  BY <1>1, <1>11
<1>13. \A k \in 1..n : OutputAt(b, c, at[k - 1]) = t.outputs[k]
  <2> SUFFICES ASSUME NEW k \in 1..n  PROVE OutputAt(b, c, at[k - 1]) = t.outputs[k]
    OBVIOUS
  <2>1. k - 1 \in 0..n
    BY <1>1
  <2>2. at[k - 1] = off + Len(f[k - 1])
    BY <1>11, <2>1
  <2> HIDE DEF at
  <2> QED
    BY <1>8, <2>2
<1>14. n <= Len(b)
  <2> DEFINE end == at[n]
             m == Len(f[n])
  <2>1. end \in Nat /\ (end > Len(b) \/ end >= off + n)
    BY <1>1, <1>12, OutputsPassed
  <2>2. off + m <= Len(b) /\ end = off + m /\ m \in Nat
    BY <1>4, <1>5, <1>12 DEF Stands
  <2> HIDE DEF end, m
  <2> QED
    BY <1>1, <2>1, <2>2
<1>15. Min2(n, Len(b)) = n
  BY <1>1, <1>14 DEF Min2
<1>16. ParseOutputs(b, c, off, n) = [off |-> at[n], all |-> [k \in 1..n |-> OutputAt(b, c, at[k - 1])]]
  BY <1>15 DEF ParseOutputs
<1> HIDE DEF at
<1>17. [k \in 1..n |-> OutputAt(b, c, at[k - 1])] = t.outputs
  <2>1. t.outputs = [k \in 1..n |-> t.outputs[k]]
    BY TxType DEF n
  <2> QED
    BY <1>13, <2>1
<1> QED
  BY <1>3, <1>12, <1>16, <1>17 DEF n, seqs

(* Where the parts of a signed transaction are found in its bytes.         *)
LEMMA WrittenParts ==
  ASSUME PrimitivesFit, NEW t, Countable(t), NEW c \in CoinType, BitWTransactionIsSigned(t),
         SignaturesPayNothing(t, c), OutputsAddressed(t, c)
  PROVE  \E o \in Nat, e \in Nat :
           LET b == Written(t)
               n == Len(t.inputs)
               m == Len(t.outputs)
               reads == [k \in 1..n |-> ReadBack(t.inputs[k], c)]
           IN /\ GetLE(b, 0, W32) = t.version
              /\ BitWVarInt(b, W32) = [value |-> n, len |-> BitWVarIntSize(n)]
              /\ ParseInputs(b, c, W32 + BitWVarIntSize(n), n) = [off |-> o, all |-> reads]
              /\ BitWVarInt(b, o) = [value |-> m, len |-> BitWVarIntSize(m)]
              /\ ParseOutputs(b, c, o + BitWVarIntSize(m), m) = [off |-> e, all |-> t.outputs]
              /\ GetLE(b, e, W32) = t.lockTime /\ e + W32 = Len(b)
<1> DEFINE n == Len(t.inputs)
           m == Len(t.outputs)
           A == LE(t.version, W32)
           V == BitWVarIntSet(n)
           I == FlattenSeq(InputsWritten(t))
           U == BitWVarIntSet(m)
           O == FlattenSeq(OutputsWritten(t))
           L == LE(t.lockTime, W32)
           p == A \o V
           q == p \o I
           r == U \o O
           x == q \o r
           b == x \o L
           o == W32 + BitWVarIntSize(n) + Len(I)
           e == o + BitWVarIntSize(m) + Len(O)
           reads == [k \in 1..n |-> ReadBack(t.inputs[k], c)]
<1>1. /\ n \in 0..(Span(W64) - 1) /\ m \in 0..(Span(W64) - 1)
      /\ t.version \in 0..(Span(W32) - 1) /\ t.lockTime \in 0..(Span(W32) - 1)
      /\ W32 \in Nat
  BY TxType, Widths DEF Uint
<1>2. /\ A \in Seq(Byte) /\ Len(A) = W32 /\ L \in Seq(Byte) /\ Len(L) = W32
      /\ V \in Seq(Byte) /\ U \in Seq(Byte) /\ I \in Seq(Byte) /\ O \in Seq(Byte)
  BY WrittenType
<1>3. /\ Len(V) = BitWVarIntSize(n) /\ Len(V) \in Nat /\ Len(U) = BitWVarIntSize(m) /\ Len(U) \in Nat
      /\ Len(I) \in Nat /\ Len(O) \in Nat
  BY <1>2 DEF BitWVarIntSize
<1>4. Written(t) = b
  BY DEF Written
<1> HIDE DEF n, m, A, V, I, U, O, L
<1>5. p \in Seq(Byte) /\ Len(p) = Len(A) + Len(V)
  BY <1>2, Concat
<1> HIDE DEF p
<1>6. q \in Seq(Byte) /\ Len(q) = Len(p) + Len(I)
  BY <1>2, <1>5, Concat
<1>7. r \in Seq(Byte) /\ Len(r) = Len(U) + Len(O)
  BY <1>2, Concat
<1> HIDE DEF q, r
<1>8. x \in Seq(Byte) /\ Len(x) = Len(q) + Len(r)
  BY <1>6, <1>7, Concat
<1> HIDE DEF x
<1>9. b \in Seq(Byte) /\ Len(b) = Len(x) + Len(L)
  BY <1>2, <1>8, Concat
<1>10. Stands(b, 0, x) /\ Stands(b, Len(x), L)
  <2>1. Stands(b, 0, b)
    BY <1>9, StandsWhole
  <2>2. Stands(b, 0, x) /\ Stands(b, 0 + Len(x), L)
    BY <1>2, <1>8, <1>9, <2>1, StandsConcat
  <2>3. 0 + Len(x) = Len(x)
    BY <1>8
  <2> QED
    BY <2>2, <2>3
<1> HIDE DEF b
<1>11. Stands(b, 0, q) /\ Stands(b, Len(q), r)
  <2>1. Stands(b, 0, q) /\ Stands(b, 0 + Len(q), r)
    BY <1>6, <1>7, <1>9, <1>10, StandsConcat DEF x
  <2>2. 0 + Len(q) = Len(q)
    BY <1>6
  <2> QED
    BY <2>1, <2>2
<1>12. Stands(b, 0, p) /\ Stands(b, Len(p), I)
  <2>1. Stands(b, 0, p) /\ Stands(b, 0 + Len(p), I)
    BY <1>2, <1>5, <1>9, <1>11, StandsConcat DEF q
  <2>2. 0 + Len(p) = Len(p)
    BY <1>5
  <2> QED
    BY <2>1, <2>2
<1>13. Stands(b, 0, A) /\ Stands(b, W32, V)
  <2>1. Stands(b, 0, A) /\ Stands(b, 0 + Len(A), V)
    BY <1>2, <1>9, <1>12, StandsConcat DEF p
  <2>2. 0 + Len(A) = W32
    BY <1>1, <1>2
  <2> QED
    BY <2>1, <2>2
<1>14. Len(q) \in Nat
  BY <1>6
<1>15. Stands(b, Len(q), U) /\ Stands(b, Len(q) + Len(U), O)
  BY <1>2, <1>9, <1>11, <1>14, StandsConcat DEF r
<1>16. Len(p) = W32 + BitWVarIntSize(n) /\ Len(q) = o /\ Len(q) + Len(U) = o + BitWVarIntSize(m)
       /\ Len(x) = e /\ Len(b) = e + W32
  <2> DEFINE lp == Len(p)
             lq == Len(q)
             lr == Len(r)
             lx == Len(x)
             lb == Len(b)
             lu == Len(U)
             lv == Len(V)
             li == Len(I)
             lo == Len(O)
             vn == BitWVarIntSize(n)
             vm == BitWVarIntSize(m)
  <2>1. /\ lp = W32 + lv /\ lq = lp + li /\ lr = lu + lo /\ lx = lq + lr /\ lb = lx + W32
        /\ lv = vn /\ lu = vm /\ {lv, lu, li, lo, W32} \subseteq Nat
    BY <1>1, <1>2, <1>3, <1>5, <1>6, <1>7, <1>8, <1>9
  <2> HIDE DEF lp, lq, lr, lx, lb, lu, lv, li, lo, vn, vm
  <2>2. /\ lp = W32 + vn /\ lq = W32 + vn + li /\ lq + lu = W32 + vn + li + vm
        /\ lx = W32 + vn + li + vm + lo /\ lb = W32 + vn + li + vm + lo + W32
    BY <2>1
  <2> QED
    BY <2>2 DEF lp, lq, lx, lb, lu, li, lo, vn, vm
<1>17. o \in Nat /\ e \in Nat /\ o + BitWVarIntSize(m) \in Nat /\ W32 + BitWVarIntSize(n) \in Nat
  <2> DEFINE li == Len(I)
             lo == Len(O)
             vn == BitWVarIntSize(n)
             vm == BitWVarIntSize(m)
  <2>1. vn \in Nat /\ vm \in Nat /\ li \in Nat /\ lo \in Nat
    BY <1>3
  <2> HIDE DEF li, lo, vn, vm
  <2>2. /\ W32 + vn + li \in Nat /\ W32 + vn + li + vm + lo \in Nat
        /\ W32 + vn + li + vm \in Nat /\ W32 + vn \in Nat
    BY <1>1, <2>1
  <2> QED
    BY <2>2 DEF li, lo, vn, vm
<1> HIDE DEF o, e
<1>18. GetLE(b, 0, W32) = t.version
  BY <1>1, <1>9, <1>13, StandsLE DEF A
<1>19. BitWVarInt(b, W32) = [value |-> n, len |-> BitWVarIntSize(n)]
  BY <1>1, <1>9, <1>13, StandsVarInt DEF V
<1>20. ParseInputs(b, c, W32 + BitWVarIntSize(n), n) = [off |-> o, all |-> reads]
  <2> DEFINE at == W32 + BitWVarIntSize(n)
  <2>1. at \in Nat /\ Stands(b, at, FlattenSeq(InputsWritten(t)))
    BY <1>12, <1>16, <1>17 DEF I
  <2> HIDE DEF at, reads
  <2>2. ParseInputs(b, c, at, Len(t.inputs)) =
          [off |-> at + Len(FlattenSeq(InputsWritten(t))),
           all |-> [k \in 1..Len(t.inputs) |-> ReadBack(t.inputs[k], c)]]
    BY <1>9, <2>1, InputsWalked
  <2> QED
    BY <2>2 DEF at, o, n, I, reads
<1>21. BitWVarInt(b, o) = [value |-> m, len |-> BitWVarIntSize(m)]
  <2>1. Stands(b, o, U)
    BY <1>15, <1>16
  <2> QED
    BY <1>1, <1>9, <1>17, <2>1, StandsVarInt DEF U
<1>22. ParseOutputs(b, c, o + BitWVarIntSize(m), m) = [off |-> e, all |-> t.outputs]
  <2> DEFINE at == o + BitWVarIntSize(m)
  <2>1. at \in Nat /\ Stands(b, at, FlattenSeq(OutputsWritten(t)))
    BY <1>15, <1>16, <1>17 DEF O
  <2> HIDE DEF at
  <2>2. ParseOutputs(b, c, at, Len(t.outputs)) =
          [off |-> at + Len(FlattenSeq(OutputsWritten(t))), all |-> t.outputs]
    BY <1>9, <2>1, OutputsWalked
  <2> QED
    BY <2>2 DEF at, e, m, O
<1>23. GetLE(b, e, W32) = t.lockTime
  <2>1. Stands(b, e, L)
    BY <1>10, <1>16
  <2> QED
    BY <1>1, <1>9, <1>17, <2>1, StandsLE DEF L
<1>24. e + W32 = Len(b)
  BY <1>16
<1>25. Written(t) = b
  BY <1>4 DEF b
<1> HIDE DEF reads
<1> QED
  BY <1>17, <1>18, <1>19, <1>20, <1>21, <1>22, <1>23, <1>24, <1>25 DEF n, m, reads

LEMMA WrittenRead ==
  ASSUME PrimitivesFit, NEW t, Countable(t), NEW c \in CoinType, BitWTransactionIsSigned(t),
         SignaturesPayNothing(t, c), OutputsAddressed(t, c),
         t.inputs # <<>>, t.txHash = Sha256d(Written(t))
  PROVE  BitWTransactionParse(Written(t), c) =
           <<[t EXCEPT !.inputs = [n \in DOMAIN @ |-> ReadBack(@[n], c)]]>>
<1> DEFINE b == Written(t)
           n == Len(t.inputs)
           m == Len(t.outputs)
           reads == [k \in 1..n |-> ReadBack(t.inputs[k], c)]
           back == [txHash |-> Sha256d(b), version |-> t.version, inputs |-> reads,
                    outputs |-> t.outputs, lockTime |-> t.lockTime]
<1>1. PICK o \in Nat, e \in Nat :
        /\ GetLE(b, 0, W32) = t.version
        /\ BitWVarInt(b, W32) = [value |-> n, len |-> BitWVarIntSize(n)]
        /\ ParseInputs(b, c, W32 + BitWVarIntSize(n), n) = [off |-> o, all |-> reads]
        /\ BitWVarInt(b, o) = [value |-> m, len |-> BitWVarIntSize(m)]
        /\ ParseOutputs(b, c, o + BitWVarIntSize(m), m) = [off |-> e, all |-> t.outputs]
        /\ GetLE(b, e, W32) = t.lockTime /\ e + W32 = Len(b)
  BY WrittenParts
<1>2. b \in Seq(Byte)
  BY WrittenType
<1>3. n # 0
  BY TxType
<1>4. \A k \in DOMAIN reads : reads[k].script = <<>>
  <2> SUFFICES ASSUME NEW k \in 1..n  PROVE ReadBack(t.inputs[k], c).script = <<>>
    BY DEF reads
  <2> DEFINE in == t.inputs[k]
  <2>1. in \in Input /\ in.signature # NULL
    BY TxType DEF BitWTransactionIsSigned
  <2>2. DOMAIN in = {"txHash", "index", "address", "amount", "script", "signature", "sequence"}
    BY <2>1 DEF Input
  <2> HIDE DEF in
  <2>3. ReadBack(in, c).script = <<>>
    BY <2>2 DEF ReadBack
  <2> QED
    BY <2>3 DEF in
<1>5. SubSeq(b, 1, Len(b)) = b
  BY <1>2
<1> HIDE DEF b, n, m, reads
<1>6. BitWTransactionParse(b, c) =
        Parsed(b, [off |-> o, all |-> reads], [off |-> e, all |-> t.outputs])
  <2> DEFINE ins == [off |-> o, all |-> reads]
             inCount == [value |-> n, len |-> BitWVarIntSize(n)]
             outCount == [value |-> m, len |-> BitWVarIntSize(m)]
  <2>1. BitWTransactionParse(b, c) = ParseFromInputs(b, c, inCount)
    BY <1>1 DEF BitWTransactionParse
  <2>2. ParseFromInputs(b, c, inCount) = ParseBehindInputs(b, c, ins)
    BY <1>1, <1>3 DEF ParseFromInputs
  <2>3. ParseBehindInputs(b, c, ins) = ParseFromOutputs(b, c, ins, outCount)
    BY <1>1 DEF ParseBehindInputs
  <2>4. ParseFromOutputs(b, c, ins, outCount) = Parsed(b, ins, [off |-> e, all |-> t.outputs])
    BY <1>1 DEF ParseFromOutputs
  <2> QED
    BY <2>1, <2>2, <2>3, <2>4
<1>7. Parsed(b, [off |-> o, all |-> reads], [off |-> e, all |-> t.outputs]) = <<back>>
  <2> DEFINE was == [txHash |-> Zeros(HASH), version |-> t.version, inputs |-> reads,
                     outputs |-> t.outputs, lockTime |-> t.lockTime]
  <2>1. [was EXCEPT !.txHash = Sha256d(b)] = back
    OBVIOUS
  <2>2. ~(e + W32 > Len(b))
    BY <1>1, <1>2
  <2>3. SubSeq(b, 1, e + W32) = b
    BY <1>1, <1>5
  <2> HIDE DEF back
  <2> QED
    BY <1>1, <1>4, <2>1, <2>2, <2>3 DEF Parsed
<1>8. [t EXCEPT !.inputs = [k \in DOMAIN @ |-> ReadBack(@[k], c)]] = back
  <2>1. t = [txHash |-> t.txHash, version |-> t.version, inputs |-> t.inputs,
             outputs |-> t.outputs, lockTime |-> t.lockTime]
    BY DEF Countable, Tx
  <2>2. [k \in DOMAIN t.inputs |-> ReadBack(t.inputs[k], c)] = reads
    BY TxType DEF reads, n
  <2>3. t.txHash = Sha256d(b)
    BY DEF b
  <2>4. [t EXCEPT !.inputs = reads] =
          [txHash |-> t.txHash, version |-> t.version, inputs |-> reads,
           outputs |-> t.outputs, lockTime |-> t.lockTime]
    BY <2>1
  <2> QED
    BY <2>2, <2>3, <2>4
<1> QED
  BY <1>6, <1>7, <1>8 DEF b

(* BitWTransactionParse reads a signed transaction back as it was, with    *)
(* its hash, except for what is not written: the scripts and the amounts   *)
(* of what it spends.                                                      *)
THEOREM AlwaysReadBack ==
  ASSUME PrimitivesFit
  PROVE  Spec => []RoundTrip
<1>1. IInv => RoundTrip
  <2> SUFFICES ASSUME IInv, phase = "signed", BitWTransactionIsSigned(tx)
               PROVE  BitWTransactionParse(BitWTransactionSerialize(tx), coin) =
                        <<[tx EXCEPT !.inputs = [n \in DOMAIN @ |->
                             [@[n] EXCEPT !.script = <<>>, !.amount = 0, !.address =
                                BitWAddressFromScriptSig(tx.inputs[n].signature[1], coin)]]]>>
    BY DEF RoundTrip
  <2>1. BitWTransactionSerialize(tx) = Written(tx)
    BY SerialisedIs DEF BitWTransactionSerialize, IInv, Fits
  <2>2. BitWTransactionParse(Written(tx), coin) =
          <<[tx EXCEPT !.inputs = [n \in DOMAIN @ |-> ReadBack(@[n], coin)]]>>
    BY WrittenRead DEF IInv, Fits
  <2> QED
    BY <2>1, <2>2 DEF ReadBack
<1> QED
  BY <1>1, SigningInvariance, PTL

-----------------------------------------------------------------------------
(* What was cut off is noticed: on a prefix every offset is the one it was *)
(* or behind the end.                                                      *)

LEMMA CutAt ==
  ASSUME NEW b \in Seq(Byte), NEW n \in 0..Len(b), NEW off \in Nat, NEW w \in Nat
  PROVE  LET x == SubSeq(b, 1, n)
         IN /\ x \in Seq(Byte) /\ Len(x) = n
            /\ off + w <= n => At(x, off, w) = At(b, off, w) /\ GetLE(x, off, w) = GetLE(b, off, w)
<1> DEFINE x == SubSeq(b, 1, n)
<1>1. x \in Seq(Byte) /\ Len(x) = n /\ \A k \in 1..n : x[k] = b[k]
  OBVIOUS
<1> HIDE DEF x
<1>2. ASSUME off + w <= n  PROVE At(x, off, w) = At(b, off, w)
  <2> DEFINE p == SubSeq(x, off + 1, off + w)
             q == SubSeq(b, off + 1, off + w)
  <2>1. off + w <= Len(x) /\ off + w <= Len(b)
    BY <1>1, <1>2
  <2>2. At(x, off, w) = p /\ At(b, off, w) = q
    BY <2>1 DEF At
  <2>3. p \in Seq(Byte) /\ Len(p) = w /\ \A k \in 1..w : p[k] = x[off + k]
    <3>1. p = [k \in 1..w |-> x[off + k]]
      BY <1>1, <2>1
    <3>2. \A k \in 1..w : x[off + k] \in Byte
      BY <1>1, <2>1
    <3> QED
      BY <3>1, <3>2
  <2>4. q \in Seq(Byte) /\ Len(q) = w /\ \A k \in 1..w : q[k] = b[off + k]
    <3>1. q = [k \in 1..w |-> b[off + k]]
      BY <2>1
    <3>2. \A k \in 1..w : b[off + k] \in Byte
      BY <2>1
    <3> QED
      BY <3>1, <3>2
  <2>5. \A k \in 1..w : x[off + k] = b[off + k]
    BY <1>1, <1>2
  <2> HIDE DEF p, q
  <2>6. p = q
    <3>1. \A k \in 1..w : p[k] = q[k]
      BY <2>3, <2>4, <2>5
    <3> QED
      BY <2>3, <2>4, <3>1
  <2> QED
    BY <2>2, <2>6
<1> QED
  BY <1>1, <1>2 DEF GetLE, x

LEMMA CutVarInt ==
  ASSUME NEW b \in Seq(Byte), NEW n \in 0..Len(b), NEW off \in Nat
  PROVE  LET x == SubSeq(b, 1, n)
         IN BitWVarInt(x, off) = BitWVarInt(b, off) \/ off + BitWVarInt(x, off).len > n
<1> DEFINE x == SubSeq(b, 1, n)
           h == GetLE(x, off, 1)
           w == VarIntWidth(h)
           v == BitWVarInt(x, off)
<1>1. v = VarIntBehind(h, x, off + 1) /\ v.len = 1 + w
  BY DEF BitWVarInt, VarIntBehind
<1>2. w \in Nat
  BY Widths DEF VarIntWidth
<1>3. off + 1 \in Nat /\ 1 \in Nat
  OBVIOUS
<1>4. off + 1 <= n => h = GetLE(b, off, 1)
  BY <1>3, CutAt
<1>5. (off + 1) + w <= n => GetLE(x, off + 1, w) = GetLE(b, off + 1, w)
  <2> HIDE DEF w
  <2> QED
    BY <1>2, <1>3, CutAt
<1> HIDE DEF x, h, w, v
<1>6. CASE (off + 1) + w <= n
  <2>1. h = GetLE(b, off, 1)
    BY <1>2, <1>4, <1>6
  <2>2. v = [value |-> IF w = 0 THEN h ELSE GetLE(b, off + 1, w), len |-> 1 + w]
    BY <1>1, <1>5, <1>6 DEF VarIntBehind, w
  <2>3. BitWVarInt(b, off) = [value |-> IF w = 0 THEN h ELSE GetLE(b, off + 1, w), len |-> 1 + w]
    BY <2>1 DEF BitWVarInt, VarIntBehind, w
  <2> QED
    BY <2>2, <2>3 DEF v, x
<1>7. CASE ~((off + 1) + w <= n)
  <2>1. off + v.len > n
    BY <1>1, <1>2, <1>7
  <2> QED
    BY <2>1 DEF v, x
<1> QED
  BY <1>6, <1>7

LEMMA CutScript ==
  ASSUME NEW b \in Seq(Byte), NEW n \in 0..Len(b), NEW off \in Nat
  PROVE  LET x == SubSeq(b, 1, n)
         IN ScriptAt(x, off).end = ScriptAt(b, off).end \/ ScriptAt(x, off).end > n
<1> DEFINE x == SubSeq(b, 1, n)
           v == BitWVarInt(x, off)
<1>1. x \in Seq(Byte)
  OBVIOUS
<1> HIDE DEF x
<1>2. v.value \in Nat /\ v.len \in Nat
  BY <1>1, VarIntType
<1>3. /\ ScriptAt(x, off).end = off + v.len + v.value
      /\ ScriptAt(b, off).end = off + BitWVarInt(b, off).len + BitWVarInt(b, off).value
  BY DEF ScriptAt, ScriptOf, ScriptBehind
<1>4. v = BitWVarInt(b, off) \/ off + v.len > n
  BY CutVarInt DEF x
<1> HIDE DEF v
<1>5. off + v.len > n => off + v.len + v.value > n
  BY <1>2
<1> QED
  BY <1>3, <1>4, <1>5 DEF x

LEMMA CutInput ==
  ASSUME NEW b \in Seq(Byte), NEW n \in 0..Len(b), NEW off \in Nat
  PROVE  LET x == SubSeq(b, 1, n)
         IN NextInput(x, off) = NextInput(b, off) \/ NextInput(x, off) > n
<1> DEFINE x == SubSeq(b, 1, n)
<1>1. x \in Seq(Byte) /\ Len(x) = n
  OBVIOUS
<1>2. off + HASH + W32 \in Nat /\ W32 \in Nat
  BY Widths
<1>3. InputScript(x, off).end = InputScript(b, off).end \/ InputScript(x, off).end > n
  BY <1>2, CutScript DEF InputScript
<1> HIDE DEF x
<1>4. InputScript(x, off).end \in Nat
  BY <1>1, <1>2, ScriptAtType DEF InputScript
<1>5. CASE off > n
  BY <1>1, <1>5 DEF NextInput, x
<1>6. CASE off <= n
  <2>1. ~(off > Len(x)) /\ ~(off > Len(b))
    BY <1>1, <1>6
  <2>2. NextInput(x, off) = InputScript(x, off).end + W32
        /\ NextInput(b, off) = InputScript(b, off).end + W32
    BY <2>1 DEF NextInput
  <2> QED
    BY <1>2, <1>3, <1>4, <2>2 DEF x
<1> QED
  BY <1>5, <1>6

LEMMA CutOutput ==
  ASSUME NEW b \in Seq(Byte), NEW n \in 0..Len(b), NEW off \in Nat
  PROVE  LET x == SubSeq(b, 1, n)
         IN NextOutput(x, off) = NextOutput(b, off) \/ NextOutput(x, off) > n
<1> DEFINE x == SubSeq(b, 1, n)
<1>1. x \in Seq(Byte) /\ Len(x) = n
  OBVIOUS
<1>2. off + W64 \in Nat
  BY Widths
<1>3. OutputScript(x, off).end = OutputScript(b, off).end \/ OutputScript(x, off).end > n
  BY <1>2, CutScript DEF OutputScript
<1> HIDE DEF x
<1>4. CASE off > n
  BY <1>1, <1>4 DEF NextOutput, x
<1>5. CASE off <= n
  <2>1. ~(off > Len(x)) /\ ~(off > Len(b))
    BY <1>1, <1>5
  <2>2. NextOutput(x, off) = OutputScript(x, off).end
        /\ NextOutput(b, off) = OutputScript(b, off).end
    BY <2>1 DEF NextOutput
  <2> QED
    BY <1>3, <2>2 DEF x
<1> QED
  BY <1>4, <1>5

LEMMA CutInputs ==
  ASSUME NEW b \in Seq(Byte), NEW n \in 0..Len(b), NEW c, NEW off \in Nat, off > 0, NEW count \in Nat
  PROVE  LET x == SubSeq(b, 1, n)
             end == ParseInputs(x, c, off, count).off
         IN end \in Nat /\ (end = ParseInputs(b, c, off, count).off \/ end > n)
<1> DEFINE x == SubSeq(b, 1, n)
           m == Min2(count, n)
           was == InputOffsets(b, off, m)
           at == InputOffsets(x, off, m)
           S == {k \in 0..m : at[k] = was[k] \/ at[k] > n}
<1>1. x \in Seq(Byte) /\ Len(x) = n /\ n \in Nat /\ Len(b) \in Nat /\ n <= Len(b)
  OBVIOUS
<1>2. m \in Nat /\ m \in 0..m
  BY <1>1 DEF Min2
<1>3. ParseInputs(x, c, off, count).off = at[m]
  BY <1>1 DEF ParseInputs
<1> HIDE DEF m, x
<1>4. at[0] = off /\ (\A k \in 1..m : at[k] = NextInput(x, at[k - 1])) /\ \A k \in 0..m : at[k] \in Nat
  BY <1>1, <1>2, InputOffsetsFacts
<1>5. was[0] = off /\ (\A k \in 1..m : was[k] = NextInput(b, was[k - 1])) /\ \A k \in 0..m : was[k] \in Nat
  BY <1>1, <1>2, InputOffsetsFacts
<1>6. \A k \in 0..m : at[k] > n \/ at[k] >= off + k
  BY <1>1, <1>2, InputsPassed
<1> HIDE DEF at, was
<1>7. CASE count <= n
  <2>1. m = count /\ Min2(count, Len(b)) = count
    BY <1>1, <1>7 DEF Min2, m
  <2>2. ParseInputs(b, c, off, count).off = was[m]
    BY <2>1 DEF ParseInputs, was
  <2>3. 0 \in S
    BY <1>2, <1>4, <1>5
  <2>4. ASSUME NEW k \in 1..m, k - 1 \in S  PROVE k \in S
    <3>1. k - 1 \in 0..m /\ k \in 0..m /\ (at[k - 1] = was[k - 1] \/ at[k - 1] > n)
      BY <1>2, <2>4
    <3> DEFINE s == at[k - 1]
    <3>2. s \in Nat /\ at[k] = NextInput(x, s)
      BY <1>4, <3>1
    <3>3. was[k] = NextInput(b, was[k - 1])
      BY <1>5
    <3> HIDE DEF s
    <3>4. CASE s > n
      <4>1. at[k] = s
        BY <1>1, <3>2, <3>4 DEF NextInput
      <4> QED
        BY <3>1, <3>4, <4>1
    <3>5. CASE s = was[k - 1]
      <4>1. was[k] = NextInput(b, s)
        BY <3>3, <3>5
      <4>2. at[k] = was[k] \/ at[k] > n
        BY <1>1, <3>2, <4>1, CutInput DEF x
      <4> QED
        BY <3>1, <4>2
    <3> QED
      BY <3>1, <3>4, <3>5 DEF s
  <2>5. \A k \in 0..m : k \in S
    <3> HIDE DEF S
    <3> QED
      BY <1>2, <2>3, <2>4, AllUpTo
  <2>6. at[m] = was[m] \/ at[m] > n
    BY <1>2, <2>5
  <2>7. at[m] \in Nat
    BY <1>2, <1>4
  <2> QED
    BY <1>3, <2>2, <2>6, <2>7 DEF x
<1>8. CASE count > n
  <2>1. m = n
    BY <1>1, <1>8 DEF Min2, m
  <2>2. at[m] \in Nat /\ (at[m] > n \/ at[m] >= off + m)
    BY <1>2, <1>4, <1>6
  <2>3. at[m] > n
    BY <1>1, <2>1, <2>2
  <2> QED
    BY <1>3, <2>2, <2>3 DEF x
<1> QED
  BY <1>1, <1>7, <1>8

LEMMA CutOutputs ==
  ASSUME NEW b \in Seq(Byte), NEW n \in 0..Len(b), NEW c, NEW off \in Nat, off > 0, NEW count \in Nat
  PROVE  LET x == SubSeq(b, 1, n)
             end == ParseOutputs(x, c, off, count).off
         IN /\ end \in Nat /\ (end = ParseOutputs(b, c, off, count).off \/ end > n)
            /\ off > n => end > n
<1> DEFINE x == SubSeq(b, 1, n)
           m == Min2(count, n)
           was == OutputOffsets(b, off, m)
           at == OutputOffsets(x, off, m)
           S == {k \in 0..m : at[k] = was[k] \/ at[k] > n}
<1>1. x \in Seq(Byte) /\ Len(x) = n /\ n \in Nat /\ Len(b) \in Nat /\ n <= Len(b)
  OBVIOUS
<1>2. m \in Nat /\ m \in 0..m
  BY <1>1 DEF Min2
<1>3. ParseOutputs(x, c, off, count).off = at[m]
  BY <1>1 DEF ParseOutputs
<1> HIDE DEF m, x
<1>4. at[0] = off /\ (\A k \in 1..m : at[k] = NextOutput(x, at[k - 1])) /\ \A k \in 0..m : at[k] \in Nat
  BY <1>1, <1>2, OutputOffsetsFacts
<1>5. was[0] = off /\ (\A k \in 1..m : was[k] = NextOutput(b, was[k - 1])) /\ \A k \in 0..m : was[k] \in Nat
  BY <1>1, <1>2, OutputOffsetsFacts
<1>6. \A k \in 0..m : at[k] > n \/ at[k] >= off + k
  BY <1>1, <1>2, OutputsPassed
<1> HIDE DEF at, was
<1>7. off > n => at[m] > n
  <2>1. at[m] \in Nat /\ (at[m] > n \/ at[m] >= off + m)
    BY <1>2, <1>4, <1>6
  <2> QED
    BY <1>1, <1>2, <2>1
<1>8. CASE count <= n
  <2>1. m = count /\ Min2(count, Len(b)) = count
    BY <1>1, <1>8 DEF Min2, m
  <2>2. ParseOutputs(b, c, off, count).off = was[m]
    BY <2>1 DEF ParseOutputs, was
  <2>3. 0 \in S
    BY <1>2, <1>4, <1>5
  <2>4. ASSUME NEW k \in 1..m, k - 1 \in S  PROVE k \in S
    <3>1. k - 1 \in 0..m /\ k \in 0..m /\ (at[k - 1] = was[k - 1] \/ at[k - 1] > n)
      BY <1>2, <2>4
    <3> DEFINE s == at[k - 1]
    <3>2. s \in Nat /\ at[k] = NextOutput(x, s)
      BY <1>4, <3>1
    <3>3. was[k] = NextOutput(b, was[k - 1])
      BY <1>5
    <3> HIDE DEF s
    <3>4. CASE s > n
      <4>1. at[k] = s
        BY <1>1, <3>2, <3>4 DEF NextOutput
      <4> QED
        BY <3>1, <3>4, <4>1
    <3>5. CASE s = was[k - 1]
      <4>1. was[k] = NextOutput(b, s)
        BY <3>3, <3>5
      <4>2. at[k] = was[k] \/ at[k] > n
        BY <1>1, <3>2, <4>1, CutOutput DEF x
      <4> QED
        BY <3>1, <4>2
    <3> QED
      BY <3>1, <3>4, <3>5 DEF s
  <2>5. \A k \in 0..m : k \in S
    <3> HIDE DEF S
    <3> QED
      BY <1>2, <2>3, <2>4, AllUpTo
  <2>6. at[m] = was[m] \/ at[m] > n
    BY <1>2, <2>5
  <2>7. at[m] \in Nat
    BY <1>2, <1>4
  <2> QED
    BY <1>3, <1>7, <2>2, <2>6, <2>7 DEF x
<1>9. CASE count > n
  <2>1. m = n
    BY <1>1, <1>9 DEF Min2, m
  <2>2. at[m] \in Nat /\ (at[m] > n \/ at[m] >= off + m)
    BY <1>2, <1>4, <1>6
  <2>3. at[m] > n
    BY <1>1, <2>1, <2>2
  <2> QED
    BY <1>3, <2>2, <2>3 DEF x
<1> QED
  BY <1>1, <1>8, <1>9

(* The end of what is read of a prefix, step by step.                      *)
LEMMA CutRefused ==
  ASSUME PrimitivesFit, NEW t, Countable(t), NEW c \in CoinType, BitWTransactionIsSigned(t),
         SignaturesPayNothing(t, c), OutputsAddressed(t, c),
         NEW n \in 0..(Len(Written(t)) - 1)
  PROVE  BitWTransactionParse(SubSeq(Written(t), 1, n), c) = NULL
<1> DEFINE b == Written(t)
           x == SubSeq(b, 1, n)
           inCount == BitWVarInt(x, W32)
           ins == ParseInputs(x, c, W32 + inCount.len, inCount.value)
           outCount == BitWVarInt(x, ins.off)
           from == ins.off + outCount.len
           outs == ParseOutputs(x, c, from, outCount.value)
<1>1. PICK o \in Nat, e \in Nat :
        /\ ParseInputs(b, c, W32 + BitWVarInt(b, W32).len, BitWVarInt(b, W32).value).off = o
        /\ ParseOutputs(b, c, o + BitWVarInt(b, o).len, BitWVarInt(b, o).value).off = e
        /\ e + W32 = Len(b)
  <2>1. PICK o \in Nat, e \in Nat :
          /\ BitWVarInt(b, W32) = [value |-> Len(t.inputs), len |-> BitWVarIntSize(Len(t.inputs))]
          /\ ParseInputs(b, c, W32 + BitWVarIntSize(Len(t.inputs)), Len(t.inputs)) =
               [off |-> o, all |-> [k \in 1..Len(t.inputs) |-> ReadBack(t.inputs[k], c)]]
          /\ BitWVarInt(b, o) = [value |-> Len(t.outputs), len |-> BitWVarIntSize(Len(t.outputs))]
          /\ ParseOutputs(b, c, o + BitWVarIntSize(Len(t.outputs)), Len(t.outputs)) =
               [off |-> e, all |-> t.outputs]
          /\ e + W32 = Len(b)
    BY WrittenParts
  <2> HIDE DEF b
  <2> QED
    BY <2>1
<1>2. b \in Seq(Byte) /\ W32 \in Nat /\ W32 > 0
  BY WrittenType, WidthAssumption
<1> HIDE DEF b
<1>3. x \in Seq(Byte) /\ Len(x) = n /\ n \in Nat /\ n \in 0..Len(b) /\ n < Len(b)
  BY <1>2 DEF b
<1> HIDE DEF x
<1>4. inCount.value \in Nat /\ inCount.value \in Uint(W64) /\ inCount.len \in Nat /\ inCount.len > 0
  BY <1>2, <1>3, VarIntType
<1>5. inCount = BitWVarInt(b, W32) \/ W32 + inCount.len > n
  BY <1>2, <1>3, CutVarInt DEF x
<1> HIDE DEF inCount
<1>6. W32 + inCount.len \in Nat /\ W32 + inCount.len > 0
  BY <1>2, <1>4
<1>7. ins.off \in Nat /\ (ins.off = o \/ ins.off > n)
  <2>1. CASE inCount = BitWVarInt(b, W32)
    <3> DEFINE at == W32 + inCount.len
               count == inCount.value
    <3>1. ParseInputs(b, c, at, count).off = o
      BY <1>1, <2>1
    <3>2. at \in Nat /\ at > 0 /\ count \in Nat
      BY <1>4, <1>6
    <3> HIDE DEF at, count
    <3>3. LET end == ParseInputs(x, c, at, count).off
          IN end \in Nat /\ (end = ParseInputs(b, c, at, count).off \/ end > n)
      BY <1>2, <1>3, <3>2, CutInputs DEF x
    <3> QED
      BY <3>1, <3>3 DEF at, count
  <2>2. CASE W32 + inCount.len > n
    <3> DEFINE at == W32 + inCount.len
               m == Min2(inCount.value, n)
    <3>1. m \in Nat /\ m \in 0..m
      BY <1>3, <1>4 DEF Min2
    <3>2. ins.off = InputOffsets(x, at, m)[m]
      BY <1>3 DEF ParseInputs
    <3> HIDE DEF m, at, ins
    <3>3. at \in Nat /\ at > n
      BY <1>6, <2>2 DEF at
    <3>4. ins.off \in Nat /\ (ins.off > n \/ ins.off >= at + m)
      BY <1>3, <3>1, <3>2, <3>3, InputsPassed
    <3>5. ins.off > n
      BY <1>3, <3>1, <3>3, <3>4
    <3> QED
      BY <3>4, <3>5 DEF ins
  <2> QED
    BY <1>5, <2>1, <2>2
<1> HIDE DEF ins
<1>8. outCount.value \in Nat /\ outCount.len \in Nat /\ outCount.len > 0
  BY <1>3, <1>7, VarIntType
<1>9. outCount = BitWVarInt(b, ins.off) \/ from > n
  BY <1>2, <1>3, <1>7, CutVarInt DEF x
<1>10. from \in Nat /\ from > 0 /\ from > ins.off
  <2> HIDE DEF outCount
  <2> QED
    BY <1>7, <1>8
<1> HIDE DEF outCount
<1>11. outs.off \in Nat /\ (outs.off = e \/ outs.off > n)
  <2>1. /\ outs.off \in Nat
        /\ outs.off = ParseOutputs(b, c, from, outCount.value).off \/ outs.off > n
        /\ from > n => outs.off > n
    <3> HIDE DEF from
    <3> QED
      BY <1>2, <1>3, <1>8, <1>10, CutOutputs DEF x
  <2> HIDE DEF outs
  <2>2. CASE from > n
    BY <2>1, <2>2
  <2>3. CASE ~(from > n)
    <3>1. ins.off = o
      <4> HIDE DEF from
      <4> QED
        BY <1>3, <1>7, <1>10, <2>3
    <3>2. outCount = BitWVarInt(b, o)
      BY <1>9, <2>3, <3>1
    <3>3. ParseOutputs(b, c, from, outCount.value).off = e
      BY <1>1, <3>1, <3>2
    <3> QED
      BY <2>1, <3>3
  <2> QED
    BY <2>2, <2>3
<1>12. outs.off + W32 > Len(x)
  <2> HIDE DEF outs
  <2> QED
    BY <1>1, <1>2, <1>3, <1>11
<1>13. BitWTransactionParse(x, c) = IF inCount.value = 0 THEN NULL ELSE Parsed(x, ins, outs)
  BY DEF BitWTransactionParse, ParseFromInputs, ParseBehindInputs, ParseFromOutputs,
         inCount, ins, outCount
<1> HIDE DEF outs
<1>14. Parsed(x, ins, outs) = NULL
  BY <1>12 DEF Parsed
<1> QED
  BY <1>13, <1>14 DEF x, b

(* BitWTransactionParse never takes what is left of a signed transaction   *)
(* that was cut off, wherever it was cut, for a transaction.               *)
THEOREM AlwaysRefused ==
  ASSUME PrimitivesFit
  PROVE  Spec => []TruncationRefused
<1>1. IInv => TruncationRefused
  <2> SUFFICES ASSUME IInv, phase = "signed", BitWTransactionIsSigned(tx),
                      NEW n \in 0..(Len(BitWTransactionSerialize(tx)) - 1)
               PROVE  BitWTransactionParse(SubSeq(BitWTransactionSerialize(tx), 1, n), coin) = NULL
    BY DEF TruncationRefused
  <2>1. BitWTransactionSerialize(tx) = Written(tx)
    BY SerialisedIs DEF BitWTransactionSerialize, IInv, Fits
  <2> QED
    BY <2>1, CutRefused DEF IInv, Fits
<1> QED
  BY <1>1, SigningInvariance, PTL

-----------------------------------------------------------------------------
(* Sizes.                                                                  *)

Lengths(seqs) == [k \in 1..Len(seqs) |-> Len(seqs[k])]

LEMMA LengthsType ==
  ASSUME NEW seqs \in Seq(Seq(Byte))
  PROVE  /\ Lengths(seqs) \in Seq(Nat) /\ Lengths(seqs) \in Seq(Int) /\ Len(Lengths(seqs)) = Len(seqs)
         /\ \A k \in 1..Len(seqs) : Lengths(seqs)[k] = Len(seqs[k])
<1>1. \A k \in 1..Len(seqs) : Len(seqs[k]) \in Nat
  <2> SUFFICES ASSUME NEW k \in 1..Len(seqs)  PROVE Len(seqs[k]) \in Nat
    OBVIOUS
  <2>1. seqs[k] \in Seq(Byte)
    OBVIOUS
  <2> QED
    BY <2>1
<1>2. Lengths(seqs) \in [1..Len(seqs) -> Nat]
  BY <1>1 DEF Lengths
<1>3. Len(seqs) \in Nat
  OBVIOUS
<1>4. Lengths(seqs) \in Seq(Nat) /\ Len(Lengths(seqs)) = Len(seqs)
  BY <1>2, <1>3, ListOf
<1>5. Lengths(seqs) \in Seq(Int)
  BY <1>4, SeqWiden
<1>6. \A k \in 1..Len(seqs) : Lengths(seqs)[k] = Len(seqs[k])
  BY DEF Lengths
<1> QED
  BY <1>4, <1>5, <1>6

LEMMA FlattenLength ==
  ASSUME NEW seqs \in Seq(Seq(Byte))
  PROVE  Len(FlattenSeq(seqs)) = Total(Lengths(seqs))
<1> DEFINE n == Len(seqs)
           lens == Lengths(seqs)
           sum == PartialSums(lens)
<1>1. n \in Nat /\ lens \in Seq(Int) /\ Len(lens) = n /\ \A k \in 1..n : lens[k] = Len(seqs[k])
  BY LengthsType
<1>2. PICK f : Accumulates(f, seqs, Byte) /\ FlattenSeq(seqs) = f[n]
  BY FlattenPrefixes
<1>3. f \in [0..n -> Seq(Byte)] /\ f[0] = <<>> /\ \A k \in 1..n : f[k] = f[k - 1] \o seqs[k]
  BY <1>2 DEF Accumulates
<1> HIDE DEF lens
<1>4. sum[0] = 0 /\ \A k \in 1..n : sum[k] = sum[k - 1] + lens[k]
  BY <1>1, PartialSumsDef
<1>5. Total(lens) = sum[n]
  BY <1>1 DEF Total
<1> HIDE DEF sum
<1> DEFINE S == {k \in 0..n : Len(f[k]) = sum[k]}
<1>6. 0 \in S
  BY <1>1, <1>3, <1>4
<1>7. ASSUME NEW k \in 1..n, k - 1 \in S  PROVE k \in S
  <2> DEFINE x == f[k - 1]
             y == seqs[k]
  <2>1. k - 1 \in 0..n /\ k \in 0..n /\ Len(x) = sum[k - 1]
    BY <1>1, <1>7
  <2>2. x \in Seq(Byte) /\ y \in Seq(Byte) /\ f[k] = x \o y /\ lens[k] = Len(y)
    <3>1. x \in Seq(Byte)
      BY <1>3, <2>1
    <3>2. y \in Seq(Byte)
      OBVIOUS
    <3> QED
      BY <1>1, <1>3, <3>1, <3>2
  <2> HIDE DEF x, y
  <2>3. Len(f[k]) = Len(x) + Len(y)
    BY <2>2, Concat
  <2>4. Len(f[k]) = sum[k]
    BY <1>4, <2>1, <2>2, <2>3
  <2> QED
    BY <2>1, <2>4
<1>8. \A k \in 0..n : k \in S
  <2> HIDE DEF S, n
  <2> QED
    BY <1>1, <1>6, <1>7, AllUpTo
<1>9. Len(f[n]) = sum[n]
  BY <1>1, <1>8
<1> QED
  BY <1>2, <1>5, <1>9 DEF lens

LEMMA TotalMono ==
  ASSUME NEW s \in Seq(Nat), NEW t \in Seq(Nat), Len(s) = Len(t), \A k \in 1..Len(s) : s[k] <= t[k]
  PROVE  Total(s) <= Total(t)
<1> DEFINE n == Len(s)
           p == PartialSums(s)
           q == PartialSums(t)
<1>1. n \in Nat /\ Len(t) = n /\ \A k \in 1..n : s[k] \in Nat /\ t[k] \in Nat /\ s[k] <= t[k]
  OBVIOUS
<1>2. s \in Seq(Int) /\ t \in Seq(Int)
  BY SeqWiden
<1>3. p[0] = 0 /\ (\A k \in 1..n : p[k] = p[k - 1] + s[k]) /\ \A k \in 0..n : p[k] \in Nat
  BY <1>2, PartialSumsDef, PartialSumsType
<1>4. q[0] = 0 /\ (\A k \in 1..n : q[k] = q[k - 1] + t[k]) /\ \A k \in 0..n : q[k] \in Nat
  BY <1>1, <1>2, PartialSumsDef, PartialSumsType
<1>5. Total(s) = p[n] /\ Total(t) = q[n]
  BY <1>1 DEF Total
<1> HIDE DEF n, p, q
<1> DEFINE S == {k \in 0..n : p[k] <= q[k]}
<1>6. 0 \in S
  BY <1>1, <1>3, <1>4
<1>7. ASSUME NEW k \in 1..n, k - 1 \in S  PROVE k \in S
  <2>1. k - 1 \in 0..n /\ k \in 0..n /\ p[k - 1] <= q[k - 1]
    BY <1>1, <1>7
  <2>2. p[k] <= q[k]
    BY <1>1, <1>3, <1>4, <2>1
  <2> QED
    BY <2>1, <2>2
<1>8. \A k \in 0..n : k \in S
  <2> HIDE DEF S
  <2> QED
    BY <1>1, <1>6, <1>7, AllUpTo
<1> QED
  BY <1>1, <1>5, <1>8

InputSizes(t) == [n \in 1..Len(t.inputs) |-> SignedInputSize(t.inputs[n])]
OutputSizes(t) == [n \in 1..Len(t.outputs) |-> OutputSize(t.outputs[n])]

LEMMA InputSizeType ==
  ASSUME NEW in \in Input
  PROVE  /\ SignedInputSize(in) \in Nat
         /\ in.signature # NULL => Len(InputWritten(in)) = SignedInputSize(in)
<1>1. CASE in.signature = NULL
  BY <1>1, DataAssumption DEF SignedInputSize
<1>2. CASE in.signature # NULL
  <2> DEFINE s == in.signature[1]
             bare == [in EXCEPT !.amount = 0]
  <2>1. s \in Script /\ bare \in Input /\ bare.amount = 0
    <3>1. s \in Script /\ bare \in Input
      BY <1>2, InputType
    <3>2. bare.amount = 0
      BY DEF Input
    <3> QED
      BY <3>1, <3>2
  <2>2. InputWritten(in) = TxInputData(bare, s)
    BY <1>2 DEF InputWritten
  <2>3. SignedInputSize(in) = HASH + 2 * W32 + BitWVarIntSize(Len(s)) + Len(s)
    BY <1>2 DEF SignedInputSize
  <2> HIDE DEF s, bare
  <2>4. Len(TxInputData(bare, s)) = HASH + 2 * W32 + BitWVarIntSize(Len(s)) + Len(s)
    BY <2>1, InputDataType
  <2>5. HASH + 2 * W32 + BitWVarIntSize(Len(s)) + Len(s) \in Nat
    <3> DEFINE l == Len(s)
               v == BitWVarIntSize(l)
    <3>1. l \in Nat /\ v \in Nat /\ HASH \in Nat /\ W32 \in Nat
      BY <2>1, ScriptLength, Widths
    <3> HIDE DEF l, v
    <3>2. HASH + 2 * W32 + v + l \in Nat
      BY <3>1
    <3> QED
      BY <3>2 DEF l, v
  <2> QED
    BY <2>2, <2>3, <2>4, <2>5
<1> QED
  BY <1>1, <1>2

LEMMA SizesType ==
  ASSUME NEW t, Countable(t)
  PROVE  /\ InputSizes(t) \in Seq(Nat) /\ Len(InputSizes(t)) = Len(t.inputs)
         /\ OutputSizes(t) \in Seq(Nat) /\ Len(OutputSizes(t)) = Len(t.outputs)
         /\ Total(InputSizes(t)) \in Nat /\ Total(OutputSizes(t)) \in Nat
         /\ BitWTransactionSize(t) =
              2 * W32 + BitWVarIntSize(Len(t.inputs)) + BitWVarIntSize(Len(t.outputs))
                + Total(InputSizes(t)) + Total(OutputSizes(t))
<1>1. /\ Len(t.inputs) \in Nat /\ DOMAIN t.inputs = 1..Len(t.inputs)
      /\ Len(t.outputs) \in Nat /\ DOMAIN t.outputs = 1..Len(t.outputs)
      /\ \A n \in 1..Len(t.inputs) : t.inputs[n] \in Input
      /\ \A n \in 1..Len(t.outputs) : t.outputs[n] \in Output
  BY TxType
<1>2. InputSizes(t) \in [1..Len(t.inputs) -> Nat] /\ OutputSizes(t) \in [1..Len(t.outputs) -> Nat]
  BY <1>1, InputSizeType, OutputDataType DEF InputSizes, OutputSizes
<1>3. InputSizes(t) \in Seq(Nat) /\ Len(InputSizes(t)) = Len(t.inputs)
  BY <1>1, <1>2, ListOf
<1>4. OutputSizes(t) \in Seq(Nat) /\ Len(OutputSizes(t)) = Len(t.outputs)
  BY <1>1, <1>2, ListOf
<1>5. InputSizes(t) \in Seq(Int) /\ OutputSizes(t) \in Seq(Int)
  BY <1>3, <1>4, SeqWiden
<1>6. Total(InputSizes(t)) \in Nat /\ Total(OutputSizes(t)) \in Nat
  BY <1>3, <1>4, <1>5, TotalType
<1>7. /\ InputSizes(t) = [n \in DOMAIN t.inputs |-> SignedInputSize(t.inputs[n])]
      /\ OutputSizes(t) = [n \in DOMAIN t.outputs |-> OutputSize(t.outputs[n])]
  BY <1>1 DEF InputSizes, OutputSizes
<1> QED
  BY <1>3, <1>4, <1>6, <1>7 DEF BitWTransactionSize

(* The size of a signed transaction is that of its bytes.                  *)
LEMMA SignedSize ==
  ASSUME NEW t, Countable(t), BitWTransactionIsSigned(t)
  PROVE  BitWTransactionSize(t) = Len(BitWTransactionSerialize(t))
<1> DEFINE n == Len(t.inputs)
           m == Len(t.outputs)
           A == LE(t.version, W32)
           V == BitWVarIntSet(n)
           I == FlattenSeq(InputsWritten(t))
           U == BitWVarIntSet(m)
           O == FlattenSeq(OutputsWritten(t))
           L == LE(t.lockTime, W32)
           p == A \o V
           q == p \o I
           r == U \o O
           x == q \o r
<1>1. BitWTransactionSerialize(t) = x \o L
  BY SerialisedIs DEF BitWTransactionSerialize, Written
<1>2. /\ A \in Seq(Byte) /\ Len(A) = W32 /\ L \in Seq(Byte) /\ Len(L) = W32
      /\ V \in Seq(Byte) /\ U \in Seq(Byte) /\ I \in Seq(Byte) /\ O \in Seq(Byte)
  BY WrittenType
<1>3. Len(V) = BitWVarIntSize(n) /\ Len(U) = BitWVarIntSize(m)
  BY DEF BitWVarIntSize
<1>4. Len(I) = Total(InputSizes(t))
  <2> DEFINE seqs == InputsWritten(t)
  <2>1. seqs \in Seq(Seq(Byte)) /\ Len(seqs) = n
    BY WrittenType
  <2>2. Len(I) = Total(Lengths(seqs))
    BY <2>1, FlattenLength
  <2>3. \A k \in 1..n : Len(seqs[k]) = SignedInputSize(t.inputs[k])
    <3> SUFFICES ASSUME NEW k \in 1..n  PROVE Len(seqs[k]) = SignedInputSize(t.inputs[k])
      OBVIOUS
    <3>1. t.inputs[k] \in Input /\ t.inputs[k].signature # NULL
      BY TxType DEF BitWTransactionIsSigned
    <3>2. seqs[k] = InputWritten(t.inputs[k])
      BY DEF InputsWritten
    <3> HIDE DEF seqs
    <3> QED
      BY <3>1, <3>2, InputSizeType
  <2> HIDE DEF seqs, n
  <2>4. Lengths(seqs) = [k \in 1..n |-> SignedInputSize(t.inputs[k])]
    BY <2>1, <2>3 DEF Lengths
  <2> QED
    BY <2>2, <2>4 DEF InputSizes, n
<1>5. Len(O) = Total(OutputSizes(t))
  <2> DEFINE seqs == OutputsWritten(t)
  <2>1. seqs \in Seq(Seq(Byte)) /\ Len(seqs) = m
    BY WrittenType
  <2>2. Len(O) = Total(Lengths(seqs))
    BY <2>1, FlattenLength
  <2>3. \A k \in 1..m : Len(seqs[k]) = OutputSize(t.outputs[k])
    <3> SUFFICES ASSUME NEW k \in 1..m  PROVE Len(seqs[k]) = OutputSize(t.outputs[k])
      OBVIOUS
    <3>1. t.outputs[k] \in Output
      BY TxType
    <3>2. seqs[k] = OutputData(t.outputs[k])
      BY DEF OutputsWritten
    <3> HIDE DEF seqs
    <3> QED
      BY <3>1, <3>2, OutputDataType
  <2> HIDE DEF seqs, m
  <2>4. Lengths(seqs) = [k \in 1..m |-> OutputSize(t.outputs[k])]
    BY <2>1, <2>3 DEF Lengths
  <2> QED
    BY <2>2, <2>4 DEF OutputSizes, m
<1>6. BitWTransactionSize(t) =
        2 * W32 + BitWVarIntSize(n) + BitWVarIntSize(m) + Total(InputSizes(t)) + Total(OutputSizes(t))
  BY SizesType
<1> HIDE DEF n, m, A, V, I, U, O, L
<1>7. p \in Seq(Byte) /\ Len(p) = Len(A) + Len(V)
  BY <1>2, Concat
<1> HIDE DEF p
<1>8. q \in Seq(Byte) /\ Len(q) = Len(p) + Len(I)
  BY <1>2, <1>7, Concat
<1>9. r \in Seq(Byte) /\ Len(r) = Len(U) + Len(O)
  BY <1>2, Concat
<1> HIDE DEF q, r
<1>10. x \in Seq(Byte) /\ Len(x) = Len(q) + Len(r)
  BY <1>8, <1>9, Concat
<1> HIDE DEF x
<1>11. Len(x \o L) = Len(x) + Len(L)
  BY <1>2, <1>10, Concat
<1>12. Len(x \o L) = BitWTransactionSize(t)
  <2> DEFINE lv == Len(V)
             lu == Len(U)
             li == Len(I)
             lo == Len(O)
             lp == Len(p)
             lq == Len(q)
             lr == Len(r)
             lx == Len(x)
             all == Len(x \o L)
             size == BitWTransactionSize(t)
  <2>1. {lv, lu, li, lo} \subseteq Nat /\ W32 \in Nat
    <3>1. W32 \in Nat
      BY Widths
    <3> QED
      BY <1>2, <3>1
  <2>2. /\ lp = W32 + lv /\ lq = lp + li /\ lr = lu + lo /\ lx = lq + lr /\ all = lx + W32
        /\ size = 2 * W32 + lv + lu + li + lo
    BY <1>2, <1>3, <1>4, <1>5, <1>6, <1>7, <1>8, <1>9, <1>10, <1>11
  <2> HIDE DEF lv, lu, li, lo, lp, lq, lr, lx, all, size
  <2>3. all = size
    BY <2>1, <2>2
  <2> QED
    BY <2>3 DEF all, size
<1> QED
  BY <1>1, <1>12

LEMMA SignedInputFits ==
  ASSUME PrimitivesFit, EstimateFits, NEW t, Countable(t), NEW i \in 1..Len(t.inputs),
         NEW k \in Compressed, NEW forkId \in ForkIds,
         NEW in, in.signature = <<ScriptSig(t, i, k, forkId)>>
  PROVE  SignedInputSize(in) <= TX_INPUT_SIZE
<1> DEFINE s == SignatureOf(t, i, k, forkId + SIGHASH_ALL)
           sig == ScriptSig(t, i, k, forkId)
           md == Sha256d(TransactionData(t, i, forkId + SIGHASH_ALL))
           ls == Len(s)
           lk == Len(PubKey[k])
           l == Len(sig)
           ld == Len(KeySign(k, md))
<1>1. k \in Key
  BY DEF Compressed
<1>2. ls \in Nat /\ ls < OP_PUSHDATA1 /\ md \in Hash
  BY <1>1, SignatureType
<1>3. lk \in Nat /\ lk < OP_PUSHDATA1
  BY <1>1, KeyBytes
<1>4. l \in {2 + ls + lk, 1 + ls}
  BY <1>1, ScriptSigType
<1>5. ld \in Nat /\ ls = ld + 1
  <2>1. KeySign(k, md) \in Seq(Byte)
    BY <1>1, <1>2 DEF PrimitivesFit, SignaturesFit
  <2>2. s = KeySign(k, md) \o <<forkId + SIGHASH_ALL>>
    BY DEF SignatureOf
  <2>3. forkId + SIGHASH_ALL \in Byte
    BY TypeSigned
  <2> DEFINE x == KeySign(k, md)
             h == forkId + SIGHASH_ALL
  <2> HIDE DEF x, h, s
  <2>4. Len(x) \in Nat /\ Len(s) = Len(x) + 1
    BY <2>1, <2>2, <2>3 DEF x, h
  <2> QED
    BY <2>4 DEF x
<1>6. HASH + 2 * W32 + 1 + (1 + ld + 1) + (1 + lk) <= TX_INPUT_SIZE
  BY <1>2 DEF EstimateFits
<1>7. SignedInputSize(in) = HASH + 2 * W32 + BitWVarIntSize(l) + l
  BY DEF SignedInputSize, NULL
<1>8. 2 * OP_PUSHDATA1 < VAR_INT16_HEADER /\ OP_PUSHDATA1 \in Nat /\ VAR_INT16_HEADER \in Nat
  <2>1. OP_PUSHDATA1 \in Byte /\ 2 * OP_PUSHDATA1 < VAR_INT16_HEADER
    BY Opcodes
  <2>2. VAR_INT16_HEADER \in Nat
    BY BitsFacts DEF VAR_INT16_HEADER
  <2> QED
    BY <2>1, <2>2, Widths
<1>9. HASH \in Nat /\ W32 \in Nat /\ TX_INPUT_SIZE \in Nat
  BY Widths, DataAssumption
<1> HIDE DEF ls, lk, l, ld, md
<1>10. l \in Nat /\ l <= 2 + ls + lk /\ l < VAR_INT16_HEADER
  BY <1>2, <1>3, <1>4, <1>8
<1>11. BitWVarIntSize(l) = 1
  <2>1. Span(W16) \in Nat /\ VAR_INT16_HEADER < Span(W16)
    <3>1. Span(1) = BYTE /\ Span(W16) \in Nat /\ 2 * Span(1) <= Span(W16)
      BY SpanStep, SpanMonotone, WidthAssumption, Widths
    <3> HIDE DEF Span
    <3> QED
      BY <3>1, BitsFacts DEF VAR_INT16_HEADER
  <2>2. /\ l < VAR_INT16_HEADER /\ ~(l >= VAR_INT16_HEADER) /\ ~(l >= Span(W16))
    BY <1>8, <1>10, <2>1
  <2>3. BitWVarIntSet(l) = <<l>>
    BY <2>2, Zenon DEF BitWVarIntSet
  <2> QED
    BY <2>3 DEF BitWVarIntSize
<1>12. HASH + 2 * W32 + 1 + l <= TX_INPUT_SIZE
  BY <1>3, <1>5, <1>6, <1>9, <1>10
<1> QED
  BY <1>7, <1>11, <1>12

LEMMA EstimateCovers ==
  ASSUME PrimitivesFit, EstimateFits, NEW t, Countable(t), NoneSigned(t), NEW c \in CoinType,
         NEW forkId \in ForkIds,
         BitWTransactionIsSigned(BitWTransactionSign(t, Compressed, forkId, c))
  PROVE  Len(BitWTransactionSerialize(BitWTransactionSign(t, Compressed, forkId, c)))
           <= BitWTransactionSize(t)
<1> DEFINE r == BitWTransactionSign(t, Compressed, forkId, c)
           n == Len(t.inputs)
<1>1. Compressed \in SUBSET Key
  BY DEF Compressed
<1>2. /\ Countable(r) /\ r.outputs = t.outputs /\ Len(r.inputs) = n
      /\ \A i \in 1..n : r.inputs[i] =
           IF Signs(t, i, Compressed, c)
           THEN BitWTxInputSetSignature(t.inputs[i],
                  ScriptSig(t, i, SignerOf(t, i, Compressed, c), forkId), c)
           ELSE t.inputs[i]
  BY <1>1, SignFacts
<1>3. BitWTransactionIsSigned(r) /\ DOMAIN r.inputs = 1..n
  BY <1>2, TxType
<1> HIDE DEF r
<1>4. ASSUME NEW i \in 1..n  PROVE SignedInputSize(r.inputs[i]) <= SignedInputSize(t.inputs[i])
  <2>1. t.inputs[i].signature = NULL /\ t.inputs[i] \in Input /\ r.inputs[i].signature # NULL
    BY <1>3, TxType DEF NoneSigned, BitWTransactionIsSigned
  <2>2. SignedInputSize(t.inputs[i]) = TX_INPUT_SIZE
    BY <2>1 DEF SignedInputSize
  <2>3. Signs(t, i, Compressed, c)
    BY <1>2, <2>1
  <2> DEFINE k == SignerOf(t, i, Compressed, c)
             sig == ScriptSig(t, i, k, forkId)
  <2>4. k \in Compressed
    BY <2>3 DEF Signs, SignerOf, KeysOf
  <2>5. k \in Key
    BY <1>1, <2>4
  <2> HIDE DEF k
  <2>6. sig \in Script
    BY <2>5, ScriptSigType
  <2>7. r.inputs[i] = BitWTxInputSetSignature(t.inputs[i], sig, c)
    BY <1>2, <2>3 DEF k
  <2> HIDE DEF sig
  <2>8. r.inputs[i].signature = <<sig>>
    BY <2>1, <2>6, <2>7, NewSignature
  <2>9. SignedInputSize(r.inputs[i]) <= TX_INPUT_SIZE
    BY <2>4, <2>8, SignedInputFits DEF sig
  <2> QED
    BY <2>2, <2>9
<1>5. Total(InputSizes(r)) <= Total(InputSizes(t))
  <2> DEFINE s == InputSizes(r)
             u == InputSizes(t)
  <2>1. s \in Seq(Nat) /\ Len(s) = n /\ u \in Seq(Nat) /\ Len(u) = n
    BY <1>2, SizesType
  <2>2. \A i \in 1..n : s[i] <= u[i]
    BY <1>2, <1>4 DEF InputSizes
  <2> HIDE DEF s, u, n
  <2>3. Total(s) <= Total(u)
    BY <2>1, <2>2, TotalMono
  <2> QED
    BY <2>3 DEF s, u
<1>6. OutputSizes(r) = OutputSizes(t)
  BY <1>2 DEF OutputSizes
<1>7. Len(BitWTransactionSerialize(r)) = BitWTransactionSize(r)
  BY <1>2, <1>3, SignedSize
<1> DEFINE fixed == 2 * W32 + BitWVarIntSize(Len(t.inputs)) + BitWVarIntSize(Len(t.outputs))
           a == Total(InputSizes(r))
           b == Total(InputSizes(t))
           d == Total(OutputSizes(t))
<1>8. fixed \in Nat /\ a \in Nat /\ b \in Nat /\ d \in Nat
  <2>1. a \in Nat /\ b \in Nat /\ d \in Nat
    BY <1>2, SizesType
  <2>2. BitWVarIntSize(Len(t.inputs)) \in Nat /\ BitWVarIntSize(Len(t.outputs)) \in Nat
    BY TxType, VarIntBytes
  <2>3. W32 \in Nat
    BY Widths
  <2> QED
    BY <2>1, <2>2, <2>3
<1>9. BitWTransactionSize(t) = fixed + b + d
  BY SizesType
<1>10. BitWTransactionSize(r) = fixed + a + d
  BY <1>2, <1>6, SizesType
<1> HIDE DEF fixed, a, b, d
<1>11. a <= b
  BY <1>5 DEF a, b
<1>12. fixed + a + d <= fixed + b + d
  BY <1>8, <1>11
<1> QED
  BY <1>7, <1>9, <1>10, <1>12 DEF r

(* BitWTransactionSize is the number of bytes of a signed transaction, and *)
(* the estimate for one to be signed, from which the fee is computed, is   *)
(* never below what it takes with compressed keys.                         *)
THEOREM SizeAlwaysRight ==
  ASSUME PrimitivesFit, EstimateFits
  PROVE  Spec => []SizeRight
<1>1. IInv => SizeRight
  <2> SUFFICES ASSUME IInv  PROVE SizeRight
    OBVIOUS
  <2>1. Countable(tx) /\ coin \in CoinType /\ (phase = "build" => NoneSigned(tx))
    BY DEF IInv, Fits
  <2>2. BitWTransactionIsSigned(tx) => BitWTransactionSize(tx) = Len(BitWTransactionSerialize(tx))
    BY <2>1, SignedSize
  <2>3. ASSUME phase = "build", NEW forkId \in ForkIds,
               BitWTransactionIsSigned(BitWTransactionSign(tx, Compressed, forkId, coin))
        PROVE  Len(BitWTransactionSerialize(BitWTransactionSign(tx, Compressed, forkId, coin)))
                 <= BitWTransactionSize(tx)
    BY <2>1, <2>3, EstimateCovers
  <2> QED
    BY <2>2, <2>3 DEF SizeRight
<1> QED
  BY <1>1, SigningInvariance, PTL
=============================================================================
