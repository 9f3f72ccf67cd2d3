-------------------------- MODULE PaymentProtocol --------------------------
(***************************************************************************)
(* BitWPaymentProtocol.c: the messages of BIP70 and BIP75.  A message is   *)
(* written by another implementation, field by field, or created here; it  *)
(* is parsed, serialised and passed on, signed and verified, encrypted and *)
(* decrypted.                                                              *)
(***************************************************************************)
EXTENDS Bytes, FiniteSets

CONSTANTS
  Fields,           \* Fields[t]: the fields a peer may write into a message
  MaxFields,        \* at most that many
  MaxAdded,         \* and so many into one that is passed on
  MaxHops,          \* how often a message is serialised and parsed again
  Created,          \* Created[t]: the messages of type t made by a New call
  TxParse(_),       \* BitWTransactionParse and Serialize: <<>> or <<bytes>>
  IsPubKey(_),      \* secp256k1_ec_pubkey_parse
  Sha256(_), Sha1(_), X509_SHA256, X509_SHA1,
  Letters,          \* the encrypted messages that are made, by their parts
  Key, PubKey,      \* PubKey[k]: the bytes of k's public key
  PointMul(_, _),   \* BitWSecp256k1PointMul, of a compressed key and k
  KeySign(_, _), KeyVerify(_, _, _),
  Derive(_, _),     \* the cipher's key and iv of a secret and a nonce
  AEADEncrypt(_, _, _), AEADDecrypt(_, _, _), TAG

VARIABLES
  type,   \* the type of message
  wire,   \* the bytes that were sent
  log,    \* the fields a peer has written into them
  msg,    \* the parsed or created message
  sent,   \* the message that was serialised last
  hops

vars == <<type, wire, log, msg, sent, hops>>

(***************************************************************************)
(* The wire format.  A length-delimited field that is cut off has the data *)
(* <<>>, another one <<its bytes>>.                                        *)
(***************************************************************************)
PROTOBUF_VARINT == 0
PROTOBUF_64BIT == 1
PROTOBUF_LENDELIM == 2
PROTOBUF_32BIT == 5

VARINT_MORE == BYTE \div 2  \* the bit that says that more bytes follow

VarSpan(n) == 2^((BITS - 1) * n)  \* the numbers of n bytes that say so

ProtoBufVarInt(buf, off) ==
  LET ends == {k \in (off + 1)..Len(buf) : buf[k] < VARINT_MORE}
      last == CHOOSE k \in ends : \A j \in ends : k <= j
  IN IF ends = {} THEN [value |-> 0, off |-> IF off < Len(buf) THEN Len(buf) ELSE off]
     ELSE [value |-> Total([k \in 1..(last - off) |->
                              (buf[off + k] % VARINT_MORE) * VarSpan(k - 1)]),
           off |-> last]

(* Mutated form: the bit for more bytes goes by the whole number.          *)
SetVarIntShort(u) ==
  IF u <= VARINT_MORE THEN <<u>>
  ELSE <<VARINT_MORE + (u % VARINT_MORE), u \div VARINT_MORE>>

VarIntLen(u) == CHOOSE n \in 1..(u + 1) : u < VarSpan(n) /\ (n = 1 \/ u >= VarSpan(n - 1))
ProtoBufSetVarInt(u) ==
  [k \in 1..VarIntLen(u) |->
     ((u \div VarSpan(k - 1)) % VARINT_MORE) + (IF k < VarIntLen(u) THEN VARINT_MORE ELSE 0)]

BytesBehind(buf, n) ==
  [data |-> IF n.off + n.value <= Len(buf)
            THEN <<SubSeq(buf, n.off + 1, n.off + n.value)>> ELSE <<>>,
   off |-> n.off + n.value]
ProtoBufLenDelim(buf, off) == BytesBehind(buf, ProtoBufVarInt(buf, off))
ProtoBufSetLenDelim(data) == ProtoBufSetVarInt(Len(data)) \o data

ProtoBufFixed(buf, off, w) == [value |-> GetLE(buf, off, w), off |-> off + w]
ProtoBufSetFixed(i, w) == LE(i, w)

AField(key, int, data) == [key |-> key, int |-> int, data |-> data]
IntRead(k, n) == [field |-> AField(k.value, n.value, <<>>), off |-> n.off]
BytesRead(k, n) == [field |-> AField(k.value, 0, n.data), off |-> n.off]
FieldBehind(buf, k) ==
  LET wt == k.value % 8 IN
  CASE wt = PROTOBUF_VARINT -> IntRead(k, ProtoBufVarInt(buf, k.off))
    [] wt = PROTOBUF_64BIT -> IntRead(k, ProtoBufFixed(buf, k.off, W64))
    [] wt = PROTOBUF_LENDELIM -> BytesRead(k, ProtoBufLenDelim(buf, k.off))
    [] wt = PROTOBUF_32BIT -> IntRead(k, ProtoBufFixed(buf, k.off, W32))
    [] OTHER -> IntRead(k, [value |-> 0, off |-> k.off])
ProtoBufField(buf, off) == FieldBehind(buf, ProtoBufVarInt(buf, off))

(* The fields of a buffer, one behind the other until it ends.             *)
Further(buf, r) ==
  LET f == ProtoBufField(buf, r.off)
  IN IF r.off < Len(buf) THEN [off |-> f.off, fields |-> Append(r.fields, f.field)] ELSE r
FieldsFrom(buf) ==
  LET read[n \in 0..Len(buf)] ==
        IF n = 0 THEN [off |-> 0, fields |-> <<>>] ELSE Further(buf, read[n - 1])
  IN read[Len(buf)].fields

(* A field as it is written, by a peer or here.                            *)
FieldBytes(f) ==
  ProtoBufSetVarInt(f.key) \o
    (CASE f.key % 8 = PROTOBUF_VARINT -> ProtoBufSetVarInt(f.int)
       [] f.key % 8 = PROTOBUF_64BIT -> ProtoBufSetFixed(f.int, W64)
       [] f.key % 8 = PROTOBUF_LENDELIM /\ f.data # <<>> ->
            ProtoBufSetLenDelim(f.data[1])
       [] f.key % 8 = PROTOBUF_32BIT -> ProtoBufSetFixed(f.int, W32)
       [] OTHER -> <<>>)
Written(fields) == FlattenSeq([k \in DOMAIN fields |-> FieldBytes(fields[k])])

ProtoBufSetBytes(data, num) == AField(num * 8 + PROTOBUF_LENDELIM, 0, <<data>>)
ProtoBufSetInt(i, num) == AField(num * 8 + PROTOBUF_VARINT, i, <<>>)

(* A string ends with its first zero.                                      *)
ProtoBufString(data) ==
  LET zeros == {k \in DOMAIN data : data[k] = 0}
      first == CHOOSE k \in zeros : \A j \in zeros : k <= j
  IN IF zeros = {} THEN data ELSE SubSeq(data, 1, first - 1)

(* Mutated form: what is kept of an unknown field is its first value.      *)
UnknownFirst(unknown, f) ==
  IF \E j \in DOMAIN unknown : unknown[j].key = f.key THEN unknown
  ELSE Append(unknown, f)

(* The unknown fields are kept sorted, except that one which is larger     *)
(* than all of them is inserted before the last.                           *)
ProtoBufUnknown(unknown, f) ==
  LET n == Len(unknown)
      above == {j \in 1..n : unknown[j].key >= f.key}
      j == IF above # {} THEN CHOOSE k \in above : \A i \in above : k <= i
           ELSE IF n = 0 THEN 1 ELSE n
  IN IF above # {} /\ unknown[j].key = f.key THEN [unknown EXCEPT ![j] = f]
     ELSE InsertAt(unknown, j, f)

(* What a field can be.                                                    *)
Field == [key : Nat, int : Nat, data : Seq(Seq(Byte))]
WellFormed(f) ==
  LET wt == f.key % 8 IN
  /\ f \in Field
  /\ IF wt = PROTOBUF_LENDELIM THEN Len(f.data) = 1 ELSE f.data = <<>>
  /\ wt \notin {PROTOBUF_VARINT, PROTOBUF_64BIT, PROTOBUF_32BIT} => f.int = 0
  /\ wt = PROTOBUF_64BIT => f.int < Span(W64)
  /\ wt = PROTOBUF_32BIT => f.int < Span(W32)
WholeFields(buf) ==
  LET fields == FieldsFrom(buf)
  IN \A k \in DOMAIN fields : WellFormed(fields[k])

COMPRESSED == 2    \* the length of a compressed public key
UNCOMPRESSED == 3  \* and of one in the long form

(***************************************************************************)
(* Messages: the values of each known field, as bytes or <<an integer>>,   *)
(* and the unknown fields.  A field that was not given has no value, which *)
(* is what the flag for its default says; a message within a message is    *)
(* kept as the bytes it serialises to.                                     *)
(***************************************************************************)
NULL == [field |-> <<>>, unknown |-> <<>>]
Message(field) == [field |-> field, unknown |-> <<>>]
OneInt(i) == <<<<i>>>>

IsKey(data) == Len(data) \in {COMPRESSED, UNCOMPRESSED} /\ IsPubKey(data)

(* The values of a known field when f was read.  One of another type than  *)
(* is expected counts as the number 0 or as no bytes, and where no bytes   *)
(* were read what there was is kept, but for a script, which is cleared.   *)
Values(kind, values, f) ==
  CASE kind = "int" -> OneInt(f.int)
    [] kind = "uint32" -> OneInt(f.int % Span(W32))
    [] kind = "script" -> f.data
    [] kind = "pubkey" -> IF f.data # <<>> /\ IsKey(f.data[1]) THEN f.data ELSE <<>>
    [] f.data = <<>> /\ kind \in {"bytes", "string", "message", "messages"} -> values
    [] f.data # <<>> /\ kind \in {"bytes", "message"} -> f.data
    [] f.data # <<>> /\ kind = "string" -> <<ProtoBufString(f.data[1])>>
    [] f.data # <<>> /\ kind = "messages" -> values \o f.data
Store(kinds, m, f) ==
  LET num == f.key \div 8
  IN IF num \in DOMAIN kinds
     THEN [m EXCEPT !.field[num] = Values(kinds[num], @, f)]
     ELSE [m EXCEPT !.unknown = ProtoBufUnknown(@, f)]
Stored(kinds, m, fields) ==
  LET upTo[n \in 0..Len(fields)] ==
        IF n = 0 THEN m ELSE Store(kinds, upTo[n - 1], fields[n])
  IN upTo[Len(fields)]

(* The messages within it, which are parsed where they stand, still as the *)
(* bytes they came as.                                                     *)
Blank(kinds) == Message([num \in DOMAIN kinds |-> <<>>])
Read(kinds, buf) == Stored(kinds, Blank(kinds), FieldsFrom(buf))
IfComplete(m, required) ==
  IF \E num \in required : m.field[num] = <<>> THEN NULL ELSE m

FieldOf(kind, num, v) ==
  IF kind \in {"int", "uint32"} THEN ProtoBufSetInt(v[1], num) ELSE ProtoBufSetBytes(v, num)
KnownFields(kinds, m) ==
  FlattenSeq([num \in DOMAIN kinds |->
                [k \in DOMAIN m.field[num] |-> FieldOf(kinds[num], num, m.field[num][k])]])
Serialized(kinds, m) == Written(KnownFields(kinds, m) \o m.unknown)

OutputKinds == <<"int", "script">>
Output(amount, script) == Message(<<OneInt(amount), <<script>>>>)
OutputParse(buf) == IfComplete(Read(OutputKinds, buf), {2})
OutputSerialize(out) == Serialized(OutputKinds, out)

(* An output within a message is not kept if it cannot be parsed, nor is a *)
(* transaction.                                                            *)
OutputWithin(value) ==
  LET out == OutputParse(value) IN IF out = NULL THEN <<>> ELSE <<OutputSerialize(out)>>
OutputsWithin(values) == FlattenSeq([k \in DOMAIN values |-> OutputWithin(values[k])])
TransactionsWithin(values) == FlattenSeq([k \in DOMAIN values |-> TxParse(values[k])])

(* The outputs given to DetailsNew are stored and never counted.           *)
DetailsKinds == <<"string", "messages", "int", "int", "string", "string", "bytes">>
DetailsNew(network, outputs, time, expires, memo, paymentURL, merchantData) ==
  Message(<<network, <<>>, OneInt(time), OneInt(expires), memo, paymentURL,
            merchantData>>)
DetailsParse(buf) == [Read(DetailsKinds, buf) EXCEPT !.field[2] = OutputsWithin(@)]
DetailsSerialize(details) == Serialized(DetailsKinds, details)
DetailsWithin(values) ==
  [k \in DOMAIN values |-> DetailsSerialize(DetailsParse(values[k]))]

RequestKinds == <<"uint32", "string", "bytes", "message", "bytes">>
RequestNew(version, pkiType, pkiData, details, signature) ==
  Message(<<IF version = 0 THEN <<>> ELSE OneInt(version), pkiType, pkiData,
            <<DetailsSerialize(details)>>, signature>>)
RequestParse(buf) ==
  IfComplete([Read(RequestKinds, buf) EXCEPT !.field[4] = DetailsWithin(@)], {4})
RequestSerialize(req) == Serialized(RequestKinds, req)

(* The certificate at an index of the pki data, or none.                   *)
Cert(pkiData, idx) ==
  LET fields == FieldsFrom(pkiData)
      certs == {k \in DOMAIN fields : fields[k].key \div 8 = 1 /\ fields[k].data # <<>>}
      at == {k \in certs : Cardinality({j \in certs : j < k}) = idx}
  IN IF at = {} THEN <<>> ELSE fields[CHOOSE k \in at : TRUE].data[1]
RequestCert(req, idx) ==
  IF req.field[3] = <<>> THEN <<>> ELSE Cert(req.field[3][1], idx)

(* A signature, if there is one, is emptied for what it signs.             *)
Unsigned(m, num) ==
  IF m.field[num] = <<>> THEN m ELSE [m EXCEPT !.field[num] = <<<<>>>>]

(* Mutated form: the signature is part of what it signs.                   *)
DigestWithSignature(req) ==
  IF req.field[2] = <<X509_SHA256>> THEN Sha256(RequestSerialize(req))
  ELSE <<>>

RequestDigest(req) ==
  LET bytes == RequestSerialize(Unsigned(req, 5))
  IN CASE req.field[2] = <<X509_SHA256>> -> Sha256(bytes)
       [] req.field[2] = <<X509_SHA1>> -> Sha1(bytes)
       [] OTHER -> <<>>

PaymentKinds == <<"bytes", "messages", "messages", "string">>
(* refunds[k] is the amount and the script of the address of a refund.     *)
PaymentNew(merchantData, transactions, refunds, memo) ==
  Message(<<merchantData, transactions,
            [k \in DOMAIN refunds |->
               OutputSerialize(Output(refunds[k].amount, refunds[k].script))],
            memo>>)
PaymentParse(buf) ==
  [Read(PaymentKinds, buf) EXCEPT !.field[2] = TransactionsWithin(@),
                                  !.field[3] = OutputsWithin(@)]
PaymentSerialize(payment) == Serialized(PaymentKinds, payment)
PaymentWithin(values) ==
  [k \in DOMAIN values |-> PaymentSerialize(PaymentParse(values[k]))]

ACKKinds == <<"message", "string">>
ACKNew(payment, memo) == Message(<<<<PaymentSerialize(payment)>>, memo>>)
ACKParse(buf) == IfComplete([Read(ACKKinds, buf) EXCEPT !.field[1] = PaymentWithin(@)], {1})
ACKSerialize(ack) == Serialized(ACKKinds, ack)

InvoiceRequestKinds ==
  <<"pubkey", "int", "string", "bytes", "string", "string", "bytes">>
InvoiceRequestNew(sender, amount, pkiType, pkiData, memo, notifyUrl, signature) ==
  Message(<<<<PubKey[sender]>>, OneInt(amount), pkiType, pkiData, memo,
            notifyUrl, signature>>)
InvoiceRequestParse(buf) == IfComplete(Read(InvoiceRequestKinds, buf), {1})
InvoiceRequestSerialize(req) == Serialized(InvoiceRequestKinds, req)
InvoiceRequestCert(req, idx) ==
  IF req.field[4] = <<>> THEN <<>> ELSE Cert(req.field[4][1], idx)
InvoiceRequestDigest(req) ==
  IF req.field[3] = <<X509_SHA256>>
  THEN Sha256(InvoiceRequestSerialize(Unsigned(req, 7))) ELSE <<>>

MessageKinds == <<"uint32", "bytes", "int", "string", "bytes">>
MessageNew(msgType, message, statusCode, statusMsg, identifier) ==
  Message(<<OneInt(msgType), <<message>>, OneInt(statusCode), statusMsg,
            identifier>>)
MessageParse(buf) == IfComplete(Read(MessageKinds, buf), {1, 2})
MessageSerialize(m) == Serialized(MessageKinds, m)

(***************************************************************************)
(* Encrypted messages.                                                     *)
(***************************************************************************)

(* The x coordinate of the shared point; a key in the long form is first   *)
(* compressed, by whether its last byte is odd.                            *)
ECDH(privKey, pubKey) ==
  LET p == IF Len(pubKey) = COMPRESSED THEN pubKey
           ELSE <<IF pubKey[Len(pubKey)] % 2 = 1 THEN 3 ELSE 2, pubKey[2]>>
  IN PointMul(p, privKey)[2]

(* Mutated form: the secret is always shared with the receiver.            *)
CEKWithReceiver(m, privKey) == Derive(ECDH(privKey, m.field[3][1]), m.field[5][1][1])

EncryptedMessageCEK(m, privKey) ==
  LET pubKey == IF PubKey[privKey] # m.field[3][1] THEN m.field[3][1]
                ELSE m.field[4][1]
  IN Derive(ECDH(privKey, pubKey), m.field[5][1][1])

EncryptedMessageKinds == <<"uint32", "bytes", "pubkey", "pubkey", "int", "bytes",
                           "bytes", "int", "string">>
EncryptedMessageParse(buf) == IfComplete(Read(EncryptedMessageKinds, buf), 1..5)
EncryptedMessageSerialize(m) == Serialized(EncryptedMessageKinds, m)

Decimal(n) == IF n < 10 THEN <<n>> ELSE <<n \div 10, n % 10>>
StringOf(option) == IF option = <<>> THEN <<>> ELSE option[1]

(* own is the side, receiver or sender, of which the private key is known; *)
(* the receiver's is used if both are.                                     *)
EncryptedMessageNew(kind, message, receiver, sender, own, nonce, id, code, status) ==
  LET privKey == IF own = "receiver" THEN receiver ELSE sender
      open == Message(<<OneInt(kind), <<<<>>>>, <<PubKey[receiver]>>,
                        <<PubKey[sender]>>, OneInt(nonce), <<<<>>>>, id,
                        OneInt(code), status>>)
      ad == Decimal(code) \o StringOf(status)
      m == [open EXCEPT !.field[2] =
              <<AEADEncrypt(EncryptedMessageCEK(open, privKey), message, ad)>>]
  IN [m EXCEPT !.field[6] =
        <<KeySign(privKey, Sha256(EncryptedMessageSerialize(m)))>>]

EncryptedMessageVerify(m, k) ==
  /\ m.field[6] # <<>>
  /\ KeyVerify(k, Sha256(EncryptedMessageSerialize(Unsigned(m, 6))), m.field[6][1])

(* <<>> if it does not authenticate.  A status code that was not given is  *)
(* left out of what is authenticated.                                      *)
EncryptedMessageDecrypt(m, privKey) ==
  LET code == IF m.field[8] = <<>> THEN <<>> ELSE Decimal(m.field[8][1][1])
  IN AEADDecrypt(EncryptedMessageCEK(m, privKey), m.field[2][1],
                 code \o StringOf(m.field[9]))

(***************************************************************************)
(* Parsing does not return from every field.  A message without bytes or a *)
(* public key without bytes or of another length fails an assertion, and   *)
(* the loop over an output without bytes never gets any further.           *)
(***************************************************************************)
FieldReturns(kinds, f) ==
  f.key \div 8 \in DOMAIN kinds =>
    LET kind == kinds[f.key \div 8]
    IN /\ kind \in {"message", "messages", "pubkey"} => f.data # <<>>
       /\ kind = "pubkey" => Len(f.data[1]) \in {COMPRESSED, UNCOMPRESSED}
FieldsReturn(kinds, buf) ==
  LET fields == FieldsFrom(buf)
  IN \A k \in DOMAIN fields : FieldReturns(kinds, fields[k])

-----------------------------------------------------------------------------
Types == {"output", "details", "request", "payment", "ack", "invoice",
          "message", "encrypted"}

KindsOf(t) ==
  CASE t = "output" -> OutputKinds [] t = "details" -> DetailsKinds
    [] t = "request" -> RequestKinds [] t = "payment" -> PaymentKinds
    [] t = "ack" -> ACKKinds [] t = "invoice" -> InvoiceRequestKinds
    [] t = "message" -> MessageKinds [] t = "encrypted" -> EncryptedMessageKinds
ParseOf(t, buf) ==
  CASE t = "output" -> OutputParse(buf) [] t = "details" -> DetailsParse(buf)
    [] t = "request" -> RequestParse(buf) [] t = "payment" -> PaymentParse(buf)
    [] t = "ack" -> ACKParse(buf) [] t = "invoice" -> InvoiceRequestParse(buf)
    [] t = "message" -> MessageParse(buf)
    [] t = "encrypted" -> EncryptedMessageParse(buf)

ReturnsWithin(t, num, value) ==
  CASE t = "request" /\ num = 4 -> FieldsReturn(DetailsKinds, value)
    [] t = "ack" /\ num = 1 -> FieldsReturn(PaymentKinds, value)
    [] OTHER -> TRUE
ParseReturns(t, buf) ==
  LET fields == FieldsFrom(buf)
  IN /\ FieldsReturn(KindsOf(t), buf)
     /\ \A j \in DOMAIN fields : \A k \in DOMAIN fields[j].data :
          ReturnsWithin(t, fields[j].key \div 8, fields[j].data[k])

(* What a message can be, as it is kept.                                   *)
ValueFits(kind, v) ==
  CASE kind = "int" -> Len(v) = 1
    [] kind = "uint32" -> Len(v) = 1 /\ v[1] < Span(W32)
    [] kind = "pubkey" -> v \in Seq(Byte) /\ IsKey(v)
    [] kind = "string" -> v \in Seq(Byte) /\ \A k \in DOMAIN v : v[k] # 0
    [] kind \in {"bytes", "script", "message", "messages"} -> v \in Seq(Byte)
MessageFits(kinds, m) ==
  /\ m = [field |-> m.field, unknown |-> m.unknown]
  /\ m.field \in [DOMAIN kinds -> Seq(Seq(Nat))]
  /\ \A num \in DOMAIN kinds :
       /\ kinds[num] # "messages" => Len(m.field[num]) <= 1
       /\ \A k \in DOMAIN m.field[num] : ValueFits(kinds[num], m.field[num][k])
  /\ m.unknown \in Seq(Field)
  /\ \A k \in DOMAIN m.unknown :
       WellFormed(m.unknown[k]) /\ m.unknown[k].key \div 8 \notin DOMAIN kinds

(* The fields without which a message is not accepted.                     *)
Required(t) ==
  CASE t = "output" -> {2} [] t = "request" -> {4} [] t \in {"ack", "invoice"} -> {1}
    [] t = "message" -> {1, 2} [] t = "encrypted" -> 1..5 [] OTHER -> {}

(* What other implementations write are whole fields, at every depth, also *)
(* of other types than are expected here.  What is created here is kept as *)
(* it would be if it were parsed; a transaction that was parsed and        *)
(* written again is parsed again.                                          *)
TransactionLasts(value) ==
  LET tx == TxParse(value)
  IN tx \in Seq(Seq(Byte)) /\ Len(tx) <= 1 /\ (tx # <<>> => TxParse(tx[1]) = tx)
WholeDetails(buf) ==
  LET outputs == Read(DetailsKinds, buf).field[2]
  IN /\ WholeFields(buf)
     /\ \A k \in DOMAIN outputs : WholeFields(outputs[k])
WholePayment(buf) ==
  LET field == Read(PaymentKinds, buf).field
  IN /\ WholeFields(buf)
     /\ \A k \in DOMAIN field[2] : TransactionLasts(field[2][k])
     /\ \A k \in DOMAIN field[3] : WholeFields(field[3][k])
WholeWithin(t, num, value) ==
  CASE t = "details" /\ num = 2 -> WholeFields(value)
    [] t = "request" /\ num = 4 -> WholeDetails(value)
    [] t = "payment" /\ num = 2 -> TransactionLasts(value)
    [] t = "payment" /\ num = 3 -> WholeFields(value)
    [] t = "ack" /\ num = 1 -> WholePayment(value)
    [] OTHER -> TRUE
Whole(t, f) ==
  /\ WellFormed(f)
  /\ \A k \in DOMAIN f.data : WholeWithin(t, f.key \div 8, f.data[k])
KeptWithin(t, num, value) ==
  CASE t = "details" /\ num = 2 -> OutputWithin(value) = <<value>>
    [] t = "request" /\ num = 4 -> DetailsSerialize(DetailsParse(value)) = value
    [] t = "payment" /\ num = 2 -> TxParse(value) = <<value>>
    [] t = "payment" /\ num = 3 -> OutputWithin(value) = <<value>>
    [] t = "ack" /\ num = 1 -> PaymentSerialize(PaymentParse(value)) = value
    [] OTHER -> TRUE
ASSUME FieldsAssumption == \A t \in Types : \A f \in Fields[t] : Whole(t, f)
ASSUME CreatedAssumption ==
  \A t \in Types : \A m \in Created[t] :
    /\ MessageFits(KindsOf(t), m)
    /\ \A num \in Required(t) : m.field[num] # <<>>
    /\ \A num \in DOMAIN KindsOf(t) : \A k \in DOMAIN m.field[num] :
         /\ WholeWithin(t, num, m.field[num][k])
         /\ KeptWithin(t, num, m.field[num][k])

(* The ciphers and signatures do what they are for: a shared secret is the *)
(* same from both sides, what is encrypted can be decrypted, and what is   *)
(* signed is verified.                                                     *)
EncryptedOf(x) ==
  EncryptedMessageNew(x.kind, x.message, x.receiver, x.sender, x.own, x.nonce, x.id,
                      x.code, x.status)
ASSUME LettersAssumption ==
  /\ Created["encrypted"] = {EncryptedOf(x) : x \in Letters}
  /\ \A x \in Letters : x.receiver \in Key /\ x.sender \in Key /\ x.message # <<>>
ASSUME CipherAssumption ==
  /\ \A k, l \in Key : ECDH(k, PubKey[l]) = ECDH(l, PubKey[k])
  /\ \A x \in Letters : \A k, l \in Key :
       LET cek == Derive(ECDH(k, PubKey[l]), x.nonce)
           ad == Decimal(x.code) \o StringOf(x.status)
       IN AEADDecrypt(cek, AEADEncrypt(cek, x.message, ad), ad) = x.message
  /\ \A m \in Created["encrypted"] : \A k \in Key :
       LET md == Sha256(EncryptedMessageSerialize(Unsigned(m, 6)))
       IN KeyVerify(k, md, KeySign(k, md))

Init ==
  /\ type \in Types
  /\ wire = <<>> /\ log = <<>> /\ msg = NULL /\ sent = NULL /\ hops = 0

(* Another implementation writes a field, or appends one to a message on   *)
(* its way.                                                                *)
Write ==
  /\ msg = NULL
  /\ Len(log) < IF sent = NULL THEN MaxFields ELSE MaxAdded
  /\ \E f \in Fields[type] :
       /\ wire' = wire \o FieldBytes(f)
       /\ log' = Append(log, f)
  /\ UNCHANGED <<type, msg, sent, hops>>

Create ==
  /\ wire = <<>> /\ msg = NULL
  /\ msg' \in Created[type]
  /\ UNCHANGED <<type, wire, log, sent, hops>>

Parse ==
  /\ msg = NULL /\ wire # <<>>
  /\ ParseReturns(type, wire)
  /\ msg' = ParseOf(type, wire) /\ msg' # NULL
  /\ UNCHANGED <<type, wire, log, sent, hops>>

(* A failed assertion ends the process, and a loop that never ends is      *)
(* ended with it; nothing is kept, and what comes next is a new message.   *)
Abort ==
  /\ msg = NULL /\ wire # <<>>
  /\ ~ParseReturns(type, wire)
  /\ wire' = <<>> /\ log' = <<>> /\ sent' = NULL /\ hops' = 0
  /\ UNCHANGED <<type, msg>>

Serialize ==
  /\ msg # NULL /\ hops < MaxHops
  /\ wire' = Serialized(KindsOf(type), msg)
  /\ sent' = msg /\ msg' = NULL /\ log' = <<>> /\ hops' = hops + 1
  /\ UNCHANGED type

Next == Write \/ Create \/ Parse \/ Abort \/ Serialize
Spec == Init /\ [][Next]_vars

-----------------------------------------------------------------------------
(* A message that comes straight from another implementation has of every  *)
(* field that is not repeated the value written last, of a repeated one at *)
(* most as many as were written, and of every unknown field, whatever      *)
(* their order, the last value (_ProtoBufField, _ProtoBufUnknown and the   *)
(* Parse functions).  A field of the wrong type leaves other fields alone: *)
(* it counts as 0 for numbers, clears a script, which makes the output     *)
(* unacceptable, and is as if it was not there for strings and bytes.      *)
LastOf(J) == log[CHOOSE j \in J : \A i \in J : i <= j]
AsWritten ==
  msg # NULL /\ sent = NULL /\ log # <<>> =>
    /\ \A num \in DOMAIN msg.field :
         LET kind == KindsOf(type)[num]
             value == msg.field[num]
             given == {j \in DOMAIN log : log[j].key \div 8 = num}
             filled == {j \in given : log[j].data # <<>>}
         IN /\ kind \in {"int", "uint32", "pubkey", "script"} /\ given = {} =>
                 value = <<>>
            /\ kind \in {"bytes", "string", "message"} => (value = <<>>) = (filled = {})
            /\ kind = "int" /\ given # {} => value = OneInt(LastOf(given).int)
            /\ kind = "uint32" /\ given # {} =>
                 value = OneInt(LastOf(given).int % Span(W32))
            /\ kind \in {"pubkey", "script"} /\ given # {} =>
                 value = LastOf(given).data /\ value # <<>>
            /\ kind = "bytes" /\ filled # {} => value = LastOf(filled).data
            /\ kind = "string" /\ filled # {} =>
                 value = <<ProtoBufString(LastOf(filled).data[1])>>
            /\ kind = "messages" => Len(value) <= Cardinality(filled)
    /\ \A j \in DOMAIN log :
         \/ log[j].key \div 8 \in DOMAIN msg.field
         \/ \E k \in (j + 1)..Len(log) : log[k].key = log[j].key
         \/ \E k \in DOMAIN msg.unknown : msg.unknown[k] = log[j]

(* A message that is serialised and parsed again is accepted and has the   *)
(* same fields, in the same order; nested messages are the same if each of *)
(* them, at every depth, has at most one unknown field.  Its own unknown   *)
(* fields are some of those it had, with every key, and all of them if no  *)
(* key is there twice (the Serialize and Parse functions).                 *)
AtMostOne(kinds, buf) ==
  LET fields == FieldsFrom(buf)
      unknown == {k \in DOMAIN fields : fields[k].key \div 8 \notin DOMAIN kinds}
  IN \A j, k \in unknown : j = k
PlainOutputs(values) ==
  \A k \in DOMAIN values : AtMostOne(OutputKinds, values[k])
PlainDetails(values) ==
  \A k \in DOMAIN values :
    /\ AtMostOne(DetailsKinds, values[k])
    /\ PlainOutputs(Read(DetailsKinds, values[k]).field[2])
PlainPayment(values) ==
  \A k \in DOMAIN values :
    /\ AtMostOne(PaymentKinds, values[k])
    /\ PlainOutputs(Read(PaymentKinds, values[k]).field[3])
PlainWithin(m, num) ==
  CASE type = "details" /\ num = 2 -> PlainOutputs(m.field[num])
    [] type = "request" /\ num = 4 -> PlainDetails(m.field[num])
    [] type = "payment" /\ num = 3 -> PlainOutputs(m.field[num])
    [] type = "ack" /\ num = 1 -> PlainPayment(m.field[num])
    [] OTHER -> TRUE
Keys(unknown) == {unknown[k].key : k \in DOMAIN unknown}
RelayKeepsFields ==
  sent # NULL /\ log = <<>> =>
    LET m == ParseOf(type, wire)
    IN /\ ParseReturns(type, wire) /\ m # NULL
       /\ \A num \in DOMAIN sent.field :
            PlainWithin(sent, num) => m.field[num] = sent.field[num]
       /\ ToSet(m.unknown) \subseteq ToSet(sent.unknown)
       /\ Keys(m.unknown) = Keys(sent.unknown)
       /\ Cardinality(Keys(sent.unknown)) = Len(sent.unknown) =>
            ToSet(m.unknown) = ToSet(sent.unknown)

(* What is hashed to verify a request is what its author signed: the       *)
(* request as it was written with the signature emptied, if it was written *)
(* as it would be here: in order, with at most one unknown field.  The     *)
(* certificates it is verified with are all those of the pki data, in      *)
(* their order, if it holds nothing else (RequestDigest,                   *)
(* InvoiceRequestDigest, RequestCert, InvoiceRequestCert).                 *)
SignatureField == IF type = "request" THEN 5 ELSE 7
WrittenAsHere ==
  LET kinds == KindsOf(type)
      Num(j) == log[j].key \div 8
  IN /\ \A j, k \in DOMAIN log : j < k => Num(j) < Num(k)
     /\ \A j, k \in DOMAIN log :
          Num(j) \notin DOMAIN kinds /\ Num(k) \notin DOMAIN kinds => j = k
     /\ \A j \in DOMAIN log :
          /\ Num(j) > 0
          /\ Num(j) \in DOMAIN kinds =>
               \E v \in ToSet(msg.field[Num(j)]) : log[j] = FieldOf(kinds[Num(j)], Num(j), v)
WhatWasSigned ==
  Written([j \in DOMAIN log |->
             IF log[j].key \div 8 # SignatureField THEN log[j]
             ELSE [log[j] EXCEPT !.data = <<<<>>>>]])
DigestAsSigned ==
  msg # NULL /\ sent = NULL /\ log # <<>> /\ type \in {"request", "invoice"} =>
    LET digest == IF type = "request" THEN RequestDigest(msg)
                  ELSE InvoiceRequestDigest(msg)
        pki == msg.field[IF type = "request" THEN 3 ELSE 4]
        CertAt(idx) == IF type = "request" THEN RequestCert(msg, idx)
                       ELSE InvoiceRequestCert(msg, idx)
        fields == FieldsFrom(pki[1])
    IN /\ WrittenAsHere => digest \in {<<>>, Sha256(WhatWasSigned), Sha1(WhatWasSigned)}
       /\ pki # <<>> /\ (\A k \in DOMAIN fields : /\ fields[k].key \div 8 = 1
                                                  /\ fields[k].data # <<>>)
            => /\ \A k \in DOMAIN fields : CertAt(k - 1) = fields[k].data[1]
               /\ CertAt(Len(fields)) = <<>>

(* An encrypted message made here, sent and parsed is verified with the    *)
(* key of the side that made it, and both sides decrypt it to the same     *)
(* text; if a field was added on the way that changes it, then it is no    *)
(* longer verified (EncryptedMessageNew, Verify and Decrypt).              *)
UnderstoodByBoth(m) ==
  LET sides == {k \in Key : PubKey[k] \in {m.field[3][1], m.field[4][1]}}
  IN /\ \E k \in sides : EncryptedMessageVerify(m, k)
     /\ \A k, l \in sides :
          /\ EncryptedMessageDecrypt(m, k) = EncryptedMessageDecrypt(m, l)
          /\ EncryptedMessageDecrypt(m, k) # <<>>
BothSidesAgree ==
  type = "encrypted" /\ sent \in Created[type] =>
    /\ log = <<>> => UnderstoodByBoth(ParseOf(type, wire))
    /\ msg = sent => UnderstoodByBoth(msg)
ChangesRefused ==
  type = "encrypted" /\ sent \in Created[type] /\ msg # NULL /\ msg # sent =>
    \A k \in Key : ~EncryptedMessageVerify(msg, k)
BothSidesDecrypt == BothSidesAgree /\ ChangesRefused
=============================================================================
