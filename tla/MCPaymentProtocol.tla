------------------------- MODULE MCPaymentProtocol -------------------------
(* Instances of PaymentProtocol with a byte of 32 values.                  *)
EXTENDS PaymentProtocol, TLC

Mix(bytes, seed, n) ==
  LET h[k \in 0..Len(bytes)] ==
        IF k = 0 THEN seed ELSE (h[k - 1] * 31 + bytes[k] + 7) % 65521
  IN LE(h[Len(bytes)], n)
MCSha256(bytes) == Mix(bytes, 1, HASH)
MCSha1(bytes) == Mix(bytes, 2, HASH - 1)
MCTxParse(bytes) == IF bytes = <<>> THEN <<>> ELSE <<bytes>>

(* The multiples of a point of order 13, by the exponent e: -e has the     *)
(* same x coordinate.  Key "u" is written in the long form.                *)
X(e) == IF e <= 6 THEN e ELSE 13 - e
Point(e) == <<IF e <= 6 THEN 2 ELSE 3, X(e)>>
Secret == [k \in {"k", "l", "u"} |-> CASE k = "k" -> 2 [] k = "l" -> 3 [] k = "u" -> 7]
MCPubKey == [k \in {"k", "l", "u"} |->
               IF k = "u" THEN <<4, X(Secret[k]), 1>> ELSE Point(Secret[k])]
MCIsPubKey(bytes) == bytes[2] \in 1..6
MCPointMul(p, k) ==
  Point(((IF p[1] = 2 THEN p[2] ELSE 13 - p[2]) * Secret[k]) % 13)
MCKeySign(k, md) == Mix(PubKey[k] \o md, 3, HASH)
MCKeyVerify(k, md, sig) == sig = MCKeySign(k, md)
MCDerive(secret, nonce) == Mix(<<secret, nonce>>, 4, 3)
Mask(cek, bytes) == [j \in DOMAIN bytes |-> (bytes[j] + cek[1] + j) % BYTE]
Unmask(cek, bytes) == [j \in DOMAIN bytes |-> (bytes[j] + 2 * BYTE - cek[1] - j) % BYTE]
Tag(cek, bytes, ad) == Mix(cek \o bytes \o <<0>> \o ad, 5, TAG)
MCEncrypt(cek, bytes, ad) == Mask(cek, bytes) \o Tag(cek, bytes, ad)
MCDecrypt(cek, bytes, ad) ==
  IF Len(bytes) < TAG THEN <<>>
  ELSE LET text == Unmask(cek, SubSeq(bytes, 1, Len(bytes) - TAG))
       IN IF SubSeq(bytes, Len(bytes) - TAG + 1, Len(bytes)) = Tag(cek, text, ad)
          THEN text ELSE <<>>

IntField(num, i) == ProtoBufSetInt(i, num)
BytesField(num, data) == ProtoBufSetBytes(data, num)
Unknown == {IntField(10, 3), IntField(10, 4), BytesField(11, <<9>>), [key |-> 97, int |-> 33, data |-> <<>>],
            [key |-> 93, int |-> 5, data |-> <<>>]}
AnOutput == OutputSerialize(Output(40, <<1, 2>>))
ScriptCleared == Written(<<BytesField(2, <<7>>), IntField(2, 1)>>)
ADetails == DetailsSerialize(DetailsNew(<<>>, <<>>, 17, 0, <<<<6>>>>, <<>>, <<>>))
UnknownDetails == Written(<<IntField(8, 1), IntField(9, 2)>>)
MCX509 == <<25, 25>>
MCSha1Name == <<25, 1>>
PkiData == Written(<<BytesField(1, <<8>>), BytesField(1, <<9, 9>>)>>)

MCFields ==
  [t \in Types |->
    CASE t = "output" -> {IntField(1, 0), IntField(1, 300), BytesField(2, <<>>), BytesField(2, <<3>>),
                          IntField(2, 1), BytesField(3, <<1>>)} \cup Unknown
      [] t = "details" -> {BytesField(1, <<4, 0, 5>>), BytesField(2, AnOutput), BytesField(2, <<8, 1>>),
                           IntField(2, 1), BytesField(2, ScriptCleared),
                           IntField(3, 16), BytesField(5, <<5>>), BytesField(7, <<0>>), IntField(7, 1),
                           IntField(8, 1), IntField(10, 3), IntField(10, 4), BytesField(11, <<9>>)}
      [] t = "request" -> {IntField(1, 2), BytesField(2, MCX509), BytesField(3, PkiData),
                           BytesField(4, ADetails), BytesField(4, UnknownDetails), IntField(4, 1),
                           BytesField(4, FieldBytes(IntField(2, 1))), BytesField(5, <<7, 7>>),
                           IntField(10, 3), BytesField(11, <<9>>)}
      [] t = "payment" -> {BytesField(1, <<>>), BytesField(2, <<3, 3>>), BytesField(2, <<4>>),
                           BytesField(3, AnOutput), BytesField(3, <<>>), IntField(3, 4), BytesField(4, <<2>>),
                           IntField(10, 3), BytesField(11, <<9>>)}
      [] t = "ack" -> {BytesField(1, <<>>), IntField(1, 0), BytesField(1, FieldBytes(BytesField(2, <<3, 3>>))),
                       BytesField(2, <<>>), BytesField(2, <<2>>), IntField(10, 3)}
      [] t = "invoice" -> {BytesField(1, PubKey["k"]), BytesField(1, <<2, 9>>), BytesField(1, <<2>>),
                           IntField(1, 2), IntField(2, 0),
                           BytesField(3, MCX509), BytesField(4, PkiData), BytesField(7, <<7, 7>>),
                           IntField(10, 3), BytesField(11, <<9>>)}
      [] t = "message" -> {IntField(1, 3), IntField(1, Span(W32) + 3), BytesField(2, <<>>), BytesField(2, <<1, 2>>), IntField(3, 40),
                           BytesField(4, <<6>>), BytesField(5, <<2>>), IntField(10, 3),
                           BytesField(11, <<9>>)}
      [] t = "encrypted" -> {IntField(1, 1), IntField(5, 4), BytesField(7, <<2>>), IntField(8, 3),
                             BytesField(3, <<2>>), BytesField(3, PubKey["l"]), BytesField(9, <<6>>), IntField(10, 3)}]

Options == {<<>>, <<<<6>>>>}
MCLetters ==
  {x \in [kind : {1}, message : {<<8, 9>>}, receiver : Key, sender : Key,
          own : {"receiver", "sender"}, nonce : {5}, id : {<<>>}, code : {0, 12},
          status : Options] :
     (x.receiver = x.sender => x.own = "sender") /\ (x.code = 0 => x.status = <<>>)}
MCCreated ==
  "output" :> {Output(0, <<>>), Output(300, <<1, 2>>)}
      @@ "details" :>
           {DetailsNew(n, <<AnOutput>>, 17, 0, m, u, <<>>) : n, m, u \in Options}
      @@ "request" :>
           {RequestNew(v, p, <<PkiData>>, DetailsNew(<<>>, <<>>, 0, 1, m, <<>>, <<>>), s) :
              v \in {0, 1}, p \in {<<>>, <<MCX509>>}, m, s \in Options}
      @@ "payment" :>
           {PaymentNew(d, <<<<3, 3>>, <<4>>>>, r, <<>>) :
              d \in Options,
              r \in {<<>>, <<[amount |-> 0, script |-> <<1>>],
                             [amount |-> 40, script |-> <<1, 2>>]>>}}
      @@ "ack" :>
           {ACKNew(PaymentNew(<<>>, <<<<4>>>>, <<>>, m), m) : m \in Options}
      @@ "invoice" :>
           {InvoiceRequestNew(k, 0, p, <<>>, m, <<>>, m) :
              k \in Key, p \in {<<>>, <<MCX509>>}, m \in Options}
      @@ "message" :> {MessageNew(1, <<1, 2>>, c, m, i) :
                             c \in {0, 40}, m, i \in Options}
      @@ "encrypted" :>
           {EncryptedOf(x) : x \in Letters}
=============================================================================
