------------------------------- MODULE Base58 -------------------------------
(***************************************************************************)
(* BitWBase58.c.  A text is a sequence of characters: 1..RADIX are the     *)
(* digits of the alphabet in order, 0 is the character '0', which is none  *)
(* of them, and larger numbers are other characters.  A result longer than *)
(* the caller's buffer is the empty sequence, for which the code gives     *)
(* length 0.                                                               *)
(***************************************************************************)
EXTENDS Bytes

CONSTANTS
  RADIX,                       \* 58
  ENCODE_RATIO, DECODE_RATIO,  \* 138/100 and 733/1000: <<over, under>>
  CHECK,                       \* the bytes of a checksum: 4
  Sha256d(_)                   \* BitWSHA256_2

Leading(s, v) ==
  LET i == SelectInSeq(s, LAMBDA x : x # v) IN IF i = 0 THEN Len(s) ELSE i - 1
WithoutLeading(s, v) == SubSeq(s, Leading(s, v) + 1, Len(s))
Room(n, ratio) == (n * ratio[1]) \div ratio[2] + 1
Fit(data, dataLen) == IF Len(data) <= dataLen THEN data ELSE <<>>

(* buf * factor + digit, in the cells of buf, each below base: the carry   *)
(* goes from the last cell to the first, where what is left of it is lost. *)
Shifted(buf, factor, digit, base) ==
  LET n == Len(buf)
      carry[j \in 0..n] == IF j = 0 THEN digit
                           ELSE (carry[j - 1] + buf[n + 1 - j] * factor) \div base
  IN  [i \in 1..n |-> (carry[n - i] + buf[i] * factor) % base]

Digits(rest) ==
  WithoutLeading(FoldLeft(LAMBDA b, d : Shifted(b, BYTE, d, RADIX),
                          Zeros(Room(Len(rest), ENCODE_RATIO)), rest), 0)
Letters(digits) == [i \in DOMAIN digits |-> digits[i] + 1]
BitWBase58Encode(data) ==
  Letters(Zeros(Leading(data, 0)) \o Digits(WithoutLeading(data, 0)))

(* Decoding ends silently at the first character that is not a digit.      *)
DecodedDigits(rest) ==
  LET end == SelectInSeq(rest, LAMBDA c : c \notin 1..RADIX)
      digits == IF end = 0 THEN rest ELSE SubSeq(rest, 1, end - 1)
  IN  FoldLeft(LAMBDA b, c : Shifted(b, RADIX, c - 1, BYTE),
               Zeros(Room(Len(rest), DECODE_RATIO)), digits)
Decoded(str) ==
  Zeros(Leading(str, 1)) \o WithoutLeading(DecodedDigits(WithoutLeading(str, 1)), 0)
BitWBase58Decode(str, dataLen) == Fit(Decoded(str), dataLen)

Checksum(data) == SubSeq(Sha256d(data), 1, CHECK)
BitWBase58CheckEncode(data) == BitWBase58Encode(data \o Checksum(data))
Checked(all, dataLen) ==
  LET data == SubSeq(all, 1, Len(all) - CHECK)
  IN  IF Len(all) >= CHECK /\ all = data \o Checksum(data) THEN Fit(data, dataLen)
      ELSE <<>>
BitWBase58CheckDecode(str, dataLen) == Checked(Decoded(str), dataLen)
=============================================================================
