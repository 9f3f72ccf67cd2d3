------------------------------- MODULE Bytes -------------------------------
(***************************************************************************)
(* Byte strings: the integer helpers of BitWInt.h and the variable-length  *)
(* integers of BitWAddress.c.  A byte string is a sequence and an offset   *)
(* into it counts from 0, as in the code.  The widths are parameters, so   *)
(* that every length and every header of the formats built on them occurs  *)
(* in a short string: a byte has BYTE values, a uint32_t takes W32 bytes.  *)
(***************************************************************************)
EXTENDS Sums, SequencesExt

CONSTANTS
  BYTE,           \* the number of values of a byte
  W16, W32, W64,  \* sizeof(uint16_t), sizeof(uint32_t), sizeof(uint64_t)
  HASH            \* sizeof(UInt256)

ASSUME WidthAssumption ==
  /\ {BYTE, W16, W32, W64, HASH} \subseteq Nat \ {0}
  /\ 3 < BYTE /\ 1 < W16 /\ W16 < W32 /\ W32 < W64
  /\ \E n \in 1..BYTE : 2^n = BYTE

Byte == 0..(BYTE - 1)
BITS == CHOOSE n \in 1..BYTE : 2^n = BYTE  \* the bits of a byte
Span(k) == 2^(BITS * k)                    \* the number of values of k bytes
Uint(k) == 0..(Span(k) - 1)               \* the numbers of k bytes
Zeros(n) == [k \in 1..n |-> 0]
Min2(a, b) == IF a < b THEN a ELSE b
Hash == [1..HASH -> Byte]

(* UInt16SetLE, UInt32SetLE, UInt64SetLE and their big-endian forms.       *)
LE(u, w) == [k \in 1..w |-> (u \div Span(k - 1)) % BYTE]
BE(u, w) == Reverse(LE(u, w))

(* UInt16GetLE, UInt32GetLE, UInt64GetLE and their big-endian forms.       *)
ValueLE(s) == Total([k \in DOMAIN s |-> s[k] * Span(k - 1)])
ValueBE(s) == ValueLE(Reverse(s))

(* The w bytes at off; bytes the buffer does not hold are read as zero,    *)
(* which is how every reader of the code guards its access.                *)
At(buf, off, w) ==
  IF off + w <= Len(buf) THEN SubSeq(buf, off + 1, off + w) ELSE Zeros(w)
GetLE(buf, off, w) == ValueLE(At(buf, off, w))

(* Variable-length integers: the headers are the three largest bytes.      *)
VAR_INT16_HEADER == BYTE - 3
VAR_INT32_HEADER == BYTE - 2
VAR_INT64_HEADER == BYTE - 1

VarIntWidth(h) == CASE h = VAR_INT16_HEADER -> W16 [] h = VAR_INT32_HEADER -> W32
                    [] h = VAR_INT64_HEADER -> W64 [] OTHER -> 0
VarIntBehind(h, buf, off) ==
  [value |-> IF VarIntWidth(h) = 0 THEN h ELSE GetLE(buf, off, VarIntWidth(h)),
   len |-> 1 + VarIntWidth(h)]
BitWVarInt(buf, off) == VarIntBehind(GetLE(buf, off, 1), buf, off + 1)

(* Mutated form: the first header is taken for a length.                   *)
VarIntWithHeader(u) ==
  IF u <= VAR_INT16_HEADER THEN <<u>> ELSE <<VAR_INT16_HEADER>> \o LE(u, W16)

BitWVarIntSet(u) ==
  CASE u < VAR_INT16_HEADER -> <<u>>
    [] u >= VAR_INT16_HEADER /\ u < Span(W16) ->
         <<VAR_INT16_HEADER>> \o LE(u, W16)
    [] u >= Span(W16) /\ u < Span(W32) -> <<VAR_INT32_HEADER>> \o LE(u, W32)
    [] OTHER -> <<VAR_INT64_HEADER>> \o LE(u, W64)

BitWVarIntSize(u) == Len(BitWVarIntSet(u))
=============================================================================
