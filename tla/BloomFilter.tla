---------------------------- MODULE BloomFilter ----------------------------
(***************************************************************************)
(* BitWBloomFilter.c: the filter a wallet sends to its peers, so that they *)
(* pass on only the transactions it may be interested in.                  *)
(***************************************************************************)
EXTENDS Bytes

CONSTANTS
  BLOOM_MAX_FILTER_LENGTH, BLOOM_MAX_HASH_FUNCS,
  BitsPerElement(_),        \* -log(rate) / ln(2)^2 of a false positive rate
  Murmur3(_, _)             \* BitWMurmur3_32, of data and a seed

ASSUME BloomAssumption ==
  /\ BLOOM_MAX_FILTER_LENGTH \in 1..(Span(W32) - 1)
  /\ BLOOM_MAX_HASH_FUNCS \in 0..(Span(W32) - 1)

HASH_SEED == 11  \* stands for 0xfba4c795
SeedOf(filter, i) == (i * HASH_SEED + filter.tweak) % Span(W32)

(* The bits of the filter are numbered from the lowest of its first byte.  *)
BloomFilterHash(filter, data, i) ==
  Murmur3(data, SeedOf(filter, i)) % (Len(filter.filter) * BITS)
Bit(bytes, idx) == (bytes[(idx \div BITS) + 1] \div 2^(idx % BITS)) % 2

(* The numbers of hash functions is ln(2) bits per element.                *)
BitWBloomFilterNew(rate, elemCount, tweak, flags) ==
  LET bytes == (elemCount * BitsPerElement(rate)) \div BITS
      length == IF bytes < 1 THEN 1 ELSE Min2(bytes, BLOOM_MAX_FILTER_LENGTH)
      funcs == (length * BITS * 69) \div (elemCount * 100)
  IN [filter |-> Zeros(length), hashFuncs |-> Min2(funcs, BLOOM_MAX_HASH_FUNCS),
      elemCount |-> 0, tweak |-> tweak, flags |-> flags]

SetBit(bytes, idx) ==
  [k \in DOMAIN bytes |->
     IF k = (idx \div BITS) + 1 /\ Bit(bytes, idx) = 0 THEN bytes[k] + 2^(idx % BITS)
     ELSE bytes[k]]

(* The bits of data are set for the first n hash functions.                *)
BitsSet(filter, data, n) ==
  LET bytes[i \in 0..n] ==
        IF i = 0 THEN filter.filter
        ELSE SetBit(bytes[i - 1], BloomFilterHash(filter, data, i - 1))
  IN bytes[n]

(* Mutated form: the last hash function is left out of the insertion.      *)
InsertAllButLast(filter, data) ==
  [filter EXCEPT !.filter = IF filter.hashFuncs = 0 THEN @
                            ELSE BitsSet(filter, data, filter.hashFuncs - 1),
                 !.elemCount = @ + 1]

BitWBloomFilterInsertData(filter, data) ==
  [filter EXCEPT !.filter = BitsSet(filter, data, filter.hashFuncs),
                 !.elemCount = @ + 1]

BitWBloomFilterContainsData(filter, data) ==
  \A i \in 0..(filter.hashFuncs - 1) :
    Bit(filter.filter, BloomFilterHash(filter, data, i)) = 1

(* The number of elements is not written.                                  *)
BitWBloomFilterSerialize(filter) ==
  BitWVarIntSet(Len(filter.filter)) \o filter.filter
    \o LE(filter.hashFuncs, W32) \o LE(filter.tweak, W32) \o <<filter.flags>>

(* <<>> if the filter is cut off or too long, else <<the filter>>.  What is *)
(* missing after its bits is zero.                                         *)
BitWBloomFilterParse(buf) ==
  LET n == BitWVarInt(buf, 0)
      end == n.len + n.value
  IN IF n.value > BLOOM_MAX_FILTER_LENGTH \/ end > Len(buf) THEN <<>>
     ELSE <<[filter |-> SubSeq(buf, n.len + 1, end),
             hashFuncs |-> GetLE(buf, end, W32), elemCount |-> 0,
             tweak |-> GetLE(buf, end + W32, W32),
             flags |-> GetLE(buf, end + 2 * W32, 1)]>>
=============================================================================
