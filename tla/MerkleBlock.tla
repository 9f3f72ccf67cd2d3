---------------------------- MODULE MerkleBlock ----------------------------
(***************************************************************************)
(* BitWMerkleBlock.c: a block header with the part of the merkle tree that *)
(* proves some transactions to be in the block.                            *)
(***************************************************************************)
EXTENDS Bytes

CONSTANTS
  MAX_SIZE, MAX_TARGET,        \* MAX_PROOF_OF_WORK: its size and its mantissa
  TARGET_TIMESPAN, BLOCK_DIFFICULTY_INTERVAL, BLOCK_MAX_TIME_DRIFT,
  BLOCK_UNKNOWN_HEIGHT,
  Sha256d(_)                   \* BitWSHA256_2, of HASH bytes

HEADER == 4 * W32 + 2 * HASH  \* the bytes of a header
MANTISSA == W32 - 1           \* the bytes of a target below its size

(* The limit is a normal target, one larger than any of a smaller size.    *)
ASSUME MerkleAssumption ==
  /\ {TARGET_TIMESPAN, BLOCK_DIFFICULTY_INTERVAL} \subseteq Nat \ {0}
  /\ TARGET_TIMESPAN % BYTE = 0 /\ TARGET_TIMESPAN % 4 = 0
  /\ BLOCK_MAX_TIME_DRIFT \in Nat
  /\ MAX_SIZE \in (MANTISSA + 1)..HASH
  /\ MAX_TARGET \in Nat /\ MAX_TARGET < Span(MANTISSA) \div 2
  /\ Span(MANTISSA) \div 2 <= BYTE * MAX_TARGET

UINT256_ZERO == Zeros(HASH)

CeilLog2(n) == CHOOSE d \in 0..n : 2^d >= n /\ \A e \in 0..(d - 1) : 2^e < n

HeaderBytes(b) ==
  LE(b.version, W32) \o b.prevBlock \o b.merkleRoot \o LE(b.timestamp, W32)
    \o LE(b.target, W32) \o LE(b.nonce, W32)

(* <<>> for a buffer that is shorter than a header.  Of hashes or flags    *)
(* that are cut off the code keeps the count without the bytes, and later  *)
(* reads them through NULL, or through less than it asked for when their   *)
(* size wraps around; the blocks parsed here are whole.                    *)
BitWMerkleBlockParse(buf) ==
  LET u32(off) == GetLE(buf, off, W32)
      header == [blockHash |-> Sha256d(SubSeq(buf, 1, HEADER)),
                 version |-> u32(0), prevBlock |-> At(buf, W32, HASH),
                 merkleRoot |-> At(buf, W32 + HASH, HASH),
                 timestamp |-> u32(W32 + 2 * HASH),
                 target |-> u32(2 * W32 + 2 * HASH),
                 nonce |-> u32(3 * W32 + 2 * HASH),
                 totalTx |-> 0, hashes |-> <<>>, flags |-> <<>>,
                 height |-> BLOCK_UNKNOWN_HEIGHT]
      off == HEADER + W32
      count == BitWVarInt(buf, off)
      hashes == off + count.len
      flagsLen == BitWVarInt(buf, hashes + count.value * HASH)
      flags == hashes + count.value * HASH + flagsLen.len
  IN CASE Len(buf) < HEADER -> <<>>
       [] off > Len(buf) -> <<header>>
       [] OTHER ->
            <<[header EXCEPT
                 !.totalTx = u32(HEADER),
                 !.hashes = [k \in 1..count.value |->
                               At(buf, hashes + (k - 1) * HASH, HASH)],
                 !.flags = SubSeq(buf, flags + 1, flags + flagsLen.value)]>>

BitWMerkleBlockSerialize(b) ==
  HeaderBytes(b) \o
    (IF b.totalTx = 0 THEN <<>>
     ELSE LE(b.totalTx, W32) \o BitWVarIntSet(Len(b.hashes)) \o FlattenSeq(b.hashes)
            \o BitWVarIntSet(Len(b.flags)) \o b.flags)

Flag(b, idx) == (b.flags[(idx \div BITS) + 1] \div 2^(idx % BITS)) % 2 = 1
MoreNodes(b, s) == s.flagIdx \div BITS < Len(b.flags) /\ s.hashIdx < Len(b.hashes)

(* Both walks of the tree carry the indices of the next hash and flag,     *)
(* from a depth down to the leaves.                                        *)
TxHashesR(b) ==
  LET State == [flagIdx : Nat, hashIdx : Nat, found : Seq(ToSet(b.hashes))]
      walk[depth \in 0..CeilLog2(b.totalTx)] ==
        [s \in State |->
           LET flag == Flag(b, s.flagIdx)
               next == [s EXCEPT !.flagIdx = @ + 1]
           IN IF ~MoreNodes(b, s) THEN s
              ELSE IF ~flag \/ depth = CeilLog2(b.totalTx)
              THEN [next EXCEPT !.hashIdx = @ + 1,
                                !.found = IF flag THEN Append(@, b.hashes[s.hashIdx + 1]) ELSE @]
              ELSE walk[depth + 1][walk[depth + 1][next]]]
  IN walk

Start == [flagIdx |-> 0, hashIdx |-> 0, found |-> <<>>]
BitWMerkleBlockTxHashes(b) == TxHashesR(b)[0][Start].found

(* Mutated form: equal branches are accepted.                              *)
RootOfEqual(left, right) ==
  IF left = UINT256_ZERO THEN <<>>
  ELSE <<Sha256d(left \o (IF right = UINT256_ZERO THEN left ELSE right))>>

(* The hash of two branches; a missing right branch is the left one, and   *)
(* two equal ones have none (CVE-2012-2459).                               *)
RootOf(left, right) ==
  IF left = UINT256_ZERO \/ left = right THEN <<>>
  ELSE <<Sha256d(left \o (IF right = UINT256_ZERO THEN left ELSE right))>>

SIZE_MAX == Span(W32)  \* larger than any number of hashes

RootR(b) ==
  LET State == [flagIdx : Nat, hashIdx : Nat, md : Seq(Byte)]
      walk[depth \in 0..CeilLog2(b.totalTx)] ==
        [s \in State |->
           LET next == [s EXCEPT !.flagIdx = @ + 1]
               left == walk[depth + 1][next]
               right == walk[depth + 1][left]
               md == RootOf(left.md, right.md)
           IN IF ~MoreNodes(b, s) THEN [s EXCEPT !.md = UINT256_ZERO]
              ELSE IF ~Flag(b, s.flagIdx) \/ depth = CeilLog2(b.totalTx)
              THEN [next EXCEPT !.hashIdx = @ + 1, !.md = b.hashes[s.hashIdx + 1]]
              ELSE IF md # <<>> THEN [right EXCEPT !.md = md[1]]
              ELSE [right EXCEPT !.md = UINT256_ZERO, !.hashIdx = SIZE_MAX]]
  IN walk
MerkleRoot(b) == RootR(b)[0][[flagIdx |-> 0, hashIdx |-> 0, md |-> UINT256_ZERO]].md

(* A target is its size, in the highest byte, and a mantissa.              *)
SizeOf(target) == target \div Span(MANTISSA)
MantissaOf(target) == target % Span(MANTISSA)
Compact(mantissa, size) == mantissa + size * Span(MANTISSA)
TooEasy(mantissa, size) ==
  size > MAX_SIZE \/ (size = MAX_SIZE /\ mantissa > MAX_TARGET)

TargetBytes(target) ==
  LET size == SizeOf(target)
      bytes == LE(MantissaOf(target), W32)
  IN [k \in 1..HASH |->
        LET j == k - (size - MANTISSA)
        IN IF j \in 1..W32 THEN bytes[j] ELSE 0]

(* Mutated form: the highest byte is left out.                             *)
HashBelowButHighest(hash, t) ==
  \A k \in 1..(HASH - 1) :
    (\A j \in (k + 1)..(HASH - 1) : hash[j] = t[j]) => hash[k] <= t[k]

(* The bytes are compared from the highest.                                *)
HashBelow(hash, t) ==
  \A k \in 1..HASH : (\A j \in (k + 1)..HASH : hash[j] = t[j]) => hash[k] <= t[k]

(* For a size of HASH or more the code writes behind the bytes of the      *)
(* target; that block is refused, and what the write spoils is not         *)
(* modelled.                                                               *)
BitWMerkleBlockIsValid(b, currentTime) ==
  LET mantissa == MantissaOf(b.target) IN
  /\ b.totalTx > 0 => MerkleRoot(b) = b.merkleRoot
  /\ b.timestamp <= currentTime + BLOCK_MAX_TIME_DRIFT
  /\ mantissa # 0 /\ mantissa < Span(MANTISSA) \div 2
  /\ ~TooEasy(mantissa, SizeOf(b.target))
  /\ HashBelow(b.blockHash, TargetBytes(b.target))

BitWMerkleBlockContainsTxHash(b, txHash) ==
  \E k \in DOMAIN b.hashes : b.hashes[k] = txHash

(* A mantissa that has its sign bit, or a size of 0, is shifted.           *)
Normalize(mantissa, size) ==
  LET fits(n) == size + n >= 1 /\ mantissa \div Span(n) < Span(MANTISSA) \div 2
      shift == CHOOSE n \in 0..(mantissa + 2) : fits(n) /\ \A m \in 0..(n - 1) : ~fits(m)
  IN [mantissa |-> mantissa \div Span(shift), size |-> size + shift]

(* The time between two blocks is kept in an int.                          *)
Int32(n) == ((n + Span(W32) \div 2) % Span(W32)) - Span(W32) \div 2

(* Mutated form: the change is limited to a quarter only.                  *)
LimitedBelow(elapsed) ==
  IF Int32(elapsed) < TARGET_TIMESPAN \div 4 THEN TARGET_TIMESPAN \div 4
  ELSE Int32(elapsed)

(* A transition changes the target to a quarter at least and to four times *)
(* at most.                                                                *)
Limited(elapsed) ==
  LET timespan == Int32(elapsed)
  IN CASE timespan < TARGET_TIMESPAN \div 4 -> TARGET_TIMESPAN \div 4
       [] timespan > TARGET_TIMESPAN * 4 -> TARGET_TIMESPAN * 4
       [] OTHER -> timespan

TransitionTarget(target, elapsed) ==
  LET t == Normalize((MantissaOf(target) * Limited(elapsed))
                       \div (TARGET_TIMESPAN \div BYTE),
                     SizeOf(target) - 1)
  IN IF TooEasy(t.mantissa, t.size) THEN Compact(MAX_TARGET, MAX_SIZE)
     ELSE Compact(t.mantissa, t.size)

BitWMerkleBlockVerifyDifficulty(b, previous, transitionTime) ==
  LET transition == b.height % BLOCK_DIFFICULTY_INTERVAL = 0 IN
  /\ b.prevBlock = previous.blockHash
  /\ b.height = previous.height + 1
  /\ transition => transitionTime # 0
  /\ b.target = IF transition
                THEN TransitionTarget(previous.target,
                                      previous.timestamp - transitionTime)
                ELSE previous.target
=============================================================================
