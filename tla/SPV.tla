-------------------------------- MODULE SPV --------------------------------
(***************************************************************************)
(* The use of BitWBloomFilter.c and BitWMerkleBlock.c together: a wallet   *)
(* follows the headers of the chain, sends a filter to a peer, and takes   *)
(* the transactions that concern it from the merkle blocks the peer sends, *)
(* which may be damaged on the way.  The peer manager is not part of the   *)
(* repository: the order of the calls and the peer are external.           *)
(***************************************************************************)
EXTENDS BloomFilter, MerkleBlock, FiniteSets

CONSTANTS
  Element,          \* what the wallet puts into its filter: transaction hashes
  Rates, Counts, Tweaks,   \* the arguments of BitWBloomFilterNew
  Blocks,           \* the blocks, as sequences of transaction hashes
  Steps,            \* the seconds between two blocks
  WrongTargets,     \* targets of blocks that break the rules
  Nonces, FirstTarget, FirstTime, Now, MaxHeaders

(* The chain starts with a block that has a target as others have.         *)
ASSUME SPVAssumption ==
  /\ MantissaOf(FirstTarget) < Span(MANTISSA) \div 2
  /\ ~TooEasy(MantissaOf(FirstTarget), SizeOf(FirstTarget))
  /\ Element \subseteq Hash
  /\ \A t \in Blocks : t \in Seq(Hash) /\ t # <<>> /\ Len(t) < Span(W32)
  /\ Counts \subseteq Nat \ {0} /\ Tweaks \subseteq 0..(Span(W32) - 1)
  /\ Steps \cup WrongTargets \cup Nonces \cup {FirstTarget, FirstTime} \subseteq Nat
  /\ \A rate \in Rates : BitsPerElement(rate) \in Nat
  /\ \A e \in Element : \A seed \in 0..(Span(W32) - 1) : Murmur3(e, seed) \in Nat

(* The timestamps that are accepted fit an int, as those until 2038 do:    *)
(* what TargetsAlwaysDefined assumes.                                      *)
TimesFit ==
  /\ FirstTime <= Now + BLOCK_MAX_TIME_DRIFT
  /\ Now \in Nat /\ Now + BLOCK_MAX_TIME_DRIFT < Span(W32) \div 2

VARIABLES
  filter,    \* the wallet's filter; <<>> or <<filter>>
  inserted,  \* what is in it
  peer,      \* the filter the peer has, and what was in it then
  chain,     \* the accepted blocks
  txs,       \* the transactions of the last block
  block      \* the last merkle block that was received; <<>> or <<block>>

vars == <<filter, inserted, peer, chain, txs, block>>

-----------------------------------------------------------------------------
(* The peer's side: the merkle tree of a block, and the part of it that    *)
(* proves the transactions the filter matches (BIP37).                     *)
Width(n, h) == (n + 2^h - 1) \div 2^h

Height(t) == CeilLog2(Len(t))
Positions(t, h) == 0..(Width(Len(t), h) - 1)

(* The hashes of a tree by their heights and positions.                    *)
TreeHash(t) ==
  LET tree[h \in 0..Height(t)] ==
        [pos \in Positions(t, h) |->
           LET left == tree[h - 1][2 * pos]
           IN IF h = 0 THEN t[pos + 1]
              ELSE Sha256d(left \o (IF 2 * pos + 1 \in Positions(t, h - 1)
                                    THEN tree[h - 1][2 * pos + 1] ELSE left))]
  IN tree

Leaves(t, h, pos) == (pos * 2^h + 1)..Min2((pos + 1) * 2^h, Len(t))
Matched(t, f, h, pos) ==
  \E k \in Leaves(t, h, pos) : BitWBloomFilterContainsData(f, t[k])

(* The flags and hashes sent for each branch.                              *)
Partial(t, f) ==
  LET part[h \in 0..Height(t)] ==
        [pos \in Positions(t, h) |->
           LET left == part[h - 1][2 * pos]
               right == IF 2 * pos + 1 \in Positions(t, h - 1)
                        THEN part[h - 1][2 * pos + 1]
                        ELSE [bits |-> <<>>, hashes |-> <<>>]
           IN IF h = 0 \/ ~Matched(t, f, h, pos)
              THEN [bits |-> <<IF Matched(t, f, h, pos) THEN 1 ELSE 0>>,
                    hashes |-> <<TreeHash(t)[h][pos]>>]
              ELSE [bits |-> <<1>> \o left.bits \o right.bits,
                    hashes |-> left.hashes \o right.hashes]]
  IN part

Packed(bits) ==
  LET bytes[k \in 0..Len(bits)] ==
        IF k = 0 THEN Zeros((Len(bits) + BITS - 1) \div BITS)
        ELSE IF bits[k] = 1 THEN SetBit(bytes[k - 1], k - 1) ELSE bytes[k - 1]
  IN bytes[Len(bits)]

Header(root, time, target, nonce) ==
  [version |-> 1, prevBlock |-> Last(chain).blockHash, merkleRoot |-> root,
   timestamp |-> time, target |-> target, nonce |-> nonce, totalTx |-> 0,
   hashes |-> <<>>, flags |-> <<>>]

MerkleBlockOf(t, f, header) ==
  LET p == Partial(t, f)[Height(t)][0]
  IN [header EXCEPT !.totalTx = Len(t), !.hashes = p.hashes, !.flags = Packed(p.bits)]

(* At most one hash or one flag is changed on the way.                     *)
Damaged(b) ==
  {b} \cup {[b EXCEPT !.hashes[k] = other] :
              k \in DOMAIN b.hashes, other \in Element \cup ToSet(b.hashes)}
      \cup {[b EXCEPT !.flags[(k \div BITS) + 1] =
                IF Flag(b, k) THEN @ - 2^(k % BITS) ELSE @ + 2^(k % BITS)] :
              k \in 0..(BITS * Len(b.flags) - 1)}

-----------------------------------------------------------------------------
(* The block at the last transition; its time is 0 if it is not known.     *)
TransitionTime(height) ==
  LET at == {k \in DOMAIN chain : chain[k].height = height - BLOCK_DIFFICULTY_INTERVAL}
  IN IF at = {} THEN 0 ELSE chain[CHOOSE k \in at : TRUE].timestamp

DueTarget ==
  LET last == Last(chain)
      height == last.height + 1
  IN IF height % BLOCK_DIFFICULTY_INTERVAL = 0
     THEN TransitionTarget(last.target, last.timestamp - TransitionTime(height))
     ELSE last.target

Accepted(b) ==
  /\ BitWMerkleBlockIsValid(b, Now)
  /\ BitWMerkleBlockVerifyDifficulty(b, Last(chain), TransitionTime(b.height))

Receive(b) ==
  LET parsed == [BitWMerkleBlockParse(BitWMerkleBlockSerialize(b))[1] EXCEPT
                   !.height = Last(chain).height + 1]
  IN /\ block' = <<parsed>>
     /\ chain' = IF Accepted(parsed) THEN Append(chain, parsed) ELSE chain

Genesis ==
  [blockHash |-> Zeros(HASH), version |-> 1, prevBlock |-> Zeros(HASH),
   merkleRoot |-> Zeros(HASH), timestamp |-> FirstTime, target |-> FirstTarget,
   nonce |-> 0, totalTx |-> 0, hashes |-> <<>>, flags |-> <<>>, height |-> 0]

Init ==
  /\ filter = <<>> /\ inserted = {} /\ peer = <<>>
  /\ chain = <<Genesis>> /\ txs = <<>> /\ block = <<>>

(* A header alone; the wallet follows them before it sends a filter.       *)
ReceiveHeader ==
  /\ filter = <<>> /\ Len(chain) < MaxHeaders
  /\ \E step \in Steps, target \in {DueTarget} \cup WrongTargets, nonce \in Nonces :
       Receive(Header(UINT256_ZERO, Last(chain).timestamp + step, target, nonce))
  /\ UNCHANGED <<filter, inserted, peer, txs>>

(* Bound: the filter is made at the first header.                          *)
NewFilter ==
  /\ filter = <<>> /\ Len(chain) = 1 /\ block = <<>>
  /\ \E rate \in Rates, count \in Counts, tweak \in Tweaks :
       filter' = <<BitWBloomFilterNew(rate, count, tweak, 0)>>
  /\ UNCHANGED <<inserted, peer, chain, txs, block>>

Insert(e) ==
  /\ filter # <<>> /\ e \notin inserted
  /\ filter' = <<BitWBloomFilterInsertData(filter[1], e)>>
  /\ inserted' = inserted \cup {e}
  /\ UNCHANGED <<peer, chain, txs, block>>

(* The filter is sent; the peer parses it.                                 *)
Load ==
  /\ filter # <<>> /\ peer = <<>>
  /\ peer' = <<[filter |-> BitWBloomFilterParse(BitWBloomFilterSerialize(filter[1]))[1],
                elements |-> inserted]>>
  /\ UNCHANGED <<filter, inserted, chain, txs, block>>

(* Bound: one merkle block.                                                *)
ReceiveBlock ==
  /\ peer # <<>> /\ block = <<>>
  /\ \E t \in Blocks, nonce \in Nonces :
       LET header == Header(TreeHash(t)[Height(t)][0], FirstTime + 1, DueTarget, nonce)
       IN /\ \E b \in Damaged(MerkleBlockOf(t, peer[1].filter, header)) : Receive(b)
          /\ txs' = t
  /\ UNCHANGED <<filter, inserted, peer>>

Next ==
  \/ ReceiveHeader \/ NewFilter \/ Load \/ ReceiveBlock
  \/ \E e \in Element : Insert(e)

Spec == Init /\ [][Next]_vars

-----------------------------------------------------------------------------
IsAccepted == block # <<>> /\ Last(chain) = block[1]
Undamaged ==
  block[1].hashes = MerkleBlockOf(txs, peer[1].filter, block[1]).hashes
    /\ block[1].flags = MerkleBlockOf(txs, peer[1].filter, block[1]).flags

(* A wallet misses nothing: whatever it put into its filter before it sent *)
(* it is matched by the peer and found in the merkle block that comes back *)
(* (BitWBloomFilterInsertData to BitWMerkleBlockTxHashes).                 *)
FoundAll ==
  IsAccepted /\ txs # <<>> /\ Undamaged =>
    \A k \in DOMAIN txs : txs[k] \in peer[1].elements =>
      /\ txs[k] \in ToSet(BitWMerkleBlockTxHashes(block[1]))
      /\ BitWMerkleBlockContainsTxHash(block[1], txs[k])

(* Whatever was damaged on the way, an accepted merkle block only proves   *)
(* transactions of the block; one that was not damaged proves none of them *)
(* twice, also if the block lists some twice (BitWMerkleBlockIsValid,      *)
(* BitWMerkleBlockTxHashes).                                               *)
ProvenInBlock ==
  IsAccepted /\ txs # <<>> =>
    LET found == BitWMerkleBlockTxHashes(block[1])
    IN ToSet(found) \subseteq ToSet(txs) /\ (Undamaged => IsInjective(found))

(* Targets and hashes as the numbers they stand for.                       *)
Value(mantissa, size) ==
  IF size < MANTISSA THEN mantissa \div Span(MANTISSA - size)
  ELSE mantissa * Span(size - MANTISSA)
TargetValue(target) == Value(MantissaOf(target), SizeOf(target))
ProofOfWorkLimit == Value(MAX_TARGET, MAX_SIZE)

(* The hash of every accepted block, taken as a number, is at most its     *)
(* target, which is at most the limit (BitWMerkleBlockIsValid compares     *)
(* bytes of a number it puts together).                                    *)
WorkIsReal ==
  \A k \in 2..Len(chain) :
    /\ ValueLE(chain[k].blockHash) <= TargetValue(chain[k].target)
    /\ TargetValue(chain[k].target) <= ProofOfWorkLimit

(* A target in units of 1 / Span(MANTISSA), in which all targets are whole.*)
Scaled(mantissa, size) == mantissa * Span(size)
ScaledTarget(target) == Scaled(MantissaOf(target), SizeOf(target))

(* The target of an accepted block is that of the one before; at a         *)
(* transition it is that target times the time since the last transition   *)
(* over the timespan, a time of at least a quarter and at most four times  *)
(* the timespan, or the limit; the rest is less than a unit of the last    *)
(* place of its mantissa (BitWMerkleBlockVerifyDifficulty and its comment).*)
Changed(old, time) ==
  LET quarter == TARGET_TIMESPAN \div 4
      span == IF time < quarter THEN quarter ELSE Min2(time, 4 * TARGET_TIMESPAN)
  IN Min2((ScaledTarget(old) * span) \div TARGET_TIMESPAN, Scaled(MAX_TARGET, MAX_SIZE))
TargetAsDefined ==
  \A k \in 2..Len(chain) :
    LET old == chain[k - 1].target
        new == chain[k].target
        due == Changed(old, chain[k - 1].timestamp - chain[k - BLOCK_DIFFICULTY_INTERVAL].timestamp)
    IN IF chain[k].height % BLOCK_DIFFICULTY_INTERVAL # 0 THEN new = old
       ELSE /\ ScaledTarget(new) <= due
            /\ due < ScaledTarget(new) + Span(SizeOf(new))
=============================================================================
