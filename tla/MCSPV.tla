------------------------------- MODULE MCSPV -------------------------------
(* Instances of SPV with a byte of 16 values, hashes of 4 bytes and a      *)
(* difficulty that changes with every second block.                        *)
EXTENDS SPV

Mix(bytes, seed, n) ==
  LET h[k \in 0..Len(bytes)] ==
        IF k = 0 THEN seed ELSE (h[k - 1] * 31 + bytes[k] + 7) % 65521
  IN LE(h[Len(bytes)], n)
MCSha256d(bytes) == Mix(Reverse(bytes), 1, HASH)
MCMurmur3(data, seed) == ValueLE(Mix(data, seed + 3, 3))
MCBitsPerElement(rate) == rate

Tx(n) == <<n, 3, n, 1>>
MCElement == {Tx(n) : n \in 1..3}
MCBlocks == {<<Tx(1)>>, <<Tx(4), Tx(1), Tx(5)>>, <<Tx(1), Tx(2), Tx(3), Tx(4), Tx(5)>>,
             <<Tx(1), Tx(2), Tx(3), Tx(3)>>, <<Tx(1), Tx(2), Tx(1), Tx(2)>>,
             <<Tx(4), Tx(5), Tx(6), Tx(2), Tx(7), Tx(3)>>}

(* What TargetsAlwaysDefined assumes of the times.                         *)
ASSUME TimesSuffice == TimesFit
=============================================================================
