------------------------------ MODULE Mnemonic ------------------------------
(***************************************************************************)
(* BitWBIP39Mnemonic.c: a number of random bytes as a phrase of words.  A  *)
(* phrase is a sequence of words and a word its place in the list, any     *)
(* number that is no place standing for a word that is not in the list.    *)
(* Three words carry GROUP bytes and one bit of a checksum.                *)
(***************************************************************************)
EXTENDS Bytes

CONSTANTS
  WORD_BITS,         \* 11
  GROUP,             \* 4
  MAX_WORDS,         \* 24
  PhraseHash(_),     \* BitWSHA256
  Pbkdf2(_, _),      \* of a phrase and a salt: 2 * HASH bytes
  MNEMONIC           \* the salt "mnemonic"

ASSUME MnemonicAssumption ==
  /\ 3 * WORD_BITS = GROUP * BITS + 1
  /\ WORD_BITS + BITS - 1 <= W32 * BITS

BIP39_WORDLIST_COUNT == 2^WORD_BITS

(* A word is cut out of the uint32_t in which it begins; the bytes after   *)
(* the entropy begin with its hash.                                        *)
BitWBIP39Encode(data) ==
  LET buf == data \o PhraseHash(data)
  IN  [n \in 1..((Len(data) * 3) \div GROUP) |->
         LET bit == (n - 1) * WORD_BITS
             x == ValueBE(At(buf, bit \div BITS, W32))
         IN  (x \div 2^(W32 * BITS - WORD_BITS - (bit % BITS))) % BIP39_WORDLIST_COUNT]

(* Mutated form: the last checksum bits are compared without the others.   *)
DecodeUnchecked(phrase) ==
  LET count == Len(phrase)
      Word(k) == IF k < count THEN phrase[k + 1] ELSE 0
      CutAt(i) == LET k == (i * BITS) \div WORD_BITS
                  IN  ((Word(k) * BIP39_WORDLIST_COUNT + Word(k + 1))
                        \div 2^((k + 2) * WORD_BITS - (i + 1) * BITS)) % BYTE
      buf == [i \in 1..((count * WORD_BITS + BITS - 1) \div BITS) |-> CutAt(i - 1)]
  IN  IF count % 3 = 0 /\ count > 0 THEN SubSeq(buf, 1, (count * GROUP) \div 3) ELSE <<>>

(* A byte is cut out of the two words in which it lies.  The bytes are     *)
(* given when the checksum, the first bits of the byte after them, holds.  *)
BitWBIP39Decode(phrase) ==
  LET count == Len(phrase)
      Word(k) == IF k < count THEN phrase[k + 1] ELSE 0
      CutAt(i) == LET k == (i * BITS) \div WORD_BITS
                  IN  ((Word(k) * BIP39_WORDLIST_COUNT + Word(k + 1))
                        \div 2^((k + 2) * WORD_BITS - (i + 1) * BITS)) % BYTE
      buf == [i \in 1..((count * WORD_BITS + BITS - 1) \div BITS) |-> CutAt(i - 1)]
      data == SubSeq(buf, 1, (count * GROUP) \div 3)
      rest == 2^(BITS - count \div 3)
  IN  IF /\ \A i \in 1..count : phrase[i] < BIP39_WORDLIST_COUNT
         /\ count \in 1..MAX_WORDS /\ count % 3 = 0
         /\ buf[Len(buf)] \div rest = PhraseHash(data)[1] \div rest
      THEN data ELSE <<>>

BitWBIP39PhraseIsValid(phrase) == BitWBIP39Decode(phrase) # <<>>
BitWBIP39DeriveKey(phrase) == Pbkdf2(phrase, MNEMONIC)
=============================================================================
