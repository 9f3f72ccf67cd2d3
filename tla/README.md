# A verification of privkeytool

privkeytool is an Android application that shows private keys and addresses. It
carries a Bitcoin wallet library in C (a fork of breadwallet-core, in
`src/bitwallet_blockchain/src/main/jni/bitwallet-core`, *core* below), the
libsecp256k1 it signs with (`src/main/secp/secp256k1`), JNI glue
(`jni/transition`), Java wrappers, and small Java tools for Bitcoin Cash and
Ethereum addresses. This directory holds TLA+ models of these parts, the TLC
configurations that check them, and proofs that the TLA+ proof system checks.

    tlc -config MCWallet.cfg MCWallet.tla        model-check an instance
    tlapm WalletProof.tla                        check the proofs of a module

## Inventory

| Component | State | Operations | What makes it correct |
|---|---|---|---|
| wallet (`BitWallet.c`) | the transactions in their order, `allTx`, block heights, two address chains, and, computed from them, unspent outputs, balances, and the sets of spent outputs, invalid and pending transactions and used addresses; `lock` | construction from saved transactions, register, remove (recursive), confirm, reorganise, address generation, queries, callbacks | the computed state agrees with the transactions; nothing spent is offered, nothing received is lost; the application hears of every change |
| building a transaction (`BitWallet.c:544-662`, `1101-1166`) | the locals of a recursive call; reads the wallet under the lock, several times | create, fee for an amount, least and largest amount | the fee pays for the size, no dust, size limit, what was asked for is paid |
| hash set (`BitWSet.c`) | buckets, size, count | add, remove, get, clear, union, minus, intersect, iterate | it is a set: every item is found, however the table was filled, emptied and grown |
| growable array (`BitWArray.h`) | capacity and count in front of the data | add, insert, remove, resize | no access outside of the capacity |
| transaction (`BitWTransaction.c`) | inputs with scripts and signatures, outputs | add, shuffle, sign, digest, size, serialise, parse | what is signed is what a node verifies; parsing inverts serialising; sizes are those of the bytes |
| addresses and scripts (`BitWAddress.c`, `BitWInt.h`) | two static buffers | script elements, pushes, variable integers, address from script and back | a script gives the address that gives the script |
| bloom filter (`BitWBloomFilter.c`) | bits, element count | create, insert, query, parse, serialise | no false negatives |
| merkle block (`BitWMerkleBlock.c`) | header, hashes and flags | parse, walk, proof of work, difficulty | what the tree proves is in the block; the work is that of the target |
| mnemonics (`BitWBIP39Mnemonic.c`), base58 | none | encode, decode | decoding inverts encoding; a wrong checksum is refused |
| keys (`BitWKey.c`, `BitWBIP32Sequence.c`, `BitWBIP38Key.c`) | secret, lazily computed public key | read and write in five formats, derive, encrypt, sign, verify, recover | a key stays the owner of its addresses, however it was written or derived |
| hashes and ciphers (`BitWCrypto.c`) | none | functions on bytes | statistical |
| payment protocol (`BitWPaymentProtocol.c`) | fields known and unknown of eight message types | parse, serialise, sign, verify, encrypt, decrypt | nothing is lost on the way; the digest is what was signed; both sides have one key |
| secp256k1 | numbers in limbs, points, a blinded generator | arithmetic, multiples, ECDSA, recovery | exact results for every operand, special cases included |
| peers (`BitWPeer.c`, `BitWPeerManager.c`) | constants only | none left in this fork | - |
| JNI glue (`transition/wallet.c`, `core.c`, `JNIKey.c`) | one global wallet, one array of saved transactions with a count, one sweep, one key | create, put a saved transaction, queries, sweep, publish, payment requests, keys | the globals are in step with the calls of the application |
| Java wrappers and tools | none | native declarations, formatting, exchange of units | - |
| Bitcoin Cash addresses (`bch/cashaddr`) | none | 8-bit to 5-bit groups, checksum | decoding inverts encoding |
| Ethereum (`eth`) | none | calls into a binary library | - |
| application (`MainActivity.kt`) | a screen | show the keys of a mnemonic | - |

How they interact. The application calls the wrappers, these the glue, and the
glue the wallet through one global pointer and keys through another. Every
public function of the wallet takes `wallet->lock`; long operations release it
between their parts (`BitWalletRegisterTransaction` before it generates
addresses, `BitWalletRemoveTransaction` before each recursion,
`BitWalletCreateTxForOutputs` before it calls itself) and all callbacks run
without it. The wallet's sets are hash sets whose items are pointers to
transactions, outputs and addresses. A transaction the wallet built is signed
with keys that are derived from the seed; these use secp256k1. A light client
sends the wallet's addresses in a filter and hears of transactions in merkle
blocks. Payment requests become outputs of transactions.

What is hard. Transactions arrive in any order, also spends before what they
spend, and conflicting ones; blocks confirm and reorganisations unconfirm them
in place; the balance loop has to give the same answer for any order. Threads
interleave between the locked regions. The glue keeps globals over several calls
of an application that can crash in between. Formats of peers carry lengths
and unknown fields. Arithmetic in limbs and tables is exact except where a
carry or a special case was forgotten, which random tests do not hit. The lists
of `PROJECT.json` under "hazards" say what can go wrong, line by line.

## Modules

    Wallet <- WalletQueries <- JniWallet        ItemSet <= BitWSet
    Bytes <- Scripts <- Transactions            WalletSend
    Bytes <- PaymentProtocol
    Bytes <- BloomFilter, MerkleBlock <- SPV
    Curve <- Ecmult <- Multiples,  FieldLimbs, ScalarLimbs <- Limbs   <- Arithmetic
    Ecmult, Bytes <- Secp256k1, Base58 <- BitWKey <- BIP32, BIP38, Mnemonic <- Keys
    Sums <- WalletSend, JniWallet, Bytes

    Wallet <- JniWallet <- WalletProof
    BitWSet <- BitWSetProof       WalletSend <- WalletSendProof
    Bytes <- BytesProof <- SPVProof -> SPV
             BytesProof <- TransactionsProof -> Transactions
             BytesProof <- PaymentProof -> PaymentProtocol
    Sums <- Numbers <- WalletProof, BitWSetProof, WalletSendProof, BytesProof

(`<-` is extended by, `->` extends, `<=` is implemented by.) Modules named
`MC...` give the constants of an instance; those whose name ends in `Proof`, and
`Numbers`, hold the theorems and lemmas. `Sums` has the sum of a list of amounts.

### Wallet

`Wallet.tla` is the state machine of `BitWallet.c`. A transaction is a constant
with the outputs it spends (`In`) and the addresses it pays (`Out`); addresses
of a chain are given by the constant `Derived`; the amount of a set of outputs
is `Value`, of which only additivity is assumed. State has the names of the
struct's fields; `height` is the `blockHeight` of each transaction; `chain` is
the length of each address chain, of which `allAddrs` is a function. `pc`,
`call` and `todo` are where each thread is in its call; `ub` holds the locals of
`_BitWalletUpdateBalance`. `appTxs` and `appBalance` are what the callbacks have
told the application.

One step is one region of code under the lock, except that the loop of
`_BitWalletUpdateBalance` is one step per transaction (`UpdateInvalid`,
`UpdatePending`, `UpdateAccepted`), in which the caller keeps the lock. A call
that releases the lock in between is several steps with a program counter:
`Register`, the balance loop, `RegisterExternal`, `RegisterInternal`,
`CbBalance`, `CbAdded`; `Remove`, `RemoveDependents` for each level of
recursion, `RemoveOne`, the balance loop, `RemoveNotify`, `CbBalance`,
`CbDeleted`. The recursion of removals is the list `todo` of what is still to be
removed. The constructor (`New` to `NewVerify`) inserts the saved transactions
one by one, generates addresses and ends by freeing the wallet when the first
transaction does not belong to it.

What the code does after it freed a transaction that the list points to is
undefined: `Defined` becomes false, calls stop, and the properties are stated
up to there.

Left out: the clock (a transaction with a time lock in the future is in
`Postdated` for a whole run, as are replaceable, dusty and oversized ones),
timestamps beyond "has it changed", overflow of amounts, memory that is never
freed, and the lookups of `RemoveNotify`, which take the lock one by one and
here are one step.

`WalletQueries.tla` adds what the wallet answers about a transaction: amounts
sent and received, fee, balance after it, whether it is valid, pending,
postdated or verified, and the lists of unconfirmed ones. They read one state.

### WalletSend

`WalletSend.tla` is `BitWalletCreateTxForOutputs`. The wallet is its list of
unspent amounts and the fee rate, which other threads change whenever the lock
is free (`WalletChanges`); that the wallet's balance is the sum of that list is
what `BalanceIsUtxos` proves of `Wallet`. One step picks one coin
(`SelectInput`); the loop ends in `finish`, with the lock held. The recursive
calls `ReduceLastOutput` and `RemoveLastOutput` start over with other outputs:
nothing is done after they return but to pass the result on, so that no stack
is needed. `MadeToFit` says what such a call changes: the last output is left
out, or it alone gets another amount, worth an output, with which the outputs
and the fee are just what the coins picked are worth. A call without outputs fails the assertion at line 581 (`aborted`).
Sizes, fees, the kb and the rounding unit are constants, so that instances are
small. Outputs all have the typical size, and a transaction's counters one byte
(`HEADER`): the two bytes that the 253rd input or output adds are not modelled.

### BitWSet and ItemSet

`ItemSet.tla` is what the header promises: sets in which equal items replace
each other, and the results of the operations. `BitWSet.tla` is the table:
adding, growing bucket by bucket into a new table, removing with its cleanup
bucket by bucket, and the operations on two sets, whose loops call the others.
It implements `ItemSet` under the mapping `Abstract`: a set is what its buckets
hold; while an operation on two sets runs, the set keeps the value it had
before, remembered in `bulk.from`, until the operation ends. The search along
the probe sequence changes nothing and is an operator, `Probe`. No two
arguments of an operation are the same set, as nowhere in the repository.

The comment at `BitWSet.c:30` gives a maximum load factor of 2/3; the limit
`((size + 2)/3)*2` is 6 of 7 and 10 of 13 buckets. What the table needs is
`BucketLeft`, and that holds.

### Transactions

`Bytes.tla` has the integers and lengths of all formats, over bytes of `BYTE`
values, so that each length form occurs in short strings. `Scripts.tla` has script
elements, pushes and the addresses of scripts. `Transactions.tla` is a
transaction from its first input to the network: `AddInput`, `AddOutput`,
`Shuffle`, `Sign` with any keys, coin and fork id, and `Reload`, which writes it
and parses what was written. The digest that is signed is built as
`_BitWTransactionData` builds it (`TransactionData`, which for the fork's digest
is `WitnessData`); what a node verifies is a
definition of its own, translated from how the hash types are documented, and
`SignaturesVerify` and `DigestsMatch` relate the two. A hash mixes its input; a
signature is a mixture of key and digest that only the same pair gives again.

### PaymentProtocol

One codec (`ProtoBufField`, `ProtoBufSet...`, `ProtoBufUnknown`) and eight
message types over it. A message is either written field by field by another
implementation, in any order, with repeated and unknown fields, or created
by the functions of the code. It is parsed, serialised, passed on and parsed
again. A field of length 0 and an absent field differ, as do a default and an
absent one. In the instance, encryption agrees on a key by multiples of a point
of order 13.

A field of a known number and another wire type is read as the code reads it: a
number becomes 0, a script is cleared, other bytes and texts stay as they were.
A message or a public key without bytes, or a key of another length, fails an
assertion of the function it is handed to, and the loop over an output without
bytes never ends (`ParseReturns` says when neither happens). `Abort` is what follows:
the process ends, and nothing is kept. The models are of a build with assertions,
as the `debug` type of `build.gradle` makes it. Where CMake's release flags define
`NDEBUG`, details or a payment without bytes are read as empty ones, a key is copied
from `NULL` or by a length the peer chose, and a compact signature without a secret
has the length 0; that build is not modelled. The
enumerations of the field number 1 of a message have 32 bits. `FieldsAssumption`
leaves out fields that are cut off, whose bytes the code treats as not there.
`CreatedAssumption` says of the messages made here that they are kept as parsing
them would keep them, `LettersAssumption` that
encrypted ones come from `EncryptedMessageNew` with a text that is not empty, and
`CipherAssumption` that a shared secret is the same from both sides, that what was
encrypted can be decrypted and that what was signed is verified.

### BloomFilter, MerkleBlock and SPV

Both components and the client their headers describe: it loads a
filter with some elements, hears headers one after another, over a transition
of the difficulty, and asks for blocks filtered by the peer's copy of the
filter. A block can arrive with one hash or one flag changed, so that hashes are
missing, left over, or equal to their sibling; a header can have a wrong target
or a hash that does not meet it. The caller is not part of this fork: of `SPV`,
the definitions that stand for the functions of the two files are mapped to
them, and the peer is the environment.

### JniWallet

The globals of `transition/wallet.c` over `WalletQueries`: the array of saved
transactions that is filled before the wallet is created and read at creation,
the wallet itself, the sweep, payment requests. `Crash` and restart
empty the globals; what the application stored stays. The application's calls
come one at a time, as its one executor makes them.

### The arithmetic of secp256k1

`Curve.tla` has the addition formulas as the library writes them, the
constant-time one with its selections too. `Ecmult.tla` has the tables of odd
multiples, the signed digits of `wnaf`, and the four algorithms that multiply
(variable time, constant time, the generator with its blinding, one table).
`Multiples.tla` calls them in any order on what the last call left.
`FieldLimbs.tla` and `ScalarLimbs.tla` are the 32-bit representations: words that
wrap, magnitudes, carries, accumulators; `Limbs.tla` calls their functions in any
order. `Arithmetic.tla` puts the two levels side by side. A limb has
few bits and the moduli are of the shape of the library's (a power of two less a
small constant in two limbs; an order whose complement has its highest limb 1).
`Secp256k1.tla` has the interface over them: ECDSA with its nonces and low half,
verification, recovery, serialised keys.

### Keys

`Base58`, `BitWKey`, `BIP32`, `BIP38` and `Mnemonic` are the C files of these
names, as operators. `Keys.tla` composes them as the application does, with a key of a function's
own that holds what was in its memory until it is written (`Unset`): a
phrase of random words, or a key in one of the formats (hexadecimal, wallet
import format, mini key, BIP38 in both kinds), derivation with the whole
seed and from the public master key, signing with the one key that all Java
objects share (`JNIKey.c`), verification and recovery. Signing without a secret fails an
assertion (`BitWKey.c:433`), and the models take no step there.

## Runs

| Run | Shows | Bounds, and why they are enough |
|---|---|---|
| wallet | all sequences of calls of one thread: balance, history, statuses, spends, gaps, callbacks | four transactions (a payment, its spend with change, a replacement of the payment, a height-locked spend of the change) give every relation the code tells apart: parent and child in both orders, conflict, pending by flag, by lock and by parent, non-standard output; one block height besides unconfirmed, chains of 5 and 3 addresses with gap limits 2 and 1 |
| wallet_threads | two threads, interleaved wherever the lock is free; `IInv`, which the proofs need and which contains the type invariant, is an invariant | two transactions, parent and child, the child pending: what races in the code is two calls on the same or on dependent transactions |
| wallet_returns | each call ends, with two levels of dependents | three transactions in a chain, one thread |
| hash_set | refinement of `ItemSet`; `TableSound`: every item found, counts, an empty bucket, iteration; termination | two sets, four items, two of them equal; the hash values collide in the tables of 3 and 7 buckets, wrap around the end of both, and the third item makes a table grow |
| create_tx | `WellBuilt`: fees, dust, size limit, which amounts are those asked for; `MaxSendable`: the largest amount; `MadeToFit`: what becomes of the last output | eight lists of coins and eight requests chosen so that each branch is taken: exact amounts, change at the dust limit, more coins than fit, outputs reduced and dropped; two fee rates |
| transaction | signatures that a node verifies, round trips, truncations, sizes | two inputs of three kinds (to a hash, to a public key, with another sequence number), two outputs, one with a script that is cut off; two keys, compressed and not; all hash types, fork ids and coins; a byte has 16 values, so that a script of 13 bytes takes the longer form of a length |
| payment | fields survive, digests are those signed, both sides decrypt, a changed message is refused | up to three fields of a peer's message, and one more when it is passed on, from sets that hold known fields with values that are empty, zero and neither, a field twice with different values, messages, scripts and keys written as numbers, keys of a wrong length, and unknown fields of all four wire types; created messages with optional fields present and absent. One field decides what a parser does with it and the one it replaces; a third is what an unknown field is sorted against, and one more on the way changes what was read in order before |
| spv | nothing inserted is missed, nothing is proven that is not in the block, work and targets | three elements, filters of up to 3 bytes; blocks of 1 to 6 transactions, also odd ones and ones with repeated transactions; a chain of five headers, a transition with every second, time spans below, within and above the limits |
| jni | statements, confirmations, sweeps, the balance at the fork, over crashes | a payment, its spend and a return; two heights around the fork; two saved transactions in any order and number; sweeps of up to two inputs |
| arithmetic | exact points and exact numbers | five calls in a row; a curve of 31 points over 43 elements, where equal, opposite, infinite and degenerate operands all occur; a field of 2^22 - 67 in limbs of 6 bits with magnitudes up to 8, and scalars modulo 2^12 - 81 in words of 3 bits |
| keys | derivation agrees, each format keeps the key, signatures hold, phrases are encodings | a curve of prime order 32371 over 32719 elements, bytes of 16 values, hashes of 4 bytes; phrases of one and two groups of words with up to one word mistyped; four coins, one for each form of address and of exported text; both chains, one index; mini keys of which one is valid; memory that holds either of two values before it is written. A derivation is a chain of hardened and open steps, and one index on either chain takes each kind of step; the curve is small enough for parities and high halves to vary |
| hex_import | a hexadecimal key is read as another key | the instance of `keys` for ETH alone, whose keys are written in hexadecimal, at two indices; the text of one decodes to the length of a secret before its first 0 |

Each property has a mutant in `PROJECT.json`: a plausible slip in the code that
makes the same run fail. The mutated forms stand next to what they change in
the modules (`SweptInOrder` by `Swept`, and so on).

Deadlock is checked where calls can always be made. Where a run bounds the
number of calls, fields, inputs, headers or steps, it ends there, and the
configuration says `CHECK_DEADLOCK FALSE`.

Fairness. `FairSpec` of `Wallet` and of `BitWSet` says that a call that has
begun goes on; whether the application calls at all is left open. That is what
an operating system gives a thread that is not blocked. Fairness of the mutex is
not assumed: with two threads one could wait for ever, so `CallsReturn` is
checked for one. The other modules are about calls that run to their end in one
step, and state nothing about time.

Magnitudes in `FieldLimbs`: with limbs of 6 bits in words of 10 and 18 there is
less headroom than with 26 in 32 and 64. The limits that the library's comments
state (products up to magnitude 8, sums up to 32) are scaled to what the
narrower words hold, `MAX_MAGNITUDE` and a quarter of it for products; that the
words do not overflow within them is part of `FieldExact`.

### What the run hex_import found

`BitWKeySetPrivKey` (`BitWKey.c:197`) decodes any text as base58 before it
considers hexadecimal. `BitWBase58Decode` stops at the first character that is
no digit and returns what it has: `0` is no digit. A hexadecimal key is
therefore read as base58 up to its first `0`, and when that part happens to
decode to the length of a secret, or of one with a version byte, another key
than the one written is taken, without an error. `KeyKept` is the same statement
for the other formats, and holds.

### What the models show besides

Behaviour that the models have because the code has it, which comments do not
suggest. The properties are stated so that they are true of the code; each item
says where they stop.

- `BitWallet.c:628-651`: when more coins are needed than fit into a transaction,
  the function reduces the last output and calls itself. The fee is rounded by
  what the wallet would have left, which depends on the amount; the amounts of
  the calls can come round again and the recursion does not end. With 1000 coins
  of 100001 satoshis and a payment of 80000000 it is a cycle of four calls. 
- `BitWallet.c:620`: the comment says that the last output is reduced. When the
  coins picked are worth more than outputs and fee, by less than change is worth,
  the difference is negative and the output grows: 32 can be paid where 31 was
  asked for. The last part of `MadeToFit` states this case.
- A confirmed transaction and an earlier, unconfirmed one that spends the same
  coin both count. `NoDoubleSpend` is about transactions of which neither is
  invalid.
- Removing a transaction can leave one listed that no longer pays or spends the
  wallet's addresses; confirming it frees it while it is listed. `Defined`
  becomes false there.
- Coins to addresses generated at the end of a registration are not in the
  balance until something else recomputes it.
- The scan for dependents of a removed transaction trusts the order of the list,
  which confirmations do not keep. Another thread can remove a transaction
  before its `txAdded` callback runs.
- `BitWTransaction.c:96`: the address of an input's script is always written with
  Bitcoin's version bytes, whatever the coin. `:134`: the fork's digest leaves
  out an amount of 0. `:547`: signing signs inputs that have a signature again.
- `BitWAddress.c:379`: an address is returned in a static buffer.
- `BitWPaymentProtocol.c:190-198`: an unknown field whose key is larger than those
  kept so far is inserted before the last of them, so that the list is not sorted
  and a key can stand in it twice: after b, c and another b, where b < c, the older
  b is still there, behind c. If a field a < b follows, the older value replaces the
  newer one when the message is passed on and parsed again. Two unknown fields
  change places whenever they are passed on, within nested messages too: the digest
  of a request whose details have two is not that of the bytes that were signed.
  `DetailsNew` does not count
  its outputs; a message without a signature and one with an empty signature
  have one digest; what an encrypted message binds omits a status that has
  its default.
- `BitWPaymentProtocol.c:305`: a script written as a number clears the script read
  before it, and the output is refused. `:412`: an output written as a number is
  handed to its parser without bytes and with a length, and the loop there never
  ends, as no field is found and the offset stays. `:550` and `:854` fail an
  assertion for details or a payment written so, and `:967` and `:1312-1313` for a
  public key that is, or that has another length than 33 or 65.
- `BitWMerkleBlock.c:241-245`: equal branches in the right half of a tree give no
  hash, which the level above takes for a missing branch: it uses the left half
  twice instead of refusing the tree.
- `wallet.c:330` stores a transaction behind the end of the array when more are
  put than announced; `:269` ends the process when no wallet was created; `:191`
  passes one argument of three to Java; `:914` raises the balance of a sweep before
  the input is refused; `:943` adds another output with each call, and the amount
  of the first wraps when the fee is larger than the balance; `:702` and `:1269`
  pass arguments in another order than they are declared.
- `BitWBIP32Sequence.c:69` ignores an addition that failed. `BitWBIP38Key.c`
  leaves the secret unwritten for an unknown prefix. The callers of
  `BitWKeySetPrivKey` in the glue ignore that it failed, and what the shared key
  then signs with is the last key. `BitWKey.c:274-478` use `_ctx` without
  `pthread_once` in functions that can come first.

## Proofs

The proofs hold for every value of the constants that satisfies the assumptions
of the modules, which TLC evaluates on each instance. A theorem with a further
hypothesis names it, and this section says why it is needed and where it holds.
The inductive invariants were first checked by TLC: `IInv` of `Wallet` by
`wallet_threads`, that of `BitWSet` as a part of `TableSound`, `SendInv` as a
part of `WellBuilt`, and `Alone`, `JniInv`, `SweepInv`, `LightInv` and `Inv` on the
instances of `wallet`, `jni`, `spv` and `payment`, outside of the listed runs.
`DueInv` and the `IInv` of `TransactionsProof` speak of all numbers and strings and
are beyond its enumeration; they are only proved.

    for m in Numbers WalletProof BitWSetProof WalletSendProof BytesProof \
             SPVProof TransactionsProof PaymentProof; do tlapm $m.tla; done

### The wallet (`WalletProof`)

`TypeCorrect` (`TypeOK` is the first conjunct of `IInv`, which a run checks),
`HistoryStaysAligned`, `BalanceStaysUtxos`, `NothingSpentOffered`,
`NothingSpentTwice`, `StatusStaysCurrent`, `NoCoinGetsLost`: the invariants of
the same content that the runs check. They follow from `Invariance`: `IInv` is
invariant, for any number of threads.

`IInv` is needed because the properties speak of the wallet between calls, and
nothing follows from that for the middle of the balance loop. It says: which
thread holds the lock, and in what phase (`Control`); no transaction is listed
twice (`ListedOnce`, without which removing one would leave another behind);
and, for the part of the list that the loop has been through, that the balance
is the value of the unspent outputs, that the history has one entry for each,
that inputs of what is not invalid are among the spent outputs and never among
the unspent ones, and that conflicts were seen (`Accounted`), and that no coin
was dropped without a spend (`CoinsKept`). Outside of the loop the part is the
whole list. The proof goes action by action for each conjunct: actions outside
of the loop keep the sums or begin the loop, the three kinds of turn extend the
part by one transaction. The amounts are handled by additivity alone.

### What the application hears (`WalletProof`)

`CallbacksStayComplete` and `GapStaysRestored` hold while a single thread uses
the wallet, `Thread = {q}`. That is a hypothesis and not a convenience: with two
threads one can remove the transaction the other is registering before its
callback has run. Of the invariant, `CallAt` says which call a program counter
belongs to, `Told` that the application knows the list but for the transaction
under way (a removal that starts with its dependents changes the list several
times and tells of each), and `GapsFilled` that a registration has filled the
external gap when it comes to the internal one. `GapStaysRestored` needs
`ChainsLastOut` too: the master key derives more addresses than transactions
ever pay. At the end of the derivable indices the code stops without a gap.
`MCWallet` evaluates it on its instance.

### The wallet in the application (`WalletProof`)

`JniInvariance`: the wallet's invariant and what loading it from stored
transactions adds outlive a crash and a restart. The additions are: transactions
are sorted by height, as the constructor sorts them and nothing registers
another; every chain already ends in a full gap (`ChainsSettled`), so that the
queries that ask for unused addresses change nothing; and the balance after each
confirmed transaction is the value of what was received by then and not spent by then
(`PastStays`). From it: `VerifiedAlwaysCounts`, `StatementAlwaysAddsUp`,
`ForkBalanceStaysHistory`. The last is about the balance at the fork, which the
glue computes from a list of its own: it is the value of the same coins because
what is before the fork in the list is a beginning of it.

The queries about a transaction's status follow its inputs recursively. That
such a query has an answer is not proved by induction but as a fixed point: the
set of transactions for which it is true is the least one that is closed under
the rule, and that exists whether or not inputs lead back to where they came
from (`FixedPoint`).

`VerifiedCounts` says of the transactions that a verified one spends from that
they count only while it is unconfirmed. For a confirmed one the loop skips the
check of its inputs, and a confirmed child may spend from a pending parent.

`SweepAlwaysPaysInputs` says that a sweep pays out its inputs less the fee; the
invariant is that the balance is the sum of the inputs modulo the width of a
word, and that all outputs but the first are 0. It assumes `SweepsFit`: the
coins of a sweep fit a word, as the 21 million coins there are do. `MCJniWallet`
evaluates it.

### The hash set (`BitWSetProof`)

`SetSound` is `TableSound` for any items, keys, hash values and table sizes; and
`SetImplementsItems` is the refinement, `Spec => Abstract!Spec`. `IInv` has the
invariant of open addressing: between the bucket of an item's hash and its own
there is no empty one (`NoGap`). A removal breaks it, and the cleanup that
follows restores it bucket by bucket: `GapsMended` says that each gap that is
left is one the cleanup has still to come to, by way of filled buckets only. A
growth moves the items one by one into a table that has room for all of them. In
the refinement the start of an operation on two sets has to be a step of the
abstract sets or none: it returns nothing and changes nothing, as a `Get` of an
item that is not there does, or an `Intersect` of full sets; its effect happens
in its last step. That every operation ends is liveness, and is checked.

### Building a transaction (`WalletSendProof`)

`AlwaysWellBuilt`, `MaxStaysSendable` and `AlwaysMadeToFit` are the run's
properties for any coins, fee rates, sizes and requests. `SendInv` is what the
locals have to do with each other while the lock is held: the coins picked are a
beginning of the list and worth `balance`, the fee is that for their number, the
loop would have stopped had they been enough before the last. It survives the
function's calls to itself because those start over. A part of it is that all
outputs but the last are as they were asked for (`OthersAsAsked`). `MadeToFit` is
about the steps in which the function calls itself. That the last output is not
raised by more than change is worth is because the loop would have stopped before,
or ended with a result; that it stays worth an output is the test before the call.

`SubtractionsExact`: the code subtracts unsigned amounts, the model integers. With
words of any number of values `M`, if outputs, fee and coins fit in, each
subtraction gives the number it means. For two of the three nothing is negative.
In the third, `outputs[last] - (amount + feeAmount - balance)` at line 620, the inner
difference can be, and wraps around; taking it off wraps back.

### Bytes and the light client (`BytesProof`, `SPVProof`)

`VarIntRoundTrip`: the integers in front of every list are read as written, in
whichever of the four forms; with the lemmas on little-endian numbers it holds
for any number of values of a byte and any widths.

`FilterRoundTrip`, `PeerAlwaysMatches`: a peer has the wallet's filter, and an
inserted element stays in it, whatever is inserted later. `NothingIsMissed` is
`FoundAll` for blocks and trees of any size. Its argument: flags and hashes of a
subtree stand together in what was sent; if the walk starts a subtree where its
flags and hashes begin, it ends where they end, having found what the filter
matches among its leaves (`WalkPart`, by induction on the height). The walk has
no notion of a missing right branch: it tries one there as well, and that the try
has no effect is because a node without a right branch is the last of its height,
so that all hashes are used up (`BranchReady`, the third part of `Ready`).

`WorkAlwaysReal`: the comparison of bytes from the highest, with bytes that are
put together from mantissa and size, compares the numbers, also for sizes of 0
to 2 whose mantissa is shifted out, and `TooEasy` compares the values because the
mantissa of an accepted block has no sign bit.

`TargetsAlwaysDefined`: the target after a transition is the old one times the
time that passed over the timespan, limited to a quarter and to four times, and
less than a unit of the last place of its mantissa is lost, whatever the
timestamps. The code multiplies the mantissa by the time, divides by the
timespan over 256, counts the size down for that, and shifts the mantissa until
it fits; that the bits which leave are the lowest ones and that the comparison
with the limit is one of the values is what the lemmas on `ScaledTarget` say.
`DueInv` adds to `LightInv` that every target is normal (its mantissa has no
sign bit, and it is within the limit) and that each follows from the blocks
before it. The theorem assumes `TimesFit`: the clock is below 2^31 seconds, that is before
2038. After that a difference of timestamps does not fit the `int` that the code
keeps it in (`BitWMerkleBlock.c:333`), is negative, and is limited to a quarter
of the timespan where four times would be right. `MCSPV` evaluates `TimesFit`.

The theorems on blocks assume `HashesFit`: a hash has the length and the bytes of a hash.
`LightInv`, the invariant behind them, says that the filters hold what was
inserted, the chain's blocks passed the checks, and the last merkle block counts
the transactions of its block. Damage on the way is in the model: nothing is
assumed about `Sha256d` beyond its range, so that `WorkAlwaysReal` and
`LightInvariance` are about any block that arrives.

### Transactions (`TransactionsProof`)

The five invariants of the run `transaction`, for scripts, amounts and numbers
of inputs and outputs of any size, and for every hash type:
`DigestsAlwaysMatch`, `SignaturesAlwaysVerify`, `AlwaysReadBack`, `AlwaysRefused`
and `SizeAlwaysRight`. They follow from `SigningInvariance`: `IInv` is invariant.

`IInv` is needed because the properties speak of a transaction that is signed,
and what a signature is worth depends on how the transaction came to be. It says
that every field fits the width it is written with and every count and length a
variable integer (`Fits`); that no scriptSig is one that could receive coins,
or the parser would take it for the script of an unsigned input
(`SignaturesPayNothing`); that an output has the address of its script; that the
signature of an input whose script is known was made by a key that the script
pays, over the transaction as it is now (`SignedByPayee`: signing leaves alone
what is signed, for all other inputs too, so that it does not matter in which
order and how often inputs are signed); and that a signed transaction has the
hash of its bytes.

- A digest: the code writes what is signed in one function for all cases, with
  inputs and outputs left out or emptied as it goes along; the protocol strikes
  them out first and writes the result. `Digest` is the second; `LegacyMatches`
  and `Bip143Matches` say that they give the same bytes, part by part.
- A signature: the scriptSig is one or two pushes of fewer than `OP_PUSHDATA1`
  bytes. That walking over the elements finds the signature in the first and the
  key in the second, and that the address of the key is the one paid, is
  `SignatureRead`.
- Reading back: the parser computes where each input begins from the lengths it
  reads. On the bytes that were written these are the sums of the lengths that
  were written (`Stands` and the lemmas on it: what stands where in a string of
  bytes), so that each field is read from where it was put.
- A prefix: each offset the parser computes is the one it would compute on the
  whole, or it is behind the end; in the second case the offsets after it are
  too, and the parser gives up. So it cannot end before the last byte.
- The size: a sum of lengths on both sides. The estimate is not below it if what
  an input takes is not above `TX_INPUT_SIZE`.

The theorems assume `PrimitivesFit`: hashes have their length, and a signature
with its hash type is pushed by one byte (`SignaturesFit`; of the code 73 bytes
at most, where 75 are possible). `SizeAlwaysRight` assumes `EstimateFits` too:
the estimate has room for a signature with its hash type and a compressed key.
148 has for 32 + 8 + 1 bytes, 1 + 72 of a signature with its hash type, and
1 + 33 of a key; a DER signature whose s is in the lower half, as libsecp256k1
makes it, takes at most 71. `MCTransactions` evaluates both for its keys. Of the
opcodes it is assumed that they have a byte each, above the lengths that are
pushed by themselves; of the hash types, that the low bits lie below the two
flags; of version bytes, that they are bytes.

### Payment messages (`PaymentProof`)

`AlwaysAsWritten`, `AlwaysRelayed` and `DigestAlwaysAsSigned` are three of the
run's invariants, and `BothSidesAlwaysAgree` is the first half of the fourth: for
bytes of any number of values, any fields and numbers of fields, and any number
of hops. They follow from `PaymentInvariance`: `Inv` is invariant. It says that
what stands on the wire is, byte by byte, what was serialised last and the fields
written behind it; that a message that was parsed is what those bytes are read
as; and that every message, created, received or passed on, is such that
what it holds is read back (`Made`: its values fit their kinds, and each
message within it is a fixed point of being parsed and serialised). Without the
last the properties would hold of the first hop only.

- The codec: a list of fields that is written is read as that list
  (`WrittenBack`). A number of any size is read from the bytes its digits were put
  into, since the first byte below the mark is the last one; each field ends where
  the next begins.
- Reading fields into a message goes by their order. Per number only the fields
  with that number matter, and of them, by its kind, the last or all
  (`ValueStored`); per unknown key the last value is always kept, whatever
  place it is given (`UnknownKept`). That is `AlwaysAsWritten`. A field of another
  wire type is one of the fields: a number of that number is 0 after it, a script
  is none, so that the output is refused, and a text or bytes are as if it were
  not there. Of public keys the last one given counts, as parsing does not return
  from one that is not given as bytes.
- What `Serialized` writes are the known fields in the order of their numbers, and
  then the unknown ones (`Whereof`); reading those gives the same
  known fields and, of the unknown ones, each key (`Relayed`). Parsing returns from
  them (`RelayReturns`): messages and keys are written as bytes, keys in one of
  their two lengths.
- Messages within messages are parsed and serialised where they stand. What that
  gives is parsed and serialised to itself if there is at most one unknown field
  (`OutputStays`, `DetailsStay`, `PaymentStays`), which is where
  `RelayKeepsFields` asks for it.
- A request whose fields came in rising order is serialised to the fields that
  came (`KnownOrdered`): two lists of fields with rising numbers and the same
  members are the same list. The signature's field emptied on both sides, the
  bytes that are hashed are those that were signed.
- Both keys of an encrypted message give one secret, whichever side made it and
  whichever private key is at hand (`SecretIs`); it has no message within it and no
  unknown field, and so it arrives as it was sent.

### How

`Numbers` stands in for the induction theorems of the library, which take an
operator as a parameter: `Least` (a set of natural numbers has a least element),
`AllUpTo` (a set that holds 0 and is closed under successors holds all), and
`RecursionTo` and `RecursionDown`, which show that a function that is defined by
recursion exists and satisfies its equations. With these, recursive functions of
the models are within reach; `RECURSIVE` operators are not.

### Only model-checked

- Liveness: `CallsReturn`, `OperationsEnd`.
- `ProvenInBlock`: it needs that hashes do not collide. As an assumption about
  every pair of inputs that is false of any function to hashes of one length, and
  a theorem from it would say nothing.
- `ChangesRefused`, the second half of `BothSidesDecrypt`: that a changed message
  is refused needs a hash and a signature that are different for different
  messages, the same false assumption.
- The multiples, limbs and keys, whose modules use `RECURSIVE` operators and
  modular arithmetic.

## Plan

Done: the wallet, its queries and the glue, building a transaction, the hash set,
the light client, signing and writing transactions, and payment messages, with
proofs; keys and their formats; the arithmetic of the 32-bit secp256k1.

Next, in this order:

1. Proofs about the limbs: additions, normalisation and comparison are exact.
2. The Bitcoin Cash address codec next to `Base58`, `BitWArray`'s capacity, and
   an abstract ledger that `Wallet` implements when no call is under way.
3. BitID keys, intermediate BIP38 codes, `encryptNative`.

## Not modelled

- Hashes are mixtures of their input and ciphers permutations under a key: their
  properties are statistical. Key stretching is a hash. One passphrase stands
  for all: a wrong one is caught by a checksum, with a probability only.
- Of secp256k1: 64-bit limbs, the endomorphism, Schnorr signatures and the
  assembler, which the build does not use: `basic-config.h:28-29` selects the
  10x26 and 8x32 representations on every platform.
- The BitID key, extended keys in serialised form, intermediate BIP38 codes,
  `encryptNative` and `decryptNative`.
- `MnemonicCode.java`, a second implementation of the phrases that no code here
  calls; the growable array's macros; the Bitcoin Cash address formatter.
- Numbers of a fixed width where the bytes of a peer are parsed: lengths near
  2^32, with which `off + length` wraps around in 32 bits (armeabi-v7a), and counts
  that are allocated before they are checked (`BitWTransaction.c:392-436`,
  `BitWMerkleBlock.c:112-122`). A wrong length that does not wrap is refused, in the
  code as in the model.
- What lies outside of a buffer: hashes or flags of a merkle block that are cut off
  leave their count without bytes, which later are read through `NULL`; a target
  with a size of 32 or more writes behind its 32 bytes before it is refused
  (`BitWMerkleBlock.c:277`); the texts `JNIKey.c:41` and `wallet.c:1091` pass to C
  functions are Java arrays without a terminator. In the models a merkle block
  arrives whole and a text ends where it ends.
- Network code, which is not part of this fork; Ethereum, whose library is a
  binary; the Android screens, which have no state that can go wrong.

The components of `PROJECT.json` list the reasons one by one.
