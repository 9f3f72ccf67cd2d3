----------------------------- MODULE JniWallet -----------------------------
(***************************************************************************)
(* The wallet as the Java application sees it through transition/wallet.c: *)
(* the globals of that file (_wallet, _transactions, _privKeyTx and their  *)
(* counters), how an application loads its stored transactions into them,  *)
(* and what it is told.  The wallet behind _wallet is that of module       *)
(* Wallet; this build registers no transactions with it, so that all of    *)
(* them come from the constructor.                                         *)
(*                                                                         *)
(* The Java code calls from one thread at a time.  A step is one call,     *)
(* except for createWallet, whose constructor goes on step by step.        *)
(* Assertions are enabled: one that fails, like any access to memory that  *)
(* is not there, ends the process, and the application starts again.       *)
(***************************************************************************)
EXTENDS WalletQueries, FiniteSets, Sums

CONSTANTS
  NoArray, Null,      \* NULL for the array and for one of its entries
  NoSweep,            \* NULL for _privKeyTx
  MaxCount,           \* bound on the entries of the array
  SweepInputs,        \* inputs a sweep may have: their amount and address
  MaxSweep,           \* bound on the inputs of a sweep
  TxFee(_, _),        \* BitWalletFeeForTxSize of a transaction with so many
                      \* inputs and outputs
  WORD,               \* 2^64
  BCASH_FORKHEIGHT,
  Requests,           \* payment requests: their length, what they contain
  MAX_REQUEST         \* 50000, their largest length

ASSUME JniAssumption ==
  /\ {MaxCount, MaxSweep, WORD, MAX_REQUEST} \subseteq Nat \ {0}
  /\ BCASH_FORKHEIGHT \in Heights
  /\ \A u \in SweepInputs : u.amount \in Nat
  /\ \A m \in 0..MaxSweep, n \in 1..MaxSweep : TxFee(m, n) \in Nat

VARIABLES
  txArray,       \* _transactions
  counter,       \* _transactionsCounter
  sweepTx,       \* _privKeyTx: its inputs, and the amounts of its outputs
  sweepBalance,  \* _privKeyBalance
  crashed,       \* the process has ended
  given          \* the amount and the fee of the sweep that was just given

globals == <<txArray, counter, sweepTx, sweepBalance>>
jniVars == <<vars, globals, crashed, given>>

Nothing == [amount |-> 0, fee |-> 0]

JniInit ==
  /\ Init
  /\ txArray = NoArray
  /\ counter = 0
  /\ sweepTx = NoSweep
  /\ sweepBalance = 0
  /\ crashed = FALSE
  /\ given = Nothing

(* No call is under way.                                                   *)
Quiet == ~crashed /\ \A p \in Thread : pc[p] = "idle"
Created == phase = "ready"
Returned == given' = Nothing /\ UNCHANGED crashed
Crash == crashed' = TRUE /\ given' = Nothing /\ UNCHANGED <<vars, globals>>

-----------------------------------------------------------------------------
(* Loading the stored transactions.                                        *)

CreateTxArrayWithCount(n) ==
  /\ Quiet
  /\ txArray' = [i \in 1..n |-> Null]
  /\ counter' = 0
  /\ Returned
  /\ UNCHANGED <<vars, sweepTx, sweepBalance>>

(* Stored transaction t, at block height h, goes to the next entry, which  *)
(* nothing compares with their number.                                     *)
PutTransaction(t, h) ==
  /\ Quiet
  /\ txArray # NoArray
  /\ IF counter < Len(txArray)
     THEN /\ txArray' = [txArray EXCEPT ![counter + 1] = [tx |-> t, height |-> h]]
          /\ counter' = counter + 1
          /\ Returned
          /\ UNCHANGED <<vars, sweepTx, sweepBalance>>
     ELSE Crash

(* The constructor takes the first n entries; of two for one transaction   *)
(* it uses the first.  The array is freed after it.                        *)
NewFromArray(p, n) ==
  LET first(t) == CHOOSE i \in 1..n :
                    txArray[i].tx = t /\ \A j \in 1..(i - 1) : txArray[j].tx # t
  IN /\ New(p, [i \in 1..n |-> txArray[i].tx],
            [t \in Tx |-> IF \E i \in 1..n : txArray[i].tx = t
                          THEN txArray[first(t)].height ELSE TX_UNCONFIRMED])
     /\ txArray' = NoArray
     /\ counter' = 0

CreateWallet(p, n) ==
  /\ Quiet
  /\ ~Created
  /\ CASE txArray = NoArray \/ n = 0 ->
            /\ New(p, <<>>, [t \in Tx |-> TX_UNCONFIRMED])
            /\ UNCHANGED globals
            /\ Returned
       [] txArray # NoArray /\ n \in 1..Len(txArray)
            /\ \A i \in 1..n : txArray[i] # Null ->
            /\ NewFromArray(p, n)
            /\ UNCHANGED <<sweepTx, sweepBalance>>
            /\ Returned
       [] OTHER -> Crash

Construct(p) ==
  /\ NewTx(p) \/ NewAddrs(p) \/ UpdateStep(p)
  /\ UNCHANGED <<globals, crashed, given>>

(* The constructor returns.  BitWalletSetCallbacks does not survive the    *)
(* NULL of a wallet whose transactions belong to another key.              *)
WalletCreated(p) ==
  /\ NewVerify(p)
  /\ crashed' = (phase' # "ready")
  /\ given' = Nothing
  /\ UNCHANGED globals

WalletFreeEverything(p) ==
  /\ Quiet
  /\ IF Created THEN Free(p) ELSE UNCHANGED vars
  /\ txArray' = NoArray
  /\ Returned
  /\ UNCHANGED <<counter, sweepTx, sweepBalance>>

Restart ==
  /\ crashed
  /\ pc' = [p \in Thread |-> "idle"]
  /\ call' = [p \in Thread |-> NoCall]
  /\ todo' = [p \in Thread |-> <<>>]
  /\ FreeWallet
  /\ txArray' = NoArray /\ counter' = 0
  /\ sweepTx' = NoSweep /\ sweepBalance' = 0
  /\ crashed' = FALSE /\ given' = Nothing

-----------------------------------------------------------------------------
(* What the application is told about its wallet.                          *)

(* The TxItem of a transaction: the addresses of a sent one are those of   *)
(* others, the addresses of a received one the wallet's own.               *)
TxItem(t) ==
  LET sent == AmountSentByTx(t)
      shown == {u \in Outputs : u.hash = t /\ (sent > 0) # (Out[t][u.n] \in AllAddrs)}
  IN [tx |-> t, valid |-> TransactionIsValid(t, height[t]),
      sent |-> sent, received |-> AmountReceivedFromTx(t), fee |-> FeeForTx(t),
      to |-> {Out[t][u.n] : u \in shown}, balanceAfter |-> BalanceAfterTx(t)]

(* getTransactions: the newest transaction comes first.                    *)
TxItems == [i \in DOMAIN Transactions(Len(transactions)) |->
              TxItem(transactions[Len(transactions) + 1 - i])]

TransactionVerified(t) ==
  Created /\ TransactionForHash(t) = t /\ TransactionIsVerified(t)
NativeBalance == IF Created THEN balance ELSE -1

-----------------------------------------------------------------------------
(* Sweeping a private key: the application collects the unspent outputs of *)
(* its address and is given a transaction that pays them to the wallet.    *)

SweepSum == Total([i \in DOMAIN sweepTx.ins |-> sweepTx.ins[i].amount])

(* Mutated form: the balance of the sweep before is kept.                  *)
NewSweepOnly ==
  /\ Quiet
  /\ sweepTx' = [ins |-> <<>>, outs |-> <<>>]
  /\ Returned
  /\ UNCHANGED <<vars, txArray, counter, sweepBalance>>

CreateInputArray ==
  /\ Quiet
  /\ sweepTx' = [ins |-> <<>>, outs |-> <<>>]
  /\ sweepBalance' = 0
  /\ Returned
  /\ UNCHANGED <<vars, txArray, counter>>

(* The balance counts an input even if there is no transaction for it.     *)
AddInputToPrivKeyTx(input) ==
  /\ Quiet
  /\ IF sweepTx = NoSweep THEN sweepBalance < MaxSweep
     ELSE Len(sweepTx.ins) < MaxSweep
  /\ sweepBalance' = (sweepBalance + input.amount) % WORD
  /\ sweepTx' = IF sweepTx = NoSweep THEN NoSweep
                ELSE [sweepTx EXCEPT !.ins = Append(@, input)]
  /\ Returned
  /\ UNCHANGED <<vars, txArray, counter>>

(* The amount goes to the first output.  Every call adds another one, and  *)
(* a balance below the fee wraps around.                                   *)
GetPrivKeyObject(p) ==
  /\ Quiet
  /\ sweepTx # NoSweep
  /\ Len(sweepTx.outs) < MaxSweep
  /\ IF Created
     THEN LET fee == TxFee(Len(sweepTx.ins), Len(sweepTx.outs) + 1)
              amount == (sweepBalance - fee) % WORD
          IN /\ GetUnusedAddrs(p, "external", 1)
             /\ sweepTx' = [sweepTx EXCEPT !.outs = [Append(@, 0) EXCEPT ![1] = amount]]
             /\ given' = [amount |-> amount, fee |-> fee]
             /\ UNCHANGED crashed
             /\ UNCHANGED <<txArray, counter, sweepBalance>>
     ELSE Crash

-----------------------------------------------------------------------------
(* The wallet as it was before the bitcoin cash fork.                      *)

(* A second wallet is made of the transactions before the fork.  Their     *)
(* addresses are those it generates itself.                                *)
ForkTransactions ==
  Transactions(Len(transactions) - Len(TxUnconfirmedBefore(BCASH_FORKHEIGHT)))

ForkAddrs ==
  LET used == UNION {OutAddrs(t) : t \in Range(ForkTransactions)}
  IN UNION {AddrsOf(c, Extended(c, 0, GapLimit[c], used)) : c \in Chain}

ForkBalance ==
  LET own == {u \in Outputs : /\ u.hash \in Range(ForkTransactions)
                              /\ Out[u.hash][u.n] \in ForkAddrs}
  IN Value[own \ UNION {In[t] : t \in Range(ForkTransactions)}]

(* Their first transaction has to be the second wallet's.                  *)
ForkWalletIsNull ==
  /\ ForkTransactions # <<>>
  /\ LET t == Head(ForkTransactions)
     IN /\ Range(Out[t]) \cap ForkAddrs = {}
        /\ \A u \in In[t] \cap Outputs :
             u.hash \in Range(ForkTransactions) => Out[u.hash][u.n] \notin ForkAddrs

(* It tells ForkBalance, unless there is no wallet to ask.                 *)
GetBCashBalance ==
  /\ Quiet
  /\ IF Created /\ ~ForkWalletIsNull
     THEN Returned /\ UNCHANGED <<vars, globals>>
     ELSE Crash

(* The second wallet frees the transactions of the first, and then signing *)
(* is called with the fork id in the place of the transaction.             *)
SweepBCash == Quiet /\ Created /\ Crash

(* publishSerializedTransaction gives 0 for the transaction to be signed.  *)
PublishSerializedTransaction == Quiet /\ Crash

-----------------------------------------------------------------------------
(* Signing: a wallet without transactions signs, so that only the first    *)
(* addresses of each chain are known; and only if toAddress is paid.       *)
SignTransaction(addrs, outs, toAddress) ==
  LET known == UNION {AddrsOf(c, Extended(c, 0, GapLimit[c], {})) : c \in Chain}
      signed == IF toAddress \in Range(outs) THEN SignsInputs(addrs, known) ELSE {}
  IN /\ Quiet
     /\ IF signed = DOMAIN addrs
        THEN Returned /\ UNCHANGED <<vars, globals>>
        ELSE Crash

(* A payment request, and the error it is answered with.  The transaction  *)
(* that pays it spends coins, has a fee and keeps the change, if any.      *)
RequestError(r, coins, fee) ==
  LET asked == Total([i \in DOMAIN r.outs |-> r.outs[i].amount])
      others == {i \in DOMAIN r.outs : r.outs[i].addr \notin AllAddrs}
  IN CASE r.length > MAX_REQUEST -> 4
       [] r.length <= MAX_REQUEST /\ ~r.parses -> 7
       [] r.length <= MAX_REQUEST /\ r.parses /\ r.network # "main" -> 3
       [] OTHER -> CASE Value[coins] < asked + fee -> 1
                     [] Value[coins] >= asked + fee /\ others # DOMAIN r.outs -> 5
                     [] OTHER -> 0

ParsePaymentRequest(p, r) ==
  /\ Quiet
  /\ IF Created \/ r.length > MAX_REQUEST \/ ~r.parses \/ r.network # "main"
     THEN \E coins \in SUBSET utxos :
            LET error == RequestError(r, coins, TxFee(Cardinality(coins), Len(r.outs)))
            IN /\ error \in {0, 5} \/ coins = utxos
               /\ IF error \in {3, 4, 7} THEN UNCHANGED vars
                  ELSE GetUnusedAddrs(p, "external", 1)
               /\ Returned
               /\ UNCHANGED globals
     ELSE Crash

-----------------------------------------------------------------------------
JniNext ==
  \/ \E n \in 0..MaxCount : CreateTxArrayWithCount(n)
  \/ \E t \in Tx, h \in Heights \cup {TX_UNCONFIRMED} : PutTransaction(t, h)
  \/ \E p \in Thread :
       \/ \E n \in 0..MaxCount : CreateWallet(p, n)
       \/ Construct(p)
       \/ WalletCreated(p)
       \/ WalletFreeEverything(p)
       \/ GetPrivKeyObject(p)
       \/ \E r \in Requests : ParsePaymentRequest(p, r)
  \/ Restart
  \/ CreateInputArray
  \/ \E input \in SweepInputs : AddInputToPrivKeyTx(input)
  \/ GetBCashBalance
  \/ SweepBCash
  \/ PublishSerializedTransaction
  \/ \E t \in Tx, addr \in Range(Derived["internal"]), to \in Range(Derived["external"]) :
       SignTransaction(<<addr>>, Out[t], to)

JniSpec == JniInit /\ [][JniNext]_jniVars

-----------------------------------------------------------------------------
(* Properties.                                                             *)

(* The history the application shows adds up to the balance it shows: when *)
(* every transaction counts and no output is spent twice, what the items   *)
(* received is what they sent and the balance, and the newest item ends    *)
(* with the balance.  The items are computed one by one, the balance by    *)
(* the loop over the whole wallet.                                         *)
StatementAddsUp ==
  /\ Unlocked
  /\ invalidTx = {} /\ pendingTx = {}
  /\ \A s, t \in Listed : s # t => In[s] \cap In[t] = {}
  => LET items == TxItems
     IN /\ Total([i \in DOMAIN items |-> items[i].received]) =
             Total([i \in DOMAIN items |-> items[i].sent]) + NativeBalance
        /\ items # <<>> => items[1].balanceAfter = NativeBalance

(* A transaction reported as verified is one whose amount is part of the   *)
(* balance, and while it is unconfirmed so are all the transactions of the *)
(* wallet it spends from: the query visits ancestors, the balance loop     *)
(* goes by what it saw first.                                              *)
VerifiedCounts ==
  Unlocked =>
    \A t \in Listed :
      TransactionVerified(t) =>
        /\ t \in Accepted
        /\ Unconfirmed(t) => Listed \cap {u.hash : u \in In[t]} \subseteq Accepted

(* The transaction the application is given for a sweep pays out all of    *)
(* its inputs but the fee, however often it was asked for and whatever was *)
(* collected for a sweep before; unless the fee is more than there is.     *)
SweepPaysInputs ==
  sweepTx # NoSweep =>
    /\ sweepBalance = SweepSum % WORD
    /\ given # Nothing /\ given.fee <= SweepSum =>
         Total(sweepTx.outs) = given.amount /\ given.amount + given.fee = SweepSum

(* The bitcoin cash of the wallet is the balance after the last of its     *)
(* transactions from before the fork, as long as the wallet before the     *)
(* fork had the same addresses.                                            *)
ForkBalanceIsHistory ==
  Unlocked /\ ForkAddrs = AllAddrs =>
    LET before == {t \in Listed : height[t] < BCASH_FORKHEIGHT}
    IN ForkBalance = IF before = {} THEN 0 ELSE balanceHist[Cardinality(before)]

-----------------------------------------------------------------------------
(* The inductive invariant.  The wallet is as the constructor made it.     *)

(* The array and what it holds.                                            *)
Entry == [tx : Tx, height : Heights \cup {TX_UNCONFIRMED}]
ArrayType ==
  /\ txArray # NoArray => txArray \in Seq(Entry \cup {Null})
  /\ counter \in Nat

(* Only the constructor's code runs, and no transaction leaves or joins    *)
(* the list but with the wallet.                                           *)
OnlyLoaded ==
  /\ \A p \in Thread : pc[p] \in Locking \cup {"idle"}
  /\ \A p \in Thread : pc[p] = "update" => call[p].op = "new"
  /\ allTx = Listed
  /\ blockHeight = 0

SortedByHeight ==
  \A i, j \in 1..Len(transactions) :
    i < j => height[transactions[i]] <= height[transactions[j]]

(* Every chain ends in a full gap, or where no address can be derived: an  *)
(* unused address is always there already.                                 *)
ListedAddrs == UNION {OutAddrs(t) : t \in Listed}
ChainsSettled ==
  /\ \A c \in Chain : chain[c] <= Len(Derived[c])
  /\ Loading => usedAddrs = ListedAddrs
  /\ ~Loading => usedAddrs \subseteq ListedAddrs
  /\ phase # "none" /\ ~Loading =>
       \A c \in Chain :
         chain[c] = Len(Derived[c]) \/ HasGap(c, chain[c], GapLimit[c], ListedAddrs)

(* No coin gets lost, and the unspent outputs are the wallet's own.        *)
CoinsOwned ==
  ~Loading => CoinsKept /\ \A u \in utxos : u \in Own(u.hash)

PendingKnown ==
  ~Loading => \A t \in pendingTx : TransactionIsPending(t)

(* What the first n transactions pay to the wallet, and what they spend.   *)
OwnUpTo(n) == UNION {Own(transactions[i]) : i \in 1..n}
SpentUpTo(n) == UNION {In[transactions[i]] : i \in 1..n}
Settled(n) == \A i \in 1..n : ~Unconfirmed(transactions[i])

(* The balance after confirmed transactions goes by nothing that follows.  *)
PastStays ==
  ~Loading =>
    \A n \in 1..Done :
      Settled(n) => balanceHist[n] = Value[OwnUpTo(n) \ SpentUpTo(n)]

JniInv ==
  /\ IInv
  /\ ArrayType
  /\ OnlyLoaded
  /\ SortedByHeight
  /\ ChainsSettled
  /\ CoinsOwned
  /\ PendingKnown
  /\ PastStays

(* The sweep.                                                              *)
SweepInv ==
  /\ sweepBalance \in Nat
  /\ sweepTx # NoSweep =>
       /\ sweepTx \in [ins : Seq(SweepInputs), outs : Seq(Nat)]
       /\ Len(sweepTx.ins) <= MaxSweep
       /\ sweepBalance = SweepSum % WORD
       /\ \A i \in 2..Len(sweepTx.outs) : sweepTx.outs[i] = 0
       /\ given # Nothing /\ given.fee <= SweepSum =>
            /\ Total(sweepTx.outs) = given.amount
            /\ given.amount + given.fee = SweepSum

(* All the coins a sweep may have are less than fit a word.                *)
SweepsFit ==
  \A n \in 0..MaxSweep : \A ins \in [1..n -> SweepInputs] :
    Total([i \in DOMAIN ins |-> ins[i].amount]) < WORD
=============================================================================
