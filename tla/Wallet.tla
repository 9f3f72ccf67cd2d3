------------------------------- MODULE Wallet -------------------------------
(***************************************************************************)
(* The wallet of BitWallet.c: the transactions it has registered, their    *)
(* order, the unspent outputs and balances computed from them, the address *)
(* chains, and the calls threads make on it.                               *)
(*                                                                         *)
(* Every public function takes wallet->lock.  A step of this module is one *)
(* region of code between taking and releasing the lock, except for        *)
(* _BitWalletUpdateBalance, whose loop over the transactions is one step   *)
(* per transaction while the caller keeps the lock.                        *)
(*                                                                         *)
(* A transaction is named by its hash.  Scripts, signatures and addresses  *)
(* are abstracted to identities, and amounts to Value, an additive         *)
(* function of sets of outputs.                                            *)
(***************************************************************************)
EXTENDS Integers, Sequences, Functions

CONSTANTS
  Thread,          \* the threads that call the wallet
  NoThread,        \* the value of lock while nobody holds it
  Tx,              \* transactions the application can hand to the wallet
  NoTx,            \* "no transaction"
  Foreign,         \* hashes of transactions the wallet never sees
  In,              \* In[t]: the outputs that t spends
  Out,             \* Out[t]: the addresses t pays, one per output
  NoAddr,          \* the empty address of a non-standard output script
  Value,           \* Value[S]: the satoshis in the set of outputs S
  Postdated,       \* transactions that are replaceable, dusty or oversized
  LockHeight,      \* LockHeight[t]: first block that may hold t, 0 if any
  Heights,         \* block heights
  TX_UNCONFIRMED,  \* the block height of a transaction not in a block
  Chain,           \* names of the two address chains
  Derived,         \* Derived[c]: addresses the master key derives on chain c
  GapLimit,        \* SEQUENCE_GAP_LIMIT_EXTERNAL and _INTERNAL
  Saved            \* lists of transactions an application may have saved

Outputs == {u \in [hash : Tx, n : UNION {DOMAIN Out[t] : t \in Tx}] :
              u.n \in DOMAIN Out[u.hash]}

Outpoint == Outputs \cup [hash : Foreign, n : {1}]

ASSUME ThreadAssumption == NoThread \notin Thread
ASSUME TxAssumption ==
  /\ NoTx \notin Tx
  /\ Tx \cap Foreign = {}
  /\ In \in [Tx -> SUBSET Outpoint]
  /\ DOMAIN Out = Tx
  /\ \A t \in Tx : Out[t] \in Seq(Range(Out[t]))
  /\ Postdated \subseteq Tx
  /\ LockHeight \in [Tx -> Nat]
  /\ Saved \subseteq Seq(Tx)
ASSUME HeightAssumption ==
  /\ Heights \subseteq Nat
  /\ TX_UNCONFIRMED \in Nat
  /\ \A h \in Heights : 0 < h /\ h < TX_UNCONFIRMED
ASSUME ChainAssumption ==
  /\ Chain = {"external", "internal"}
  /\ DOMAIN Derived = Chain
  /\ \A c \in Chain : Derived[c] \in Seq(Range(Derived[c]))
  /\ \A c \in Chain : NoAddr \notin Range(Derived[c])
  /\ GapLimit \in [Chain -> Nat \ {0}]
(* The amount of a set of outputs is the sum of their amounts.             *)
ASSUME ValueAssumption ==
  /\ Value \in [SUBSET Outputs -> Nat]
  /\ Value[{}] = 0
  /\ \A S, T \in SUBSET Outputs :
       S \cap T = {} => Value[S \cup T] = Value[S] + Value[T]

VARIABLES
  phase,           \* "none", "loading" (in the constructor) or "ready"
  lock,            \* holder of wallet->lock
  transactions, allTx, height, blockHeight, chain,
  utxos, balance, balanceHist, totalSent, totalReceived,
  spentOutputs, invalidTx, pendingTx, usedAddrs,
  ub,              \* locals of _BitWalletUpdateBalance: i, balance, prevBalance
  pc,              \* pc[p]: where thread p is in its call
  call,            \* call[p]: the call's name and transaction
  todo,            \* todo[p]: transactions the call has still to handle
  appTxs,          \* transactions the application knows from the callbacks
  appBalance       \* the last balance it was given

keptVars == <<transactions, allTx, height, blockHeight>>
sumVars == <<utxos, balanceHist, totalSent, totalReceived, spentOutputs,
             invalidTx, pendingTx, usedAddrs, ub>>
threadVars == <<phase, lock, pc, call, todo>>
appVars == <<appTxs, appBalance>>
vars == <<keptVars, chain, balance, sumVars, threadVars, appVars>>

-----------------------------------------------------------------------------
(* What a transaction is to the wallet.                                    *)

AddrsOf(c, n) == {Derived[c][i] : i \in 1..n}

(* wallet->allAddrs: every address generated so far, on either chain.      *)
AllAddrs == UNION {AddrsOf(c, chain[c]) : c \in Chain}

OutAddrs(t) == Range(Out[t]) \ {NoAddr}

Own(t) == {u \in Outputs : u.hash = t /\ Out[t][u.n] \in AllAddrs}

IsOwnInput(u) ==
  u.hash \in allTx /\ u \in Outputs /\ Out[u.hash][u.n] \in AllAddrs

(* The transaction pays a wallet address or spends an output that does.    *)
ContainsTx(t) == Own(t) # {} \/ \E u \in In[t] : IsOwnInput(u)

Spends(t, parent) == \E u \in In[t] : u.hash = parent

Unconfirmed(t) == height[t] = TX_UNCONFIRMED

-----------------------------------------------------------------------------
(* The order of wallet->transactions.                                      *)

(* t1 comes after t2: it is in a later block, or in the same block and     *)
(* spends t2, directly or through transactions in all.                     *)
TxIsAscending(t1, t2, hgt, all) ==
  LET after[t \in Tx] ==
        \/ hgt[t] > hgt[t2]
        \/ /\ hgt[t] = hgt[t2]
           /\ \/ Spends(t, t2)
              \/ /\ ~Spends(t2, t)
                 /\ \E u \in In[t] : u.hash \in all /\ after[u.hash]
  IN after[t1]

TxChainIndex(t, c) ==
  LET hits == {i \in 1..chain[c] : Derived[c][i] \in Range(Out[t])}
  IN IF hits = {} THEN 0 ELSE CHOOSE i \in hits : \A j \in hits : j <= i

(* _BitWalletTxCompare(t1, t2) > 0                                         *)
SortsAfter(t1, t2, hgt, all) ==
  \/ TxIsAscending(t1, t2, hgt, all)
  \/ /\ ~TxIsAscending(t2, t1, hgt, all)
     /\ \E c \in Chain :
          /\ c = "external" => TxChainIndex(t1, "internal") = 0
          /\ 0 < TxChainIndex(t2, c)
          /\ TxChainIndex(t2, c) < TxChainIndex(t1, c)

InsertAt(s, k, t) ==
  [i \in 1..(Len(s) + 1) |->
     IF i <= k THEN s[i] ELSE IF i = k + 1 THEN t ELSE s[i - 1]]

DeleteAt(s, k) == [i \in 1..(Len(s) - 1) |-> IF i < k THEN s[i] ELSE s[i + 1]]

(* Insertion sort: t, at block height h, goes after the last transaction   *)
(* that does not sort after it.                                            *)
InsertTx(t, h) ==
  LET after(i) ==
        SortsAfter(transactions[i], t, [height EXCEPT ![t] = h], allTx \cup {t})
  IN \E k \in 0..Len(transactions) :
       /\ k > 0 => ~after(k)
       /\ \A i \in (k + 1)..Len(transactions) : after(i)
       /\ transactions' = InsertAt(transactions, k, t)

-----------------------------------------------------------------------------
(* Address chains.                                                         *)

HasGapOffByOne(c, n, gap, used) ==
  n >= gap /\ \A i \in (n - gap + 2)..n : Derived[c][i] \notin used

(* The n first addresses of c end in gap addresses that are not in used.   *)
HasGap(c, n, gap, used) ==
  n >= gap /\ \A i \in (n - gap + 1)..n : Derived[c][i] \notin used

(* The length of chain c after generating addresses up to the gap limit;   *)
(* it stops short only when no further address can be derived.             *)
Extended(c, from, gap, used) ==
  LET reached(n) == /\ HasGap(c, n, gap, used)
                    /\ \A m \in from..(n - 1) : ~HasGap(c, m, gap, used)
      all == Len(Derived[c])
  IN IF \E n \in from..all : reached(n)
     THEN CHOOSE n \in from..all : reached(n)
     ELSE all

UnusedAddrs(c, gap) ==
  chain' = [chain EXCEPT ![c] = Extended(c, chain[c], gap, usedAddrs)]

-----------------------------------------------------------------------------
NoUpdate == [i |-> 1, balance |-> 0, prev |-> 0]

(* tx: the transaction a call is about; height: its block height when it   *)
(* was removed; known: it was then known to be invalid; notify and rescan: *)
(* what txDeleted will tell the application.                               *)
NoCall == [op |-> "none", tx |-> NoTx, height |-> TX_UNCONFIRMED,
           known |-> FALSE, notify |-> FALSE, rescan |-> FALSE]

Init ==
  /\ phase = "none"
  /\ lock = NoThread
  /\ transactions = <<>>
  /\ allTx = {}
  /\ height = [t \in Tx |-> TX_UNCONFIRMED]
  /\ blockHeight = 0
  /\ chain = [c \in Chain |-> 0]
  /\ utxos = {}
  /\ balance = 0
  /\ balanceHist = <<>>
  /\ totalSent = 0
  /\ totalReceived = 0
  /\ spentOutputs = {}
  /\ invalidTx = {}
  /\ pendingTx = {}
  /\ usedAddrs = {}
  /\ ub = NoUpdate
  /\ pc = [p \in Thread |-> "idle"]
  /\ call = [p \in Thread |-> NoCall]
  /\ todo = [p \in Thread |-> <<>>]
  /\ appTxs = {}
  /\ appBalance = 0

(* A transaction the wallet points to has been freed, or a thread is about *)
(* to report one that was: what the code does from here on is undefined.   *)
Defined ==
  /\ Range(transactions) \subseteq allTx
  /\ \A p \in Thread : pc[p] = "cbAdded" => call[p].tx \in allTx

Goto(p, label) == pc' = [pc EXCEPT ![p] = label]

Call(p, op, t) == call' = [call EXCEPT ![p] = [NoCall EXCEPT !.op = op, !.tx = t]]

Return(p) ==
  /\ Goto(p, "idle")
  /\ call' = [call EXCEPT ![p] = NoCall]

(* The application starts a call.                                          *)
Idle(p) == phase = "ready" /\ pc[p] = "idle" /\ Defined

AtUnlocked(p, label) == pc[p] = label /\ Defined
(* A step of a call that holds the lock only for the step.                 *)
At(p, label) == pc[p] = label /\ lock = NoThread /\ Defined

-----------------------------------------------------------------------------
(* _BitWalletUpdateBalance.  The caller p holds the lock until UpdateDone. *)

BeginUpdateBalance(p) ==
  /\ lock' = p
  /\ Goto(p, "update")
  /\ utxos' = {}
  /\ balanceHist' = <<>>
  /\ totalSent' = 0
  /\ totalReceived' = 0
  /\ spentOutputs' = {}
  /\ invalidTx' = {}
  /\ pendingTx' = {}
  /\ usedAddrs' = {}
  /\ ub' = NoUpdate

(* Thread p is at transaction t of the loop.                               *)
Updating(p, t) ==
  /\ pc[p] = "update"
  /\ ub.i <= Len(transactions)
  /\ t = transactions[ub.i]

IsInvalidByParentOnly(t) ==
  Unconfirmed(t) /\ \E u \in In[t] : u.hash \in invalidTx

IsInvalid(t) ==
  /\ Unconfirmed(t)
  /\ \E u \in In[t] : u \in spentOutputs \/ u.hash \in invalidTx

IsPending(t) ==
  /\ Unconfirmed(t)
  /\ \/ t \in Postdated
     \/ LockHeight[t] > blockHeight + 1
     \/ \E u \in In[t] : u.hash \in pendingTx

SkipUnrecorded ==
  /\ ub' = [ub EXCEPT !.i = @ + 1]
  /\ balanceHist' = IF ub.i = 1 THEN <<0>> ELSE balanceHist

(* t does not change the balance.                                          *)
Skip ==
  /\ ub' = [ub EXCEPT !.i = @ + 1]
  /\ balanceHist' = Append(balanceHist, ub.balance)

UpdateInvalid(p, t) ==
  /\ Updating(p, t)
  /\ IsInvalid(t)
  /\ invalidTx' = invalidTx \cup {t}
  /\ Skip
  /\ UNCHANGED <<keptVars, chain, balance, utxos, totalSent, totalReceived,
                 spentOutputs, pendingTx, usedAddrs, threadVars, appVars>>

UpdatePending(p, t) ==
  /\ Updating(p, t)
  /\ ~IsInvalid(t)
  /\ IsPending(t)
  /\ spentOutputs' = spentOutputs \cup In[t]
  /\ pendingTx' = pendingTx \cup {t}
  /\ Skip
  /\ UNCHANGED <<keptVars, chain, balance, utxos, totalSent, totalReceived,
                 invalidTx, usedAddrs, threadVars, appVars>>

SweptInOrder(t) == (utxos \cup Own(t)) \cap In[t]
SweptWithParent(t) ==
  {u \in utxos \cup Own(t) : \E v \in spentOutputs \cup In[t] : v.hash = u.hash}

(* The order of transactions is not guaranteed, so everything spent so far *)
(* leaves the unspent outputs once those of t have joined them.            *)
Swept(t) == (utxos \cup Own(t)) \cap (spentOutputs \cup In[t])

BalanceAfterUnswept(t) == ub.balance + Value[Own(t)] - Value[utxos \cap In[t]]
BalanceAfter(t) == ub.balance + Value[Own(t)] - Value[Swept(t)]

UpdateAccepted(p, t) ==
  LET sum == BalanceAfter(t)
  IN /\ Updating(p, t)
     /\ ~IsInvalid(t)
     /\ ~IsPending(t)
     /\ spentOutputs' = spentOutputs \cup In[t]
     /\ usedAddrs' = usedAddrs \cup OutAddrs(t)
     /\ utxos' = (utxos \cup Own(t)) \ Swept(t)
     /\ totalReceived' = totalReceived + (IF ub.prev < sum THEN sum - ub.prev ELSE 0)
     /\ totalSent' = totalSent + (IF sum < ub.prev THEN ub.prev - sum ELSE 0)
     /\ balanceHist' = Append(balanceHist, sum)
     /\ ub' = [i |-> ub.i + 1, balance |-> sum, prev |-> sum]
     /\ UNCHANGED <<keptVars, chain, balance, invalidTx, pendingTx,
                    threadVars, appVars>>

(* Where a call goes on once the balance is up to date.                    *)
AfterUpdate ==
  [new |-> "verify", register |-> "external", remove |-> "notify",
   update |-> "cbUpdated", unconfirm |-> "cbUpdated"]

UpdateDone(p) ==
  /\ pc[p] = "update"
  /\ ub.i > Len(transactions)
  /\ balance' = ub.balance
  /\ ub' = NoUpdate
  /\ Goto(p, AfterUpdate[call[p].op])
  /\ lock' = IF call[p].op = "new" THEN p ELSE NoThread
  /\ UNCHANGED <<keptVars, chain, utxos, balanceHist, totalSent, totalReceived,
                 spentOutputs, invalidTx, pendingTx, usedAddrs,
                 phase, call, todo, appVars>>

-----------------------------------------------------------------------------
(* BitWalletNewByCoinType and BitWalletFree.                               *)

(* The constructor, given the saved transactions s at block heights hs.    *)
New(p, s, hs) ==
  /\ phase = "none"
  /\ phase' = "loading"
  /\ lock' = p
  /\ height' = hs
  /\ Call(p, "new", IF s = <<>> THEN NoTx ELSE s[1])
  /\ todo' = [todo EXCEPT ![p] = s]
  /\ Goto(p, "load")
  /\ UNCHANGED <<transactions, allTx, blockHeight, chain, balance, sumVars, appVars>>

NewTx(p) ==
  /\ pc[p] = "load"
  /\ todo[p] # <<>>
  /\ LET t == Head(todo[p])
     IN IF t \in allTx
        THEN UNCHANGED <<allTx, transactions, usedAddrs>>
        ELSE /\ allTx' = allTx \cup {t}
             /\ InsertTx(t, height[t])
             /\ usedAddrs' = usedAddrs \cup OutAddrs(t)
  /\ todo' = [todo EXCEPT ![p] = Tail(@)]
  /\ UNCHANGED <<height, blockHeight, chain, balance, utxos, balanceHist,
                 totalSent, totalReceived, spentOutputs, invalidTx, pendingTx,
                 ub, phase, lock, pc, call, appVars>>

NewAddrs(p) ==
  /\ pc[p] = "load"
  /\ todo[p] = <<>>
  /\ chain' = [c \in Chain |-> Extended(c, 0, GapLimit[c], usedAddrs)]
  /\ BeginUpdateBalance(p)
  /\ UNCHANGED <<keptVars, balance, phase, call, todo, appVars>>

(* BitWalletFree: the transactions go with the wallet.                     *)
FreeWallet ==
  /\ phase' = "none"
  /\ lock' = NoThread
  /\ transactions' = <<>>
  /\ allTx' = {}
  /\ height' = [t \in Tx |-> TX_UNCONFIRMED]
  /\ blockHeight' = 0
  /\ chain' = [c \in Chain |-> 0]
  /\ balance' = 0
  /\ utxos' = {}
  /\ balanceHist' = <<>>
  /\ totalSent' = 0
  /\ totalReceived' = 0
  /\ spentOutputs' = {}
  /\ invalidTx' = {}
  /\ pendingTx' = {}
  /\ usedAddrs' = {}
  /\ ub' = NoUpdate
  /\ appTxs' = {}
  /\ appBalance' = 0

(* The first transaction shows whether the list belongs to the master key. *)
NewVerify(p) ==
  /\ pc[p] = "verify"
  /\ Return(p)
  /\ UNCHANGED todo
  /\ IF call[p].tx = NoTx \/ ContainsTx(call[p].tx)
     THEN /\ phase' = "ready"
          /\ lock' = NoThread
          /\ appTxs' = Range(transactions)
          /\ appBalance' = balance
          /\ UNCHANGED <<keptVars, chain, balance, sumVars>>
     ELSE FreeWallet

Free(p) ==
  /\ \A q \in Thread : Idle(q)
  /\ FreeWallet
  /\ UNCHANGED <<pc, call, todo>>

-----------------------------------------------------------------------------
(* BitWalletRegisterTransaction.                                           *)

(* The locked region, for transaction t at block height h.                 *)
Register(p, t, h) ==
  /\ Idle(p)
  /\ lock = NoThread
  /\ t \notin allTx
  /\ ContainsTx(t)
  /\ height' = [height EXCEPT ![t] = h]
  /\ allTx' = allTx \cup {t}
  /\ InsertTx(t, h)
  /\ Call(p, "register", t)
  /\ BeginUpdateBalance(p)
  /\ UNCHANGED <<blockHeight, chain, balance, phase, todo, appVars>>

(* A transaction of nobody in the wallet is remembered while unconfirmed.  *)
RegisterForeign(p, t) ==
  /\ Idle(p)
  /\ lock = NoThread
  /\ t \notin allTx
  /\ ~ContainsTx(t)
  /\ height' = [height EXCEPT ![t] = TX_UNCONFIRMED]
  /\ allTx' = allTx \cup {t}
  /\ UNCHANGED <<transactions, blockHeight, chain, balance, sumVars,
                 threadVars, appVars>>

RegisterAddrs(p, c, label, next) ==
  /\ At(p, label)
  /\ UnusedAddrs(c, GapLimit[c])
  /\ Goto(p, next)
  /\ UNCHANGED <<keptVars, balance, sumVars, phase, lock, call, todo, appVars>>

RegisterExternal(p) == RegisterAddrs(p, "external", "external", "internal")
RegisterInternal(p) == RegisterAddrs(p, "internal", "internal", "cbBalance")

(* The callbacks run without the lock, and so does their read of balance.  *)
CbBalance(p) ==
  /\ pc[p] = "cbBalance"
  /\ Defined
  /\ appBalance' = balance
  /\ Goto(p, IF call[p].op = "register" THEN "cbAdded" ELSE "cbDeleted")
  /\ UNCHANGED <<keptVars, chain, balance, sumVars, phase, lock, call, todo, appTxs>>

CbAdded(p) ==
  /\ pc[p] = "cbAdded"
  /\ Defined
  /\ appTxs' = appTxs \cup {call[p].tx}
  /\ Return(p)
  /\ UNCHANGED <<keptVars, chain, balance, sumVars, phase, lock, todo, appBalance>>

-----------------------------------------------------------------------------
(* BitWalletRemoveTransaction.  todo[p] holds the removals the recursion   *)
(* has still to do; the lock is free between them.                         *)

Remove(p, t) ==
  /\ Idle(p)
  /\ t \in allTx
  /\ Call(p, "remove", NoTx)
  /\ todo' = [todo EXCEPT ![p] = <<t>>]
  /\ Goto(p, "remove")
  /\ UNCHANGED <<keptVars, chain, balance, sumVars, phase, lock, appVars>>

DependentsKnown(t) == {s \in allTx : Spends(s, t)}

(* The transactions found to spend t, scanning from the newest until one   *)
(* is in an earlier block than t.                                          *)
Dependents(t) ==
  {transactions[i] : i \in
     {j \in 1..Len(transactions) :
        /\ \A k \in j..Len(transactions) : height[transactions[k]] >= height[t]
        /\ transactions[j] # t
        /\ Spends(transactions[j], t)}}

(* What the step does not change when it only rearranges the removals.     *)
RemoveUnchanged ==
  UNCHANGED <<keptVars, chain, balance, sumVars, phase, lock, appVars>>

RemoveUnknown(p) ==
  /\ At(p, "remove")
  /\ todo[p] # <<>>
  /\ Head(todo[p]) \notin allTx
  /\ todo' = [todo EXCEPT ![p] = Tail(@)]
  /\ UNCHANGED <<pc, call>>
  /\ RemoveUnchanged

(* Dependents are removed first, the oldest of them before the others.     *)
RemoveDependents(p) ==
  /\ At(p, "remove")
  /\ todo[p] # <<>>
  /\ LET found == Dependents(Head(todo[p]))
     IN /\ Head(todo[p]) \in allTx
        /\ found # {}
        /\ todo' = [todo EXCEPT ![p] =
                      SelectSeq(transactions, LAMBDA x : x \in found) \o @]
  /\ UNCHANGED <<pc, call>>
  /\ RemoveUnchanged

(* t leaves the wallet; its object is freed after the notification.        *)
RemoveOne(p, t) ==
  /\ At(p, "remove")
  /\ todo[p] # <<>>
  /\ t = Head(todo[p])
  /\ t \in allTx
  /\ Dependents(t) = {}
  /\ allTx' = allTx \ {t}
  /\ IF t \in Range(transactions)
     THEN \E k \in 1..Len(transactions) :
            transactions[k] = t /\ transactions' = DeleteAt(transactions, k)
     ELSE UNCHANGED transactions
  /\ height' = [height EXCEPT ![t] = TX_UNCONFIRMED]
  /\ call' = [call EXCEPT ![p] = [@ EXCEPT !.tx = t, !.height = height[t],
                                            !.known = t \in invalidTx]]
  /\ todo' = [todo EXCEPT ![p] = Tail(@)]
  /\ BeginUpdateBalance(p)
  /\ UNCHANGED <<blockHeight, chain, balance, phase, appVars>>

(* BitWalletAmountSentByTx(t) > 0                                          *)
AmountSent(t) == \E u \in In[t] : IsOwnInput(u) /\ Value[{u}] > 0

(* BitWalletTransactionIsValid for t at block height h: unless confirmed,  *)
(* it is not known to be invalid (or, once it is not in the wallet, spends *)
(* nothing already spent), and neither is any of its known ancestors.      *)
TransactionIsValid(t, h) ==
  LET itself(x) ==
        IF x \in allTx THEN x \notin invalidTx ELSE In[x] \cap spentOutputs = {}
      ancestor[x \in Tx] ==
        Unconfirmed(x) =>
          /\ itself(x)
          /\ \A u \in In[x] : u.hash \in allTx => ancestor[u.hash]
  IN h = TX_UNCONFIRMED =>
       /\ itself(t)
       /\ \A u \in In[t] : u.hash \in allTx => ancestor[u.hash]

(* Whether the user is to be told of the removal, and to rescan.  The code *)
(* takes the lock for each lookup; here the lookups are one step.          *)
RemoveNotify(p) ==
  /\ At(p, "notify")
  /\ LET t == call[p].tx
         notify == AmountSent(t) /\ TransactionIsValid(t, call[p].height)
         rescan == /\ notify
                   /\ \A u \in In[t] : u.hash \in allTx /\ ~Unconfirmed(u.hash)
     IN call' = [call EXCEPT ![p] = [@ EXCEPT !.notify = notify, !.rescan = rescan]]
  /\ Goto(p, "cbBalance")
  /\ UNCHANGED todo
  /\ RemoveUnchanged

CbDeletedOnceOnly(p) ==
  /\ pc[p] = "cbDeleted"
  /\ Defined
  /\ appTxs' = IF todo[p] = <<>> THEN appTxs \ {call[p].tx} ELSE appTxs
  /\ Call(p, "remove", NoTx)
  /\ Goto(p, "remove")
  /\ UNCHANGED <<keptVars, chain, balance, sumVars, phase, lock, todo, appBalance>>

CbDeleted(p) ==
  /\ pc[p] = "cbDeleted"
  /\ Defined
  /\ appTxs' = appTxs \ {call[p].tx}
  /\ Call(p, "remove", NoTx)
  /\ Goto(p, "remove")
  /\ UNCHANGED <<keptVars, chain, balance, sumVars, phase, lock, todo, appBalance>>

RemoveReturn(p) ==
  /\ pc[p] = "remove"
  /\ todo[p] = <<>>
  /\ Return(p)
  /\ UNCHANGED todo
  /\ RemoveUnchanged

-----------------------------------------------------------------------------
(* Blocks: BitWalletUpdateTransactions, BitWalletSetTxUnconfirmedAfter.    *)

(* The call recomputes the balances if stale says so, and reports changes  *)
(* to transactions if any.                                                 *)
RecomputeIf(p, op, stale, any) ==
  IF stale
  THEN /\ Call(p, op, NoTx)
       /\ BeginUpdateBalance(p)
  ELSE /\ UNCHANGED <<sumVars, lock>>
       /\ IF any
          THEN Call(p, op, NoTx) /\ Goto(p, "cbUpdated")
          ELSE UNCHANGED <<call, pc>>

NeedsUpdateIfInvalid(listed) == listed \cap invalidTx # {}
NeedsUpdate(listed) == listed \cap (pendingTx \cup invalidTx) # {}

(* The transactions S are at block height h; later says that the timestamp *)
(* given is new to them.  TX_UNCONFIRMED is only for transactions that     *)
(* remain unconfirmed.                                                     *)
UpdateTransactions(p, S, h, later) ==
  LET touched == {t \in S \cap allTx : height[t] # h \/ later}
      listed == {t \in touched : ContainsTx(t)}
      dropped == IF h = TX_UNCONFIRMED THEN {} ELSE touched \ listed
  IN /\ Idle(p)
     /\ lock = NoThread
     /\ h = TX_UNCONFIRMED => \A t \in S : Unconfirmed(t)
     /\ blockHeight' = IF h > blockHeight THEN h ELSE blockHeight
     /\ height' = [t \in Tx |-> IF t \in touched THEN h ELSE height[t]]
     /\ allTx' = allTx \ dropped
     /\ RecomputeIf(p, "update", NeedsUpdate(listed), listed # {})
     /\ UNCHANGED <<transactions, chain, balance, phase, todo, appVars>>

(* A chain reorganisation: the newest transactions, down to one at height  *)
(* h or below, are unconfirmed again.                                      *)
SetTxUnconfirmedAfter(p, h) ==
  /\ Idle(p)
  /\ lock = NoThread
  /\ blockHeight' = h
  /\ \E i \in 0..Len(transactions) :
       LET after == {transactions[j] : j \in (i + 1)..Len(transactions)}
       IN /\ i > 0 => height[transactions[i]] <= h
          /\ \A t \in after : height[t] > h
          /\ height' = [t \in Tx |-> IF t \in after THEN TX_UNCONFIRMED ELSE height[t]]
          /\ RecomputeIf(p, "unconfirm", after # {}, after # {})
  /\ UNCHANGED <<transactions, allTx, chain, balance, phase, todo, appVars>>

CbUpdated(p) ==
  /\ pc[p] = "cbUpdated"
  /\ Return(p)
  /\ UNCHANGED <<keptVars, chain, balance, sumVars, phase, lock, todo, appVars>>

(* BitWalletReceiveAddress, and the change address of a new transaction.   *)
GetUnusedAddrs(p, c, gap) ==
  /\ Idle(p)
  /\ lock = NoThread
  /\ UnusedAddrs(c, gap)
  /\ UNCHANGED <<keptVars, balance, sumVars, threadVars, appVars>>

-----------------------------------------------------------------------------
SavedHeights(s) ==
  {hs \in [Tx -> Heights \cup {TX_UNCONFIRMED}] :
     \A t \in Tx \ Range(s) : hs[t] = TX_UNCONFIRMED}

UpdateStep(p) ==
  \/ \E t \in Tx : UpdateInvalid(p, t)
  \/ \E t \in Tx : UpdatePending(p, t)
  \/ \E t \in Tx : UpdateAccepted(p, t)
  \/ UpdateDone(p)

RemoveStep(p) ==
  \/ RemoveUnknown(p)
  \/ RemoveDependents(p)
  \/ \E t \in Tx : RemoveOne(p, t)
  \/ RemoveNotify(p)
  \/ CbDeleted(p)
  \/ RemoveReturn(p)

(* Thread p goes on with the call it is in.                                *)
Continue(p) ==
  \/ NewTx(p)
  \/ NewAddrs(p)
  \/ NewVerify(p)
  \/ UpdateStep(p)
  \/ RegisterExternal(p)
  \/ RegisterInternal(p)
  \/ CbBalance(p)
  \/ CbAdded(p)
  \/ RemoveStep(p)
  \/ CbUpdated(p)

(* The application makes a call on thread p.                               *)
Start(p) ==
  \/ \E s \in Saved : \E hs \in SavedHeights(s) : New(p, s, hs)
  \/ Free(p)
  \/ \E t \in Tx, h \in Heights \cup {TX_UNCONFIRMED} : Register(p, t, h)
  \/ \E t \in Tx : RegisterForeign(p, t)
  \/ \E t \in Tx : Remove(p, t)
  \/ \E S \in SUBSET Tx, h \in Heights \cup {TX_UNCONFIRMED}, later \in BOOLEAN :
       UpdateTransactions(p, S, h, later)
  \/ \E h \in Heights \cup {0} : SetTxUnconfirmedAfter(p, h)
  \/ \E c \in Chain : GetUnusedAddrs(p, c, 1)

(* What the program does from here on is not the wallet's any more.        *)
Undefined == ~Defined /\ UNCHANGED vars

Next == (\E p \in Thread : Start(p) \/ Continue(p)) \/ Undefined

Spec == Init /\ [][Next]_vars

(* A thread inside a call is scheduled; whether it calls is up to the user.*)
FairSpec == Spec /\ \A p \in Thread : WF_vars(Continue(p))
-----------------------------------------------------------------------------
(* Properties.                                                             *)

Labels == {"idle", "load", "update", "verify", "external", "internal",
           "cbBalance", "cbAdded", "notify", "remove", "cbDeleted", "cbUpdated"}

Calls == [op : {"none"} \cup DOMAIN AfterUpdate, tx : Tx \cup {NoTx},
          height : Heights \cup {TX_UNCONFIRMED},
          known : BOOLEAN, notify : BOOLEAN, rescan : BOOLEAN]

KeptType ==
  /\ phase \in {"none", "loading", "ready"}
  /\ lock \in Thread \cup {NoThread}
  /\ transactions \in Seq(Tx)
  /\ allTx \subseteq Tx
  /\ height \in [Tx -> Heights \cup {TX_UNCONFIRMED}]
  /\ blockHeight \in Heights \cup {0, TX_UNCONFIRMED}
  /\ chain \in [Chain -> Nat]

SumType ==
  /\ utxos \subseteq Outputs
  /\ balance \in Int
  /\ balanceHist \in Seq(Int)
  /\ totalSent \in Nat
  /\ totalReceived \in Nat
  /\ spentOutputs \subseteq Outpoint
  /\ invalidTx \subseteq Tx
  /\ pendingTx \subseteq Tx
  /\ NoAddr \notin usedAddrs
  /\ ub \in [i : Nat \ {0}, balance : Int, prev : Int]

CallType ==
  /\ pc \in [Thread -> Labels]
  /\ call \in [Thread -> Calls]
  /\ \A p \in Thread : pc[p] = "load" => todo[p] \in Seq(Tx)
  /\ DOMAIN todo = Thread
  /\ appTxs \subseteq Tx
  /\ appBalance \in Int

(* Every variable has its type.                                            *)
TypeOK == KeptType /\ SumType /\ CallType

(* The wallet as a reader that takes the lock sees it.                     *)
Unlocked == phase = "ready" /\ lock = NoThread

(* The balance loop has come to its end.                                   *)
Recomputed == ub.i > Len(transactions) /\ \E p \in Thread : pc[p] = "update"

Listed == Range(transactions)
Accepted == Listed \ (invalidTx \cup pendingTx)

(* balanceHist has one entry per transaction and ends with the balance, so *)
(* that BitWalletBalanceAfterTx reads the entry of its transaction; the    *)
(* assertion at the end of _BitWalletUpdateBalance says the first part.    *)
HistoryAligned ==
  Unlocked =>
    /\ Len(balanceHist) = Len(transactions)
    /\ balance = IF balanceHist = <<>> THEN 0 ELSE balanceHist[Len(balanceHist)]

(* The balance is the sum of the unspent outputs, and what was ever        *)
(* received is what was sent plus what is left.                            *)
BalanceIsUtxos ==
  Unlocked => /\ balance = Value[utxos]
              /\ totalReceived = totalSent + balance

(* No output that an accepted transaction spends is offered to be spent.   *)
NoAcceptedSpendInUtxos ==
  Unlocked => \A t \in Accepted : In[t] \cap utxos = {}

(* An output is missing from the unspent outputs only if a transaction     *)
(* that is not invalid spends it: no coin of an accepted transaction gets  *)
(* lost, in whatever order the transactions were registered.               *)
NoCoinLost ==
  Recomputed =>
    \A t \in Accepted : Own(t) \subseteq
       utxos \cup UNION {In[s] : s \in Listed \ invalidTx}

(* Of two transactions of the wallet that spend the same output and count, *)
(* the later one is confirmed.                                             *)
NoDoubleSpend ==
  Unlocked =>
    \A i, j \in 1..Len(transactions) :
      /\ i < j
      /\ {transactions[i], transactions[j]} \cap invalidTx = {}
      /\ Unconfirmed(transactions[j])
      => In[transactions[i]] \cap In[transactions[j]] = {}

(* Only unconfirmed transactions of the wallet are known to be invalid or  *)
(* pending: a block that confirms one makes the wallet look again.         *)
StatusCurrent ==
  Unlocked /\ Defined =>
    \A t \in invalidTx \cup pendingTx : t \in Listed /\ Unconfirmed(t)

(* Registering a transaction leaves a full gap of unused addresses at the  *)
(* end of each chain.  Holds while no other thread uses the wallet.        *)
GapRestored ==
  \A p \in Thread :
    pc[p] = "cbBalance" /\ call[p].op = "register" =>
      \A c \in Chain :
        /\ chain[c] >= GapLimit[c]
        /\ \A i \in 1..GapLimit[c] : Derived[c][chain[c] + 1 - i] \notin usedAddrs

(* Between calls the application has been told of exactly the wallet's     *)
(* transactions.  Holds while no other thread uses the wallet.             *)
CallbacksComplete ==
  Unlocked /\ Defined /\ (\A p \in Thread : pc[p] = "idle") => appTxs = Listed

(* A call comes to its end, BitWalletRemoveTransaction through all of its  *)
(* recursion, unless it meets a transaction that has been freed.           *)
CallsReturn == \A p \in Thread : pc[p] # "idle" ~> (pc[p] = "idle" \/ ~Defined)

-----------------------------------------------------------------------------
(* The inductive invariant.                                                *)

Locking == {"load", "update", "verify"}

(* A thread in the middle of a locked region holds the lock; until the     *)
(* wallet is ready only the constructor runs.                              *)
ThreadControl(p) ==
  /\ pc[p] \in Locking => lock = p /\ phase # "none"
  /\ pc[p] \in {"load", "verify"} => phase = "loading" /\ call[p].op = "new"
  /\ pc[p] = "update" => /\ call[p].op \in DOMAIN AfterUpdate
                         /\ phase = "loading" <=> call[p].op = "new"
  /\ pc[p] = "remove" => call[p].op = "remove"
  /\ pc[p] \notin Locking \cup {"idle"} => phase = "ready"

Control ==
  /\ \A p \in Thread : ThreadControl(p)
  /\ phase = "none" => transactions = <<>> /\ allTx = {} /\ lock = NoThread
  /\ phase = "loading" => Listed \subseteq allTx /\ \E p \in Thread : pc[p] \in Locking

ListedOnce ==
  \A i, j \in 1..Len(transactions) : transactions[i] = transactions[j] => i = j

InUpdate == \E p \in Thread : pc[p] = "update"
Loading == \E p \in Thread : pc[p] = "load"

(* How many transactions the balances account for, and the balance so far. *)
Done == IF InUpdate THEN ub.i - 1 ELSE Len(transactions)
SoFar == IF InUpdate THEN ub.balance ELSE balance

(* The first n transactions are accounted for, with balance bal.           *)
Amounts(n, bal) ==
  /\ Len(balanceHist) = n
  /\ bal = IF n = 0 THEN 0 ELSE balanceHist[n]
  /\ bal = Value[utxos]
  /\ totalReceived = totalSent + bal

Statuses(n) ==
  LET seen == {transactions[i] : i \in 1..n}
  IN /\ \A u \in utxos : u.hash \in seen
     /\ \A t \in invalidTx \cup pendingTx :
          t \in seen /\ (Listed \subseteq allTx => Unconfirmed(t))
     /\ \A t \in seen \ invalidTx : In[t] \subseteq spentOutputs
     /\ \A t \in seen \ (invalidTx \cup pendingTx) : In[t] \cap utxos = {}

NoConflict(n) ==
  \A i, j \in 1..n :
    /\ i < j
    /\ {transactions[i], transactions[j]} \cap invalidTx = {}
    /\ Unconfirmed(transactions[j])
    => In[transactions[i]] \cap In[transactions[j]] = {}

Accounted(n, bal) ==
  /\ n \in 0..Len(transactions)
  /\ Amounts(n, bal)
  /\ Statuses(n)
  /\ NoConflict(n)

(* So far no coin of an accepted transaction got lost.                     *)
CoinsKept ==
  LET seen == {transactions[i] : i \in 1..Done}
  IN /\ spentOutputs \subseteq UNION {In[t] : t \in seen \ invalidTx}
     /\ \A t \in seen \ (invalidTx \cup pendingTx) : Own(t) \subseteq utxos \cup spentOutputs

IInv ==
  /\ TypeOK
  /\ Control
  /\ ListedOnce
  /\ ub.prev = ub.balance
  /\ ~Loading => Accounted(Done, SoFar)
  /\ InUpdate => CoinsKept

-----------------------------------------------------------------------------
(* What also holds while a single thread uses the wallet.                  *)

(* Thread p is in a call that has registered or removed a transaction and  *)
(* has not yet told the application.                                       *)
Registering(p) ==
  \/ pc[p] \in {"external", "internal", "cbAdded"}
  \/ pc[p] \in {"update", "cbBalance"} /\ call[p].op = "register"
Removing(p) ==
  \/ pc[p] \in {"notify", "cbDeleted"}
  \/ pc[p] \in {"update", "cbBalance"} /\ call[p].op = "remove"

(* Which call a thread is in once the lock is free again.                  *)
CallAt(p) ==
  /\ pc[p] \in {"external", "internal", "cbAdded"} => call[p].op = "register"
  /\ pc[p] \in {"notify", "cbDeleted"} => call[p].op = "remove"
  /\ pc[p] = "cbBalance" => call[p].op \in {"register", "remove"}

(* The application knows the wallet's transactions, but for the one that   *)
(* is being registered or removed.                                         *)
Told(p) ==
  phase = "ready" =>
    /\ Registering(p) => call[p].tx \in Listed /\ appTxs = Listed \ {call[p].tx}
    /\ Removing(p) => call[p].tx \notin Listed /\ appTxs \ {call[p].tx} = Listed
    /\ ~Registering(p) /\ ~Removing(p) => appTxs = Listed

FullGap(c) == HasGap(c, chain[c], GapLimit[c], usedAddrs)

(* A registration fills the gap of one chain after that of the other.      *)
GapsFilled(p) ==
  /\ \A c \in Chain : chain[c] <= Len(Derived[c])
  /\ usedAddrs \subseteq UNION {OutAddrs(t) : t \in Tx}
  /\ pc[p] = "internal" => FullGap("external")
  /\ pc[p] = "cbBalance" /\ call[p].op = "register" => \A c \in Chain : FullGap(c)

Alone == \A p \in Thread : CallAt(p) /\ Told(p) /\ GapsFilled(p)

(* The master key derives more addresses than the transactions ever pay.   *)
ChainsLastOut ==
  \A c \in Chain :
    HasGap(c, Len(Derived[c]), GapLimit[c], UNION {OutAddrs(t) : t \in Tx})
=============================================================================
