---------------------------- MODULE WalletProof ----------------------------
(***************************************************************************)
(* Safety of the wallet, for every set of threads and transactions, every  *)
(* assignment of inputs, outputs and amounts, and every schedule; what the *)
(* application is told, and the gaps of the address chains, while a single *)
(* thread uses the wallet; and the wallet as the application uses it:      *)
(* loaded from stored transactions, asked about its history and its        *)
(* balances, through crashes and restarts.                                 *)
(***************************************************************************)
EXTENDS JniWallet, Numbers, FiniteSetTheorems, FunctionTheorems

(* A chain has a length after it is extended.                              *)
LEMMA ExtendedType ==
  ASSUME NEW c \in Chain, NEW from \in Nat, NEW gap, NEW used
  PROVE  Extended(c, from, gap, used) \in Nat
<1> DEFINE all == Len(Derived[c])
           reached(n) == /\ HasGap(c, n, gap, used)
                         /\ \A m \in from..(n - 1) : ~HasGap(c, m, gap, used)
<1>1. all \in Nat
  BY ChainAssumption
<1>2. CASE \E n \in from..all : reached(n)
  <2>1. (CHOOSE n \in from..all : reached(n)) \in from..all
    BY <1>2
  <2> QED
    BY <1>1, <1>2, <2>1 DEF Extended
<1>3. CASE ~(\E n \in from..all : reached(n))
  BY <1>1, <1>3 DEF Extended
<1> QED
  BY <1>2, <1>3

(* Inserting adds one transaction and keeps the others, each once.         *)
LEMMA InsertAtType ==
  ASSUME NEW S, NEW s \in Seq(S), NEW k \in 0..Len(s), NEW t \in S
  PROVE  /\ InsertAt(s, k, t) \in Seq(S)
         /\ Len(InsertAt(s, k, t)) = Len(s) + 1
         /\ Range(InsertAt(s, k, t)) = Range(s) \cup {t}
<1> DEFINE r == InsertAt(s, k, t)
<1>1. r \in Seq(S) /\ Len(r) = Len(s) + 1 /\ DOMAIN r = 1..(Len(s) + 1)
  BY DEF InsertAt
<1>2. ASSUME NEW i \in 1..(Len(s) + 1)  PROVE r[i] \in Range(s) \cup {t}
  BY DEF InsertAt, Range
<1>3. ASSUME NEW i \in 1..Len(s)  PROVE s[i] \in Range(r)
  <2>1. CASE i <= k
    <3>1. i \in 1..(Len(s) + 1) /\ r[i] = s[i]
      BY <2>1 DEF InsertAt
    <3> QED
      BY <1>1, <3>1 DEF Range
  <2>2. CASE i > k
    <3>1. i + 1 \in 1..(Len(s) + 1) /\ r[i + 1] = s[i]
      BY <2>2 DEF InsertAt
    <3> QED
      BY <1>1, <3>1 DEF Range
  <2> QED
    BY <2>1, <2>2
<1>4. t \in Range(r)
  <2>1. k + 1 \in 1..(Len(s) + 1) /\ r[k + 1] = t
    BY DEF InsertAt
  <2> QED
    BY <1>1, <2>1 DEF Range
<1>5. Range(r) = {r[i] : i \in 1..(Len(s) + 1)} /\ Range(s) = {s[i] : i \in 1..Len(s)}
  BY <1>1 DEF Range
<1> HIDE DEF r
<1>6. Range(r) \subseteq Range(s) \cup {t}
  BY <1>2, <1>5
<1>7. Range(s) \subseteq Range(r)
  BY <1>3, <1>5
<1>8. r \in Seq(S) /\ Len(r) = Len(s) + 1 /\ Range(r) = Range(s) \cup {t}
  BY <1>1, <1>4, <1>6, <1>7
<1> QED
  BY <1>8 DEF r

LEMMA InsertAtOnce ==
  ASSUME NEW S, NEW s \in Seq(S), NEW k \in 0..Len(s), NEW t \in S,
         t \notin Range(s),
         \A i, j \in 1..Len(s) : s[i] = s[j] => i = j
  PROVE  \A i, j \in 1..(Len(s) + 1) :
           InsertAt(s, k, t)[i] = InsertAt(s, k, t)[j] => i = j
<1>1. \A i \in 1..Len(s) : s[i] # t
  BY DEF Range
<1> QED
  BY <1>1 DEF InsertAt

LEMMA DeleteAtType ==
  ASSUME NEW S, NEW s \in Seq(S), NEW k \in 1..Len(s)
  PROVE  /\ DeleteAt(s, k) \in Seq(S)
         /\ Len(DeleteAt(s, k)) = Len(s) - 1
         /\ Range(DeleteAt(s, k)) \subseteq Range(s)
         /\ (\A i, j \in 1..Len(s) : s[i] = s[j] => i = j)
            => /\ s[k] \notin Range(DeleteAt(s, k))
               /\ \A i, j \in 1..(Len(s) - 1) :
                    DeleteAt(s, k)[i] = DeleteAt(s, k)[j] => i = j
<1>1. DeleteAt(s, k) \in Seq(S) /\ Len(DeleteAt(s, k)) = Len(s) - 1
  BY DEF DeleteAt
<1>2. Range(DeleteAt(s, k)) \subseteq Range(s)
  BY DEF DeleteAt, Range
<1>3. ASSUME \A i, j \in 1..Len(s) : s[i] = s[j] => i = j
      PROVE  /\ s[k] \notin Range(DeleteAt(s, k))
             /\ \A i, j \in 1..(Len(s) - 1) :
                  DeleteAt(s, k)[i] = DeleteAt(s, k)[j] => i = j
  BY <1>3 DEF DeleteAt, Range
<1> QED
  BY <1>1, <1>2, <1>3

-----------------------------------------------------------------------------
(* Type correctness.                                                       *)

LEMMA BeginType ==
  ASSUME SumType, NEW p \in Thread, BeginUpdateBalance(p), UNCHANGED balance
  PROVE  SumType' /\ lock' = p
  BY DEF BeginUpdateBalance, SumType, NoUpdate

LEMMA CallsType ==
  ASSUME call \in [Thread -> Calls], NEW p \in Thread,
         NEW op \in {"none"} \cup DOMAIN AfterUpdate, NEW t \in Tx \cup {NoTx},
         Call(p, op, t)
  PROVE  call' \in [Thread -> Calls]
<1>1. [NoCall EXCEPT !.op = op, !.tx = t] \in Calls
  BY HeightAssumption DEF NoCall, Calls
<1> QED
  BY <1>1 DEF Call

LEMMA ReturnType ==
  ASSUME call \in [Thread -> Calls], pc \in [Thread -> Labels],
         NEW p \in Thread, Return(p)
  PROVE  call' \in [Thread -> Calls] /\ pc' \in [Thread -> Labels]
<1>1. NoCall \in Calls
  BY HeightAssumption DEF NoCall, Calls
<1> QED
  BY <1>1 DEF Return, Goto, Labels

LEMMA RecomputeType ==
  ASSUME TypeOK, NEW p \in Thread, NEW op \in DOMAIN AfterUpdate,
         NEW stale, NEW any, RecomputeIf(p, op, stale, any),
         UNCHANGED <<balance, todo, appVars>>
  PROVE  SumType' /\ CallType' /\ lock' \in Thread \cup {NoThread}
<1> USE DEF TypeOK
<1>1. CASE stale
  <2>1. SumType' /\ lock' = p
    BY <1>1, BeginType DEF RecomputeIf
  <2>2. call' \in [Thread -> Calls]
    BY <1>1, CallsType DEF RecomputeIf, CallType
  <2>3. Goto(p, "update")
    BY <1>1 DEF RecomputeIf, BeginUpdateBalance
  <2> QED
    BY <2>1, <2>2, <2>3 DEF CallType, Goto, Labels, appVars
<1>2. CASE ~stale
  <2>1. SumType' /\ UNCHANGED lock
    BY <1>2 DEF RecomputeIf, SumType, sumVars
  <2>2. call' \in [Thread -> Calls]
    BY <1>2, CallsType DEF RecomputeIf, CallType
  <2>3. Goto(p, "cbUpdated") \/ UNCHANGED pc
    BY <1>2 DEF RecomputeIf
  <2> QED
    BY <2>1, <2>2, <2>3 DEF CallType, KeptType, Goto, Labels, appVars
<1> QED
  BY <1>1, <1>2

LEMMA KeptStep ==
  ASSUME TypeOK, [Next]_vars
  PROVE  KeptType'
<1> USE DEF TypeOK, KeptType
<1>1. ASSUME NEW p \in Thread, NEW s \in Saved, NEW hs \in SavedHeights(s), New(p, s, hs)
      PROVE  KeptType'
  BY <1>1 DEF New, SavedHeights
<1>2. ASSUME NEW p \in Thread, NewTx(p), pc[p] = "load"
      PROVE  KeptType'
  <2>1. todo[p] \in Seq(Tx) /\ todo[p] # <<>>
    BY <1>2 DEF NewTx, CallType
  <2> DEFINE t == Head(todo[p])
  <2>2. t \in Tx
    BY <2>1
  <2>3. transactions' \in Seq(Tx) /\ allTx' \subseteq Tx
    <3>1. CASE t \in allTx
      BY <1>2, <3>1 DEF NewTx
    <3>2. CASE t \notin allTx
      <4>1. allTx' = allTx \cup {t} /\ InsertTx(t, height[t])
        BY <1>2, <3>2 DEF NewTx
      <4>2. PICK k \in 0..Len(transactions) : transactions' = InsertAt(transactions, k, t)
        BY <4>1 DEF InsertTx
      <4> QED
        BY <2>2, <4>1, <4>2, InsertAtType
    <3> QED
      BY <3>1, <3>2
  <2> QED
    BY <1>2, <2>3 DEF NewTx
<1>3. ASSUME NEW p \in Thread, NewAddrs(p)
      PROVE  KeptType'
  <2>1. chain' \in [Chain -> Nat]
    BY <1>3, ExtendedType DEF NewAddrs
  <2> QED
    BY <1>3, <2>1 DEF NewAddrs, BeginUpdateBalance, keptVars
<1>4. ASSUME NEW p \in Thread, NewVerify(p) \/ Free(p)
      PROVE  KeptType'
  <2>1. ASSUME FreeWallet  PROVE KeptType'
    BY <2>1 DEF FreeWallet
  <2>2. ASSUME ~FreeWallet  PROVE KeptType'
    BY <1>4, <2>2 DEF NewVerify, Free, keptVars
  <2> QED
    BY <2>1, <2>2
<1>5. ASSUME NEW p \in Thread, NEW t \in Tx, NEW h \in Heights \cup {TX_UNCONFIRMED},
             Register(p, t, h)
      PROVE  KeptType'
  <2>1. PICK k \in 0..Len(transactions) : transactions' = InsertAt(transactions, k, t)
    BY <1>5 DEF Register, InsertTx
  <2>2. transactions' \in Seq(Tx)
    BY <2>1, InsertAtType
  <2> QED
    BY <1>5, <2>2 DEF Register, BeginUpdateBalance
<1>6. ASSUME NEW p \in Thread, NEW t \in Tx, RegisterForeign(p, t)
      PROVE  KeptType'
  BY <1>6 DEF RegisterForeign, threadVars
<1>7. ASSUME NEW p \in Thread, NEW S \in SUBSET Tx, NEW h \in Heights \cup {TX_UNCONFIRMED},
             NEW later \in BOOLEAN, UpdateTransactions(p, S, h, later)
      PROVE  KeptType'
  <2>1. lock' \in Thread \cup {NoThread}
    BY <1>7 DEF UpdateTransactions, RecomputeIf, BeginUpdateBalance
  <2> QED
    BY <1>7, <2>1 DEF UpdateTransactions
<1>8. ASSUME NEW p \in Thread, NEW h \in Heights \cup {0}, SetTxUnconfirmedAfter(p, h)
      PROVE  KeptType'
  <2>1. lock' \in Thread \cup {NoThread}
    BY <1>8 DEF SetTxUnconfirmedAfter, RecomputeIf, BeginUpdateBalance
  <2>2. height' \in [Tx -> Heights \cup {TX_UNCONFIRMED}]
    BY <1>8 DEF SetTxUnconfirmedAfter
  <2> QED
    BY <1>8, <2>1, <2>2 DEF SetTxUnconfirmedAfter
<1>9. ASSUME NEW p \in Thread, NEW t \in Tx, RemoveOne(p, t)
      PROVE  KeptType'
  <2>1. transactions' \in Seq(Tx)
    BY <1>9, DeleteAtType DEF RemoveOne
  <2> QED
    BY <1>9, <2>1 DEF RemoveOne, BeginUpdateBalance
<1>10. ASSUME NEW c \in Chain, NEW gap, UnusedAddrs(c, gap)
       PROVE  chain' \in [Chain -> Nat]
  <2>1. Extended(c, chain[c], gap, usedAddrs) \in Nat
    BY ExtendedType
  <2> QED
    BY <1>10, <2>1 DEF UnusedAddrs
<1>11. ASSUME NEW p \in Thread,
              \/ \E c \in Chain : GetUnusedAddrs(p, c, 1)
              \/ RegisterExternal(p)
              \/ RegisterInternal(p)
       PROVE  KeptType'
  <2>1. chain' \in [Chain -> Nat]
    BY <1>10, <1>11, ChainAssumption
       DEF GetUnusedAddrs, RegisterExternal, RegisterInternal, RegisterAddrs
  <2> QED
    BY <1>11, <2>1 DEF GetUnusedAddrs, RegisterExternal, RegisterInternal,
                       RegisterAddrs, keptVars, threadVars
<1>12. ASSUME NEW p \in Thread, UpdateStep(p)
       PROVE  KeptType'
  BY <1>12 DEF UpdateStep, UpdateInvalid, UpdatePending, UpdateAccepted, UpdateDone,
               keptVars, threadVars
<1>13. ASSUME NEW p \in Thread,
              \/ \E t \in Tx : Remove(p, t)
              \/ RemoveUnknown(p)
              \/ RemoveDependents(p)
              \/ RemoveNotify(p)
              \/ RemoveReturn(p)
              \/ CbBalance(p)
              \/ CbAdded(p)
              \/ CbDeleted(p)
              \/ CbUpdated(p)
       PROVE  KeptType'
  BY <1>13 DEF Remove, RemoveUnknown, RemoveDependents, RemoveNotify, RemoveReturn,
               CbBalance, CbAdded, CbDeleted, CbUpdated, RemoveUnchanged, keptVars
<1>14. CASE UNCHANGED vars
  BY <1>14 DEF vars, keptVars, threadVars
<1>15. \A p \in Thread : NewTx(p) => pc[p] = "load"
  BY DEF NewTx
<1> QED
  BY <1>1, <1>2, <1>3, <1>4, <1>5, <1>6, <1>7, <1>8, <1>9, <1>11, <1>12, <1>13,
     <1>14, <1>15
     DEF Next, Start, Continue, RemoveStep, Undefined

LEMMA SumStep ==
  ASSUME TypeOK, [Next]_vars
  PROVE  SumType'
<1> USE DEF TypeOK, SumType
<1>1. ASSUME NEW p \in Thread, NEW t \in Tx,
             UpdateInvalid(p, t) \/ UpdatePending(p, t)
      PROVE  SumType'
  <2>1. Skip /\ ub.balance \in Int /\ ub.i \in Nat \ {0}
    BY <1>1 DEF UpdateInvalid, UpdatePending
  <2>2. balanceHist' \in Seq(Int) /\ ub' \in [i : Nat \ {0}, balance : Int, prev : Int]
    BY <2>1 DEF Skip
  <2>3. In[t] \subseteq Outpoint
    BY TxAssumption
  <2> QED
    BY <1>1, <2>2, <2>3 DEF UpdateInvalid, UpdatePending
<1>2. ASSUME NEW p \in Thread, NEW t \in Tx, UpdateAccepted(p, t)
      PROVE  SumType'
  <2>1. In[t] \subseteq Outpoint /\ Own(t) \subseteq Outputs /\ Swept(t) \subseteq Outputs
    BY TxAssumption DEF Own, Swept
  <2>2. BalanceAfter(t) \in Int
    <3>1. Value[Own(t)] \in Nat /\ Value[Swept(t)] \in Nat
      BY <2>1, ValueAssumption
    <3> QED
      BY <3>1 DEF BalanceAfter
  <2> DEFINE sum == BalanceAfter(t)
  <2>3. /\ balanceHist' = Append(balanceHist, sum)
        /\ ub' = [i |-> ub.i + 1, balance |-> sum, prev |-> sum]
        /\ totalReceived' = totalReceived + (IF ub.prev < sum THEN sum - ub.prev ELSE 0)
        /\ totalSent' = totalSent + (IF sum < ub.prev THEN ub.prev - sum ELSE 0)
    BY <1>2 DEF UpdateAccepted
  <2>4. /\ spentOutputs' \subseteq Outpoint
        /\ utxos' \subseteq Outputs
        /\ NoAddr \notin usedAddrs'
        /\ UNCHANGED <<balance, invalidTx, pendingTx>>
    BY <1>2, <2>1 DEF UpdateAccepted, OutAddrs
  <2> HIDE DEF sum
  <2>5. sum \in Int
    BY <2>2 DEF sum
  <2>6. ub.prev \in Int /\ ub.i \in Nat \ {0}
    OBVIOUS
  <2>7. balanceHist' \in Seq(Int)
    BY <2>3, <2>5
  <2>8. ub' \in [i : Nat \ {0}, balance : Int, prev : Int]
    BY <2>3, <2>5, <2>6
  <2>9. totalReceived' \in Nat /\ totalSent' \in Nat
    BY <2>3, <2>5, <2>6
  <2> QED
    BY <2>4, <2>7, <2>8, <2>9
<1>3. ASSUME NEW p \in Thread, UpdateDone(p)
      PROVE  SumType'
  BY <1>3 DEF UpdateDone, NoUpdate
<1>4. ASSUME NEW p \in Thread, NewTx(p)
      PROVE  SumType'
  <2>1. NoAddr \notin usedAddrs'
    BY <1>4 DEF NewTx, OutAddrs
  <2> QED
    BY <1>4, <2>1 DEF NewTx
<1>5. ASSUME NEW p \in Thread,
             \/ NewAddrs(p)
             \/ \E t \in Tx, h \in Heights \cup {TX_UNCONFIRMED} : Register(p, t, h)
             \/ \E t \in Tx : RemoveOne(p, t)
      PROVE  SumType'
  <2>1. BeginUpdateBalance(p) /\ UNCHANGED balance
    BY <1>5 DEF NewAddrs, Register, RemoveOne
  <2> QED
    BY <2>1, BeginType
<1>6. ASSUME NEW p \in Thread, NewVerify(p) \/ Free(p)
      PROVE  SumType'
  <2>1. ASSUME FreeWallet  PROVE SumType'
    BY <2>1 DEF FreeWallet, NoUpdate
  <2>2. ASSUME ~FreeWallet  PROVE SumType'
    BY <1>6, <2>2 DEF NewVerify, Free, sumVars
  <2> QED
    BY <2>1, <2>2
<1>7. ASSUME NEW p \in Thread,
             \/ \E S \in SUBSET Tx, h \in Heights \cup {TX_UNCONFIRMED}, later \in BOOLEAN :
                  UpdateTransactions(p, S, h, later)
             \/ \E h \in Heights \cup {0} : SetTxUnconfirmedAfter(p, h)
      PROVE  SumType'
  <2>1. \E op \in DOMAIN AfterUpdate, stale, any \in BOOLEAN :
          RecomputeIf(p, op, stale, any)
    BY <1>7 DEF UpdateTransactions, SetTxUnconfirmedAfter, AfterUpdate, NeedsUpdate
  <2>2. UNCHANGED <<balance, todo, appVars>>
    BY <1>7 DEF UpdateTransactions, SetTxUnconfirmedAfter
  <2> QED
    BY <2>1, <2>2, RecomputeType
<1>8. ASSUME NEW p \in Thread,
             \/ \E s \in Saved : \E hs \in SavedHeights(s) : New(p, s, hs)
             \/ \E t \in Tx : RegisterForeign(p, t)
             \/ \E t \in Tx : Remove(p, t)
             \/ \E c \in Chain : GetUnusedAddrs(p, c, 1)
             \/ RegisterExternal(p)
             \/ RegisterInternal(p)
             \/ RemoveUnknown(p)
             \/ RemoveDependents(p)
             \/ RemoveNotify(p)
             \/ RemoveReturn(p)
             \/ CbBalance(p)
             \/ CbAdded(p)
             \/ CbDeleted(p)
             \/ CbUpdated(p)
      PROVE  SumType'
  BY <1>8 DEF New, RegisterForeign, Remove, GetUnusedAddrs, RegisterExternal,
              RegisterInternal, RegisterAddrs, RemoveUnknown, RemoveDependents,
              RemoveNotify, RemoveReturn, CbBalance, CbAdded, CbDeleted, CbUpdated,
              RemoveUnchanged, sumVars
<1>9. CASE UNCHANGED vars
  BY <1>9 DEF vars, sumVars
<1> QED
  BY <1>1, <1>2, <1>3, <1>4, <1>5, <1>6, <1>7, <1>8, <1>9
     DEF Next, Start, Continue, UpdateStep, RemoveStep, Undefined

LEMMA CallStep ==
  ASSUME TypeOK, Control, [Next]_vars
  PROVE  CallType'
<1> USE DEF TypeOK, CallType
<1>1. ASSUME NEW p \in Thread, NEW s \in Saved, NEW hs \in SavedHeights(s), New(p, s, hs)
      PROVE  CallType'
  <2>1. s \in Seq(Tx) /\ (IF s = <<>> THEN NoTx ELSE s[1]) \in Tx \cup {NoTx}
    BY TxAssumption
  <2>2. call' \in [Thread -> Calls]
    BY <1>1, <2>1, CallsType DEF New, AfterUpdate
  <2>3. pc' \in [Thread -> Labels] /\ todo' = [todo EXCEPT ![p] = s]
    BY <1>1 DEF New, Goto, Labels
  <2>4. UNCHANGED appVars
    BY <1>1 DEF New
  <2>5. \A q \in Thread : pc'[q] = "load" => todo'[q] \in Seq(Tx)
    BY <1>1, <2>1, <2>3 DEF New, Goto
  <2> QED
    BY <2>2, <2>3, <2>4, <2>5 DEF appVars
<1>2. ASSUME NEW p \in Thread, NewTx(p)
      PROVE  CallType'
  <2>1. todo[p] \in Seq(Tx) /\ todo[p] # <<>> /\ todo' = [todo EXCEPT ![p] = Tail(@)]
    BY <1>2 DEF NewTx
  <2>2. Tail(todo[p]) \in Seq(Tx)
    BY <2>1
  <2> QED
    BY <1>2, <2>1, <2>2 DEF NewTx, appVars
<1>3. ASSUME NEW p \in Thread, NewAddrs(p)
      PROVE  CallType'
  BY <1>3 DEF NewAddrs, BeginUpdateBalance, Goto, Labels, appVars
<1>4. ASSUME NEW p \in Thread, NewVerify(p)
      PROVE  CallType'
  <2>1. call' \in [Thread -> Calls] /\ pc' \in [Thread -> Labels]
    BY <1>4, ReturnType DEF NewVerify
  <2>2. \A q \in Thread : pc'[q] = "load" => todo'[q] \in Seq(Tx)
    BY <1>4 DEF NewVerify, Return, Goto
  <2>3. appTxs' \subseteq Tx /\ appBalance' \in Int
    <3>1. Range(transactions) \subseteq Tx
      BY DEF KeptType, Range
    <3>2. ASSUME FreeWallet  PROVE appTxs' \subseteq Tx /\ appBalance' \in Int
      BY <3>2 DEF FreeWallet
    <3>3. ASSUME ~FreeWallet  PROVE appTxs' = Range(transactions) /\ appBalance' = balance
      BY <1>4, <3>3 DEF NewVerify
    <3> QED
      BY <3>1, <3>2, <3>3 DEF SumType
  <2> QED
    BY <1>4, <2>1, <2>2, <2>3 DEF NewVerify
<1>5. ASSUME NEW p \in Thread, Free(p)
      PROVE  CallType'
  BY <1>5 DEF Free, FreeWallet
<1>6. ASSUME NEW p \in Thread, NEW t \in Tx, NEW h \in Heights \cup {TX_UNCONFIRMED},
             Register(p, t, h)
      PROVE  CallType'
  <2>1. call' \in [Thread -> Calls]
    BY <1>6, CallsType DEF Register, AfterUpdate
  <2> QED
    BY <1>6, <2>1 DEF Register, BeginUpdateBalance, Goto, Labels, appVars
<1>7. ASSUME NEW p \in Thread, NEW t \in Tx, RemoveOne(p, t)
      PROVE  CallType'
  <2>1. [call[p] EXCEPT !.tx = t, !.height = height[t], !.known = t \in invalidTx] \in Calls
    <3>1. height[t] \in Heights \cup {TX_UNCONFIRMED} /\ call[p] \in Calls
      BY DEF KeptType
    <3>2. (t \in invalidTx) \in BOOLEAN
      OBVIOUS
    <3> QED
      BY <3>1, <3>2 DEF Calls
  <2>2. call' \in [Thread -> Calls]
    BY <1>7, <2>1 DEF RemoveOne
  <2>3. /\ pc' = [pc EXCEPT ![p] = "update"]
        /\ todo' = [todo EXCEPT ![p] = Tail(@)]
        /\ UNCHANGED appVars
    BY <1>7 DEF RemoveOne, BeginUpdateBalance, Goto
  <2> QED
    BY <2>2, <2>3 DEF Labels, appVars
<1>8. ASSUME NEW p \in Thread, RemoveNotify(p)
      PROVE  CallType'
  <2>1. ASSUME NEW notify \in BOOLEAN, NEW rescan \in BOOLEAN
        PROVE  [call[p] EXCEPT !.notify = notify, !.rescan = rescan] \in Calls
    BY DEF Calls
  <2> DEFINE t == call[p].tx
             notify == AmountSent(t) /\ TransactionIsValid(t, call[p].height)
             rescan == /\ notify
                       /\ \A u \in In[t] : u.hash \in allTx /\ ~Unconfirmed(u.hash)
  <2>2. notify \in BOOLEAN /\ rescan \in BOOLEAN
    BY DEF AmountSent, TransactionIsValid
  <2>3. call' = [call EXCEPT ![p] = [@ EXCEPT !.notify = notify, !.rescan = rescan]]
    BY <1>8 DEF RemoveNotify
  <2> HIDE DEF notify, rescan
  <2>4. call' \in [Thread -> Calls]
    BY <2>1, <2>2, <2>3
  <2> QED
    BY <1>8, <2>4 DEF RemoveNotify, RemoveUnchanged, Goto, Labels, appVars
<1>9. ASSUME NEW p \in Thread,
             \/ \E S \in SUBSET Tx, h \in Heights \cup {TX_UNCONFIRMED}, later \in BOOLEAN :
                  UpdateTransactions(p, S, h, later)
             \/ \E h \in Heights \cup {0} : SetTxUnconfirmedAfter(p, h)
      PROVE  CallType'
  <2>1. \E op \in DOMAIN AfterUpdate, stale, any \in BOOLEAN :
          RecomputeIf(p, op, stale, any)
    BY <1>9 DEF UpdateTransactions, SetTxUnconfirmedAfter, AfterUpdate, NeedsUpdate
  <2>2. UNCHANGED <<balance, todo, appVars>>
    BY <1>9 DEF UpdateTransactions, SetTxUnconfirmedAfter
  <2> QED
    BY <2>1, <2>2, RecomputeType
<1>10. ASSUME NEW p \in Thread, UpdateDone(p)
       PROVE  CallType'
  <2>1. AfterUpdate[call[p].op] \in Labels \ {"load"}
    BY <1>10 DEF Control, ThreadControl, UpdateDone, AfterUpdate, Labels
  <2> QED
    BY <1>10, <2>1 DEF UpdateDone, Goto, appVars
<1>11. ASSUME NEW p \in Thread, NEW t \in Tx,
              UpdateInvalid(p, t) \/ UpdatePending(p, t) \/ UpdateAccepted(p, t)
       PROVE  CallType'
  BY <1>11 DEF UpdateInvalid, UpdatePending, UpdateAccepted, threadVars, appVars
<1>12. ASSUME NEW p \in Thread,
              \/ \E t \in Tx : RegisterForeign(p, t)
              \/ \E c \in Chain : GetUnusedAddrs(p, c, 1)
              \/ RegisterExternal(p)
              \/ RegisterInternal(p)
       PROVE  CallType'
  BY <1>12 DEF RegisterForeign, GetUnusedAddrs, RegisterExternal, RegisterInternal,
               RegisterAddrs, Goto, Labels, threadVars, appVars
<1>13. ASSUME NEW p \in Thread,
              \/ \E t \in Tx : Remove(p, t)
              \/ CbDeleted(p)
       PROVE  CallType'
  <2>1. call' \in [Thread -> Calls]
    BY <1>13, CallsType DEF Remove, CbDeleted, AfterUpdate
  <2> QED
    BY <1>13, <2>1 DEF Remove, CbDeleted, Goto, Labels, appVars
<1>14. ASSUME NEW p \in Thread,
              \/ CbAdded(p)
              \/ CbUpdated(p)
              \/ RemoveReturn(p)
       PROVE  CallType'
  <2>1. call' \in [Thread -> Calls] /\ pc' \in [Thread -> Labels]
    BY <1>14, ReturnType DEF CbAdded, CbUpdated, RemoveReturn
  <2>2. appTxs' \subseteq Tx /\ UNCHANGED <<todo, appBalance>>
    BY <1>14 DEF CbAdded, CbUpdated, RemoveReturn, RemoveUnchanged, Defined, KeptType, appVars
  <2> QED
    BY <1>14, <2>1, <2>2 DEF CbAdded, CbUpdated, RemoveReturn, Return, Goto
<1>15. ASSUME NEW p \in Thread, CbBalance(p)
       PROVE  CallType'
  BY <1>15 DEF CbBalance, Goto, Labels, SumType
<1>16. ASSUME NEW p \in Thread, RemoveUnknown(p) \/ RemoveDependents(p)
       PROVE  CallType'
  BY <1>16 DEF RemoveUnknown, RemoveDependents, At, RemoveUnchanged, appVars
<1>17. CASE UNCHANGED vars
  BY <1>17 DEF vars, threadVars, appVars
<1> QED
  BY <1>1, <1>2, <1>3, <1>4, <1>5, <1>6, <1>7, <1>8, <1>9, <1>10, <1>11, <1>12,
     <1>13, <1>14, <1>15, <1>16, <1>17
     DEF Next, Start, Continue, UpdateStep, RemoveStep, Undefined

-----------------------------------------------------------------------------
(* Control: who holds the lock, and where the constructor is.              *)

LEMMA UpdateLocked ==
  ASSUME TypeOK, Control, NEW p \in Thread, pc[p] \in Locking
  PROVE  lock = p /\ \A q \in Thread \ {p} : pc[q] \notin Locking
  BY DEF Control, ThreadControl

LEMMA BeginControl ==
  ASSUME TypeOK, Control, NEW p \in Thread, phase = "ready", lock = NoThread,
         pc' = [pc EXCEPT ![p] = "update"], lock' = p, phase' = phase,
         call'[p].op \in DOMAIN AfterUpdate \ {"new"},
         \A q \in Thread \ {p} : call'[q] = call[q]
  PROVE  Control'
<1>1. \A q \in Thread : pc[q] \notin Locking
  BY ThreadAssumption DEF Control, ThreadControl
<1>2. ASSUME NEW q \in Thread  PROVE ThreadControl(q)'
  BY <1>1 DEF TypeOK, CallType, Control, ThreadControl, Locking
<1> QED
  BY <1>2 DEF Control

LEMMA ControlStep ==
  ASSUME TypeOK, Control, [Next]_vars
  PROVE  Control'
<1> USE DEF TypeOK, CallType
<1>1. ASSUME NEW p \in Thread, NEW s \in Saved, NEW hs \in SavedHeights(s), New(p, s, hs)
      PROVE  Control'
  <2>1. ASSUME NEW q \in Thread  PROVE ThreadControl(q)'
    BY <1>1 DEF New, Call, Goto, Control, ThreadControl, Locking
  <2>2. phase' = "loading" /\ Listed' \subseteq allTx' /\ pc'[p] \in Locking
    BY <1>1 DEF New, Goto, Locking, Listed, Range, Control
  <2> QED
    BY <2>1, <2>2 DEF Control
<1>2. ASSUME NEW p \in Thread, NewTx(p)
      PROVE  Control'
  <2>1. pc[p] = "load" /\ todo[p] \in Seq(Tx) /\ todo[p] # <<>> /\ UNCHANGED <<phase, lock, pc, call>>
    BY <1>2 DEF NewTx
  <2> DEFINE t == Head(todo[p])
  <2>2. t \in Tx /\ phase = "loading" /\ Listed \subseteq allTx
    BY <2>1 DEF Control, ThreadControl
  <2>3. Listed' \subseteq allTx'
    <3>1. CASE t \in allTx
      BY <1>2, <2>2, <3>1 DEF NewTx, Listed
    <3>2. CASE t \notin allTx
      <4>1. allTx' = allTx \cup {t} /\ InsertTx(t, height[t])
        BY <1>2, <3>2 DEF NewTx
      <4>2. PICK k \in 0..Len(transactions) : transactions' = InsertAt(transactions, k, t)
        BY <4>1 DEF InsertTx
      <4>3. Listed' = Listed \cup {t}
        BY <2>2, <4>2, InsertAtType DEF KeptType, Listed
      <4> QED
        BY <2>2, <4>1, <4>3
    <3> QED
      BY <3>1, <3>2
  <2>4. ASSUME NEW q \in Thread  PROVE ThreadControl(q)'
    BY <2>1 DEF Control, ThreadControl
  <2> QED
    BY <2>1, <2>2, <2>3, <2>4 DEF Control
<1>3. ASSUME NEW p \in Thread, NewAddrs(p)
      PROVE  Control'
  <2>1. phase = "loading" /\ call[p].op = "new" /\ lock = p /\ Listed \subseteq allTx
    BY <1>3 DEF NewAddrs, Control, ThreadControl, Locking
  <2>2. ASSUME NEW q \in Thread  PROVE ThreadControl(q)'
    BY <1>3, <2>1 DEF NewAddrs, BeginUpdateBalance, Goto, Control, ThreadControl,
                      Locking, AfterUpdate
  <2>3. phase' = "loading" /\ Listed' \subseteq allTx' /\ pc'[p] \in Locking
    BY <1>3, <2>1 DEF NewAddrs, BeginUpdateBalance, Goto, Locking, Listed, keptVars
  <2> QED
    BY <2>2, <2>3 DEF Control
<1>4. ASSUME NEW p \in Thread, NewVerify(p)
      PROVE  Control'
  <2>1. pc' = [pc EXCEPT ![p] = "idle"] /\ \A q \in Thread \ {p} : pc[q] = "idle"
    BY <1>4 DEF NewVerify, Return, Goto, Control, ThreadControl, Locking
  <2>2. \A q \in Thread : pc'[q] = "idle"
    BY <2>1
  <2>3. \/ phase' = "ready"
        \/ phase' = "none" /\ transactions' = <<>> /\ allTx' = {} /\ lock' = NoThread
    BY <1>4 DEF NewVerify, FreeWallet
  <2> QED
    BY <2>2, <2>3 DEF Control, ThreadControl, Locking
<1>5. ASSUME NEW p \in Thread, Free(p)
      PROVE  Control'
  BY <1>5 DEF Free, FreeWallet, Idle, Control, ThreadControl, Locking
<1>6. ASSUME NEW p \in Thread, NEW t \in Tx, NEW h \in Heights \cup {TX_UNCONFIRMED},
             Register(p, t, h)
      PROVE  Control'
  <2>1. call'[p].op \in DOMAIN AfterUpdate \ {"new"} /\ \A q \in Thread \ {p} : call'[q] = call[q]
    BY <1>6 DEF Register, Call, NoCall, AfterUpdate
  <2> QED
    BY <1>6, <2>1, BeginControl DEF Register, BeginUpdateBalance, Goto, Idle
<1>7. ASSUME NEW p \in Thread, NEW t \in Tx, RemoveOne(p, t)
      PROVE  Control'
  <2>1. phase = "ready" /\ call[p].op = "remove"
    BY <1>7 DEF RemoveOne, At, Control, ThreadControl, Locking
  <2>2. call'[p].op \in DOMAIN AfterUpdate \ {"new"} /\ \A q \in Thread \ {p} : call'[q] = call[q]
    BY <1>7, <2>1 DEF RemoveOne, AfterUpdate, Calls
  <2> QED
    BY <1>7, <2>1, <2>2, BeginControl DEF RemoveOne, BeginUpdateBalance, Goto, At
<1>8. ASSUME NEW p \in Thread, NEW op \in DOMAIN AfterUpdate \ {"new"}, NEW stale, NEW any,
             phase = "ready", lock = NoThread, UNCHANGED phase,
             RecomputeIf(p, op, stale, any)
      PROVE  Control'
  <2>1. CASE stale
    <3>1. call'[p].op = op /\ \A q \in Thread \ {p} : call'[q] = call[q]
      BY <1>8, <2>1 DEF RecomputeIf, Call, NoCall
    <3> QED
      BY <1>8, <2>1, <3>1, BeginControl DEF RecomputeIf, BeginUpdateBalance, Goto
  <2>2. CASE ~stale
    <3>1. /\ UNCHANGED lock
          /\ \/ UNCHANGED <<call, pc>>
             \/ Call(p, op, NoTx) /\ Goto(p, "cbUpdated")
      BY <1>8, <2>2 DEF RecomputeIf, sumVars
    <3>2. ASSUME NEW q \in Thread  PROVE ThreadControl(q)'
      BY <1>8, <3>1 DEF Call, Goto, Control, ThreadControl, Locking
    <3> QED
      BY <1>8, <3>2 DEF Control
  <2> QED
    BY <2>1, <2>2
<1>9. ASSUME NEW p \in Thread,
             \/ \E S \in SUBSET Tx, h \in Heights \cup {TX_UNCONFIRMED}, later \in BOOLEAN :
                  UpdateTransactions(p, S, h, later)
             \/ \E h \in Heights \cup {0} : SetTxUnconfirmedAfter(p, h)
      PROVE  Control'
  <2>1. \E op \in DOMAIN AfterUpdate \ {"new"}, stale, any \in BOOLEAN :
          RecomputeIf(p, op, stale, any)
    BY <1>9 DEF UpdateTransactions, SetTxUnconfirmedAfter, AfterUpdate, NeedsUpdate
  <2>2. phase = "ready" /\ lock = NoThread /\ UNCHANGED phase
    BY <1>9 DEF UpdateTransactions, SetTxUnconfirmedAfter, Idle
  <2> QED
    BY <1>8, <2>1, <2>2
<1>10. ASSUME NEW p \in Thread, UpdateDone(p)
       PROVE  Control'
  <2>1. /\ lock = p /\ phase # "none"
        /\ phase = "loading" <=> call[p].op = "new"
        /\ call[p].op \in DOMAIN AfterUpdate
        /\ \A q \in Thread \ {p} : pc[q] \notin Locking
    BY <1>10 DEF UpdateDone, Control, ThreadControl, Locking
  <2>2. pc' = [pc EXCEPT ![p] = AfterUpdate[call[p].op]] /\ UNCHANGED <<phase, call, keptVars>>
    BY <1>10 DEF UpdateDone, Goto
  <2>3. CASE call[p].op = "new"
    <3>1. pc'[p] = "verify" /\ lock' = p /\ phase' = "loading" /\ call'[p].op = "new"
      BY <1>10, <2>1, <2>2, <2>3 DEF UpdateDone, AfterUpdate
    <3>2. ASSUME NEW q \in Thread  PROVE ThreadControl(q)'
      BY <2>1, <2>2, <3>1 DEF Control, ThreadControl, Locking
    <3> QED
      BY <2>1, <2>2, <2>3, <3>1, <3>2 DEF Control, Locking, Listed, keptVars
  <2>4. CASE call[p].op # "new"
    <3>1. pc'[p] \in {"external", "notify", "cbUpdated"} /\ phase = "ready" /\ phase' = "ready"
      BY <2>1, <2>2, <2>4 DEF AfterUpdate, KeptType
    <3>2. ASSUME NEW q \in Thread  PROVE ThreadControl(q)'
      BY <2>1, <2>2, <3>1 DEF Control, ThreadControl, Locking
    <3> QED
      BY <3>1, <3>2 DEF Control
  <2> QED
    BY <2>3, <2>4
<1>11. ASSUME NEW p \in Thread,
              \/ \E t \in Tx : UpdateInvalid(p, t) \/ UpdatePending(p, t) \/ UpdateAccepted(p, t)
              \/ \E c \in Chain : GetUnusedAddrs(p, c, 1)
       PROVE  Control'
  BY <1>11 DEF UpdateInvalid, UpdatePending, UpdateAccepted, GetUnusedAddrs, Control,
               ThreadControl, threadVars, keptVars, Listed
<1>12. ASSUME NEW p \in Thread, NEW t \in Tx, RegisterForeign(p, t)
       PROVE  Control'
  BY <1>12 DEF RegisterForeign, Idle, Control, ThreadControl, threadVars
<1>13. ASSUME NEW p \in Thread, NEW label \in Labels \ Locking,
              phase = "ready", UNCHANGED <<phase, lock>>,
              pc' = [pc EXCEPT ![p] = label],
              label = "remove" => call'[p].op = "remove",
              \A q \in Thread \ {p} : call'[q] = call[q]
       PROVE  Control'
  BY <1>13 DEF Control, ThreadControl, Locking
<1>14. ASSUME NEW p \in Thread,
              \/ \E t \in Tx : Remove(p, t)
              \/ RegisterExternal(p)
              \/ RegisterInternal(p)
              \/ CbBalance(p)
              \/ CbAdded(p)
              \/ CbDeleted(p)
              \/ CbUpdated(p)
              \/ RemoveNotify(p)
              \/ RemoveReturn(p)
       PROVE  Control'
  <2>1. phase = "ready" /\ UNCHANGED <<phase, lock>>
    BY <1>14 DEF Remove, RegisterExternal, RegisterInternal, RegisterAddrs, CbBalance,
                 CbAdded, CbDeleted, CbUpdated, RemoveNotify, RemoveReturn, RemoveUnchanged,
                 Idle, At, Control, ThreadControl, Locking
  <2>2. ASSUME (\E t \in Tx : Remove(p, t)) \/ CbDeleted(p)
        PROVE  pc' = [pc EXCEPT ![p] = "remove"] /\ call'[p].op = "remove"
    BY <2>2 DEF Remove, CbDeleted, Goto, Call, NoCall
  <2>3. ASSUME RegisterExternal(p) \/ RegisterInternal(p) \/ CbBalance(p) \/ RemoveNotify(p)
        PROVE  \E label \in {"internal", "cbBalance", "cbAdded", "cbDeleted"} :
                 pc' = [pc EXCEPT ![p] = label]
    BY <2>3 DEF RegisterExternal, RegisterInternal, RegisterAddrs, CbBalance, RemoveNotify, Goto
  <2>4. ASSUME CbAdded(p) \/ CbUpdated(p) \/ RemoveReturn(p)
        PROVE  pc' = [pc EXCEPT ![p] = "idle"]
    BY <2>4 DEF CbAdded, CbUpdated, RemoveReturn, Return, Goto
  <2>5. \A q \in Thread \ {p} : call'[q] = call[q]
    BY <1>14 DEF Remove, RegisterExternal, RegisterInternal, RegisterAddrs, CbBalance,
                 CbAdded, CbDeleted, CbUpdated, RemoveNotify, RemoveReturn, Return, Call
  <2> QED
    BY <1>13, <1>14, <2>1, <2>2, <2>3, <2>4, <2>5 DEF Labels, Locking
<1>15. ASSUME NEW p \in Thread, RemoveUnknown(p) \/ RemoveDependents(p)
       PROVE  Control'
  BY <1>15 DEF RemoveUnknown, RemoveDependents, RemoveUnchanged, Control, ThreadControl,
               keptVars, Listed
<1>16. CASE UNCHANGED vars
  BY <1>16 DEF vars, threadVars, keptVars, Control, ThreadControl, Listed
<1> QED
  BY <1>1, <1>2, <1>3, <1>4, <1>5, <1>6, <1>7, <1>9, <1>10, <1>11, <1>12,
     <1>14, <1>15, <1>16
     DEF Next, Start, Continue, UpdateStep, RemoveStep, Undefined

-----------------------------------------------------------------------------
(* The list of transactions.                                               *)

LEMMA ListedOnceStep ==
  ASSUME TypeOK, Control, ListedOnce, [Next]_vars
  PROVE  ListedOnce'
<1> USE DEF TypeOK, KeptType
<1>1. ASSUME NEW t \in Tx, NEW h, Listed \subseteq allTx, t \notin allTx, InsertTx(t, h)
      PROVE  ListedOnce'
  <2>1. PICK k \in 0..Len(transactions) : transactions' = InsertAt(transactions, k, t)
    BY <1>1 DEF InsertTx
  <2>2. t \notin Range(transactions) /\ Len(transactions') = Len(transactions) + 1
    BY <1>1, <2>1, InsertAtType DEF Listed
  <2> QED
    BY <2>1, <2>2, InsertAtOnce DEF ListedOnce
<1>2. ASSUME NEW p \in Thread, NewTx(p)
      PROVE  ListedOnce'
  <2> DEFINE t == Head(todo[p])
  <2>1. t \in Tx /\ Listed \subseteq allTx
    BY <1>2 DEF NewTx, CallType, Control, ThreadControl
  <2>2. UNCHANGED transactions \/ (t \notin allTx /\ InsertTx(t, height[t]))
    BY <1>2 DEF NewTx
  <2> HIDE DEF t
  <2> QED
    BY <1>1, <2>1, <2>2 DEF ListedOnce
<1>3. ASSUME NEW p \in Thread, NEW t \in Tx, NEW h, Register(p, t, h)
      PROVE  ListedOnce'
  BY <1>1, <1>3 DEF Register, Idle, Defined, Listed
<1>4. ASSUME NEW p \in Thread, NEW t \in Tx, RemoveOne(p, t)
      PROVE  ListedOnce'
  <2>1. \/ UNCHANGED transactions
        \/ \E k \in 1..Len(transactions) : transactions' = DeleteAt(transactions, k)
    BY <1>4 DEF RemoveOne
  <2>2. ASSUME NEW k \in 1..Len(transactions), transactions' = DeleteAt(transactions, k)
        PROVE  ListedOnce'
    <3>1. Len(transactions') = Len(transactions) - 1
      BY <2>2, DeleteAtType
    <3>2. \A i, j \in 1..(Len(transactions) - 1) :
            DeleteAt(transactions, k)[i] = DeleteAt(transactions, k)[j] => i = j
      BY DeleteAtType DEF ListedOnce
    <3> QED
      BY <2>2, <3>1, <3>2 DEF ListedOnce
  <2> QED
    BY <2>1, <2>2 DEF ListedOnce
<1>5. ASSUME transactions' = <<>>  PROVE ListedOnce'
  BY <1>5 DEF ListedOnce
<1>6. ASSUME UNCHANGED transactions  PROVE ListedOnce'
  BY <1>6 DEF ListedOnce
<1>7. ASSUME NEW p \in Thread, NewVerify(p) \/ Free(p)
      PROVE  transactions' = <<>> \/ UNCHANGED transactions
  BY <1>7 DEF NewVerify, Free, FreeWallet, keptVars
<1>8. ASSUME NEW p \in Thread,
             \/ \E s \in Saved : \E hs \in SavedHeights(s) : New(p, s, hs)
             \/ \E t \in Tx : RegisterForeign(p, t)
             \/ \E t \in Tx : Remove(p, t)
             \/ \E S \in SUBSET Tx, h \in Heights \cup {TX_UNCONFIRMED}, later \in BOOLEAN :
                  UpdateTransactions(p, S, h, later)
             \/ \E h \in Heights \cup {0} : SetTxUnconfirmedAfter(p, h)
             \/ \E c \in Chain : GetUnusedAddrs(p, c, 1)
      PROVE  UNCHANGED transactions
  BY <1>8 DEF New, RegisterForeign, Remove, UpdateTransactions, SetTxUnconfirmedAfter,
              GetUnusedAddrs, keptVars
<1>9. ASSUME NEW p \in Thread,
             \/ NewAddrs(p)
             \/ UpdateStep(p)
             \/ RegisterExternal(p)
             \/ RegisterInternal(p)
             \/ RemoveUnknown(p)
             \/ RemoveDependents(p)
             \/ RemoveNotify(p)
             \/ RemoveReturn(p)
             \/ CbBalance(p)
             \/ CbAdded(p)
             \/ CbDeleted(p)
             \/ CbUpdated(p)
      PROVE  UNCHANGED transactions
  BY <1>9 DEF NewAddrs, UpdateStep, UpdateInvalid, UpdatePending, UpdateAccepted,
              UpdateDone, RegisterExternal, RegisterInternal, RegisterAddrs,
              RemoveUnknown, RemoveDependents, RemoveNotify, RemoveReturn,
              RemoveUnchanged, CbBalance, CbAdded, CbDeleted, CbUpdated, keptVars
<1>10. UNCHANGED vars => UNCHANGED transactions
  BY DEF vars, keptVars
<1> QED
  BY <1>2, <1>3, <1>4, <1>5, <1>6, <1>7, <1>8, <1>9, <1>10
     DEF Next, Start, Continue, RemoveStep, Undefined

-----------------------------------------------------------------------------
(* The loop of _BitWalletUpdateBalance.                                    *)

(* Where the loop stands: t is none of the transactions it has seen.       *)
LEMMA Position ==
  ASSUME TypeOK, Control, ListedOnce, Accounted(Done, SoFar),
         NEW p \in Thread, NEW t \in Tx, Updating(p, t)
  PROVE  /\ Done = ub.i - 1 /\ SoFar = ub.balance
         /\ ub.i \in 1..Len(transactions)
         /\ t = transactions[ub.i]
         /\ t \notin {transactions[i] : i \in 1..Done}
         /\ {transactions[i] : i \in 1..(Done + 1)} = {transactions[i] : i \in 1..Done} \cup {t}
<1>1. Done = ub.i - 1 /\ SoFar = ub.balance
  BY DEF Updating, InUpdate, Done, SoFar
<1>2. ub.i \in 1..Len(transactions) /\ t = transactions[ub.i]
  BY DEF TypeOK, KeptType, SumType, Updating
<1>3. t \notin {transactions[i] : i \in 1..Done}
  BY <1>1, <1>2 DEF ListedOnce
<1>4. {transactions[i] : i \in 1..(Done + 1)} = {transactions[i] : i \in 1..Done} \cup {t}
  BY <1>1, <1>2
<1> QED
  BY <1>1, <1>2, <1>3, <1>4

(* A transaction that is not invalid spends nothing spent before it,       *)
(* unless it is confirmed.                                                 *)
LEMMA ConflictStep ==
  ASSUME TypeOK, Control, ListedOnce, Accounted(Done, SoFar),
         NEW p \in Thread, NEW t \in Tx, Updating(p, t), ~IsInvalid(t),
         UNCHANGED <<transactions, height, invalidTx>>, Done' = Done + 1
  PROVE  NoConflict(Done)'
<1>1. SUFFICES ASSUME NEW i \in 1..(Done + 1), NEW j \in 1..(Done + 1), i < j,
                      {transactions[i], transactions[j]} \cap invalidTx = {},
                      Unconfirmed(transactions[j])
               PROVE  In[transactions[i]] \cap In[transactions[j]] = {}
  BY DEF NoConflict, Unconfirmed
<1>2. Done \in Nat
  BY DEF Accounted, TypeOK, KeptType
<1>3. CASE j = Done + 1
  <2>1. transactions[j] = t /\ i \in 1..Done
    BY <1>1, <1>2, <1>3, Position
  <2>2. In[transactions[i]] \subseteq spentOutputs
    BY <1>1, <2>1 DEF Accounted, Statuses
  <2> QED
    BY <1>1, <2>1, <2>2 DEF IsInvalid
<1>4. CASE j # Done + 1
  <2>1. i \in 1..Done /\ j \in 1..Done
    BY <1>1, <1>2, <1>4
  <2>2. NoConflict(Done)
    BY DEF Accounted
  <2> QED
    BY <1>1, <2>1, <2>2 DEF NoConflict
<1> QED
  BY <1>3, <1>4

LEMMA SkipStep ==
  ASSUME TypeOK, Control, ListedOnce, Accounted(Done, SoFar), ub.prev = ub.balance,
         NEW p \in Thread, NEW t \in Tx, UpdateInvalid(p, t) \/ UpdatePending(p, t)
  PROVE  Accounted(Done, SoFar)' /\ (ub.prev = ub.balance)'
<1> DEFINE seen == {transactions[i] : i \in 1..Done}
<1>1. Updating(p, t) /\ Skip /\ UNCHANGED <<transactions, allTx, height, balance, utxos,
                                           totalSent, totalReceived, pc>>
  BY DEF UpdateInvalid, UpdatePending, keptVars, threadVars
<1>2. /\ Done = ub.i - 1 /\ SoFar = ub.balance /\ ub.i \in 1..Len(transactions)
      /\ t = transactions[ub.i] /\ t \notin seen
      /\ {transactions[i] : i \in 1..(Done + 1)} = seen \cup {t}
  BY <1>1, Position
<1>3. Done' = Done + 1 /\ SoFar' = SoFar /\ (ub.prev = ub.balance)'
  <2>1. ub' = [ub EXCEPT !.i = @ + 1] /\ InUpdate /\ InUpdate'
    BY <1>1 DEF Skip, Updating, InUpdate
  <2> QED
    BY <1>2, <2>1 DEF Done, SoFar, TypeOK, SumType
<1>4. Amounts(Done, SoFar)'
  <2>1. balanceHist' = Append(balanceHist, SoFar) /\ Len(balanceHist) = Done
    BY <1>1, <1>2 DEF Skip, Accounted, Amounts
  <2>2. balanceHist \in Seq(Int) /\ SoFar \in Int
    BY <1>2 DEF TypeOK, SumType
  <2>3. Len(balanceHist') = Done + 1 /\ balanceHist'[Done + 1] = SoFar
    BY <2>1, <2>2
  <2>4. SoFar = Value[utxos] /\ totalReceived = totalSent + SoFar
    BY DEF Accounted, Amounts
  <2>5. Done + 1 # 0
    BY <1>2
  <2> QED
    BY <1>1, <1>3, <2>3, <2>4, <2>5 DEF Amounts
<1>5. {transactions[i] : i \in 1..Done}' = seen \cup {t}
  BY <1>1, <1>2, <1>3
<1> HIDE DEF seen
<1>6. /\ \A u \in utxos : u.hash \in seen
      /\ \A s \in invalidTx \cup pendingTx : s \in seen /\ (Listed \subseteq allTx => Unconfirmed(s))
      /\ \A s \in seen \ invalidTx : In[s] \subseteq spentOutputs
      /\ \A s \in seen \ (invalidTx \cup pendingTx) : In[s] \cap utxos = {}
  BY DEF Accounted, Statuses, seen
<1>7. CASE UpdateInvalid(p, t)
  <2>1. Unconfirmed(t) /\ invalidTx' = invalidTx \cup {t} /\ UNCHANGED <<spentOutputs, pendingTx>>
    BY <1>7 DEF UpdateInvalid, IsInvalid
  <2>2. Statuses(Done)'
    BY <1>1, <1>2, <1>5, <1>6, <2>1 DEF Statuses, Unconfirmed, Listed
  <2>3. NoConflict(Done)'
    <3>1. SUFFICES ASSUME NEW i \in 1..(Done + 1), NEW j \in 1..(Done + 1), i < j,
                          {transactions[i], transactions[j]} \cap invalidTx' = {},
                          Unconfirmed(transactions[j])
                   PROVE  In[transactions[i]] \cap In[transactions[j]] = {}
      BY <1>1, <1>3 DEF NoConflict, Unconfirmed
    <3>2. i \in 1..Done /\ j \in 1..Done /\ {transactions[i], transactions[j]} \cap invalidTx = {}
      BY <1>2, <2>1, <3>1
    <3> QED
      BY <3>1, <3>2 DEF Accounted, NoConflict
  <2> QED
    BY <1>1, <1>2, <1>3, <1>4, <2>2, <2>3 DEF Accounted
<1>8. CASE UpdatePending(p, t)
  <2>1. /\ Unconfirmed(t) /\ ~IsInvalid(t)
        /\ pendingTx' = pendingTx \cup {t}
        /\ spentOutputs' = spentOutputs \cup In[t]
        /\ UNCHANGED invalidTx
    BY <1>8 DEF UpdatePending, IsPending
  <2>2. Statuses(Done)'
    BY <1>1, <1>2, <1>5, <1>6, <2>1 DEF Statuses, Unconfirmed, Listed
  <2>3. NoConflict(Done)'
    BY <1>1, <1>3, <2>1, ConflictStep
  <2> QED
    BY <1>1, <1>2, <1>3, <1>4, <2>2, <2>3 DEF Accounted
<1> QED
  BY <1>7, <1>8

LEMMA AcceptedStep ==
  ASSUME TypeOK, Control, ListedOnce, Accounted(Done, SoFar), ub.prev = ub.balance,
         NEW p \in Thread, NEW t \in Tx, UpdateAccepted(p, t)
  PROVE  Accounted(Done, SoFar)' /\ (ub.prev = ub.balance)'
<1> DEFINE seen == {transactions[i] : i \in 1..Done}
           sum == BalanceAfter(t)
           swept == Swept(t)
           own == Own(t)
<1>1. /\ Updating(p, t) /\ ~IsInvalid(t)
      /\ spentOutputs' = spentOutputs \cup In[t]
      /\ utxos' = (utxos \cup own) \ swept
      /\ totalReceived' = totalReceived + (IF ub.prev < sum THEN sum - ub.prev ELSE 0)
      /\ totalSent' = totalSent + (IF sum < ub.prev THEN ub.prev - sum ELSE 0)
      /\ balanceHist' = Append(balanceHist, sum)
      /\ ub' = [i |-> ub.i + 1, balance |-> sum, prev |-> sum]
      /\ UNCHANGED <<transactions, allTx, height, invalidTx, pendingTx, pc>>
  BY DEF UpdateAccepted, keptVars, threadVars
<1>2. /\ Done = ub.i - 1 /\ SoFar = ub.balance /\ ub.i \in 1..Len(transactions)
      /\ t = transactions[ub.i] /\ t \notin seen
      /\ {transactions[i] : i \in 1..(Done + 1)} = seen \cup {t}
  BY <1>1, Position
<1>3. Done' = Done + 1 /\ SoFar' = sum /\ (ub.prev = ub.balance)'
  <2>1. InUpdate /\ InUpdate'
    BY <1>1 DEF Updating, InUpdate
  <2> QED
    BY <1>1, <1>2, <2>1 DEF Done, SoFar, TypeOK, SumType
<1>4. {transactions[i] : i \in 1..Done}' = seen \cup {t}
  BY <1>1, <1>2, <1>3
<1>5. /\ \A u \in utxos : u.hash \in seen
      /\ \A s \in invalidTx \cup pendingTx : s \in seen /\ (Listed \subseteq allTx => Unconfirmed(s))
      /\ \A s \in seen \ invalidTx : In[s] \subseteq spentOutputs
      /\ \A s \in seen \ (invalidTx \cup pendingTx) : In[s] \cap utxos = {}
  BY DEF Accounted, Statuses
<1>6. /\ own \subseteq Outputs /\ \A u \in own : u.hash = t
      /\ swept = (utxos \cup own) \cap (spentOutputs \cup In[t])
      /\ utxos \subseteq Outputs
  BY DEF Own, Swept, TypeOK, SumType
<1>7. sum = ub.balance + Value[own] - Value[swept]
  BY DEF BalanceAfter
<1> HIDE DEF seen, sum, swept, own
<1>8. sum = Value[utxos'] /\ sum \in Int
  <2>1. utxos \cap own = {}
    BY <1>2, <1>5, <1>6
  <2>2. Value[utxos \cup own] = Value[utxos] + Value[own]
    BY <1>6, <2>1, ValueAssumption
  <2>3. /\ utxos' \subseteq Outputs /\ swept \subseteq Outputs
        /\ utxos' \cap swept = {} /\ utxos' \cup swept = utxos \cup own
    BY <1>1, <1>6
  <2>4. Value[utxos \cup own] = Value[utxos'] + Value[swept]
    BY <2>3, ValueAssumption
  <2>5. /\ Value[utxos] \in Nat /\ Value[own] \in Nat
        /\ Value[swept] \in Nat /\ Value[utxos'] \in Nat
    BY <1>6, <2>3, ValueAssumption
  <2>6. ub.balance = Value[utxos]
    BY <1>2 DEF Accounted, Amounts
  <2> QED
    BY <1>7, <2>2, <2>4, <2>5, <2>6
<1>9. Amounts(Done, SoFar)'
  <2>1. Len(balanceHist) = Done /\ totalReceived = totalSent + ub.prev
    BY <1>2 DEF Accounted, Amounts
  <2>2. /\ balanceHist \in Seq(Int) /\ totalSent \in Nat /\ totalReceived \in Nat
        /\ ub.prev \in Int
    BY DEF TypeOK, SumType
  <2>3. Len(balanceHist') = Done + 1 /\ balanceHist'[Done + 1] = sum
    BY <1>1, <1>8, <2>1, <2>2
  <2>4. totalReceived' = totalSent' + sum
    BY <1>1, <1>8, <2>1, <2>2
  <2>5. Done + 1 # 0
    BY <1>2
  <2> QED
    BY <1>3, <1>8, <2>3, <2>4, <2>5 DEF Amounts
<1>10. Statuses(Done)'
  <2>1. \A u \in utxos' : u.hash \in seen \cup {t}
    BY <1>1, <1>5, <1>6
  <2>2. \A s \in (seen \cup {t}) \ invalidTx : In[s] \subseteq spentOutputs'
    BY <1>1, <1>5
  <2>3. utxos' \cap spentOutputs' = {}
    BY <1>1, <1>6
  <2> QED
    BY <1>1, <1>4, <1>5, <2>1, <2>2, <2>3 DEF Statuses, Unconfirmed, Listed
<1>11. NoConflict(Done)'
  BY <1>1, <1>3, ConflictStep
<1> QED
  BY <1>1, <1>2, <1>3, <1>9, <1>10, <1>11 DEF Accounted

-----------------------------------------------------------------------------
(* The steps outside the loop.                                             *)

Balanced == ub.prev = ub.balance /\ (~Loading => Accounted(Done, SoFar))

(* Nothing is accounted for when the loop begins or the wallet is freed.   *)
LEMMA ClearedAccount ==
  ASSUME utxos' = {}, balanceHist' = <<>>, totalSent' = 0, totalReceived' = 0,
         invalidTx' = {}, pendingTx' = {}, ub' = NoUpdate,
         transactions' \in Seq(Tx),
         InUpdate' \/ (transactions' = <<>> /\ balance' = 0)
  PROVE  Balanced'
<1>1. Done' = 0 /\ SoFar' = 0 /\ (ub.prev = ub.balance)'
  BY DEF Done, SoFar, NoUpdate
<1>2. Amounts(0, 0)'
  BY ValueAssumption DEF Amounts
<1>3. Statuses(0)'
  BY DEF Statuses
<1>4. NoConflict(0)'
  BY DEF NoConflict
<1>5. 0 \in 0..Len(transactions')
  OBVIOUS
<1> QED
  BY <1>1, <1>2, <1>3, <1>4, <1>5 DEF Accounted, Balanced

LEMMA BeginBalanced ==
  ASSUME TypeOK, NEW p \in Thread, BeginUpdateBalance(p), KeptType'
  PROVE  Balanced'
<1>1. InUpdate'
  BY DEF BeginUpdateBalance, Goto, InUpdate, TypeOK, CallType
<1> QED
  BY <1>1, ClearedAccount DEF BeginUpdateBalance, KeptType

LEMMA FreeBalanced ==
  ASSUME FreeWallet
  PROVE  Balanced'
  BY ClearedAccount DEF FreeWallet

(* Steps that change no balance, and of the transactions only where no     *)
(* balance depends on it: one that is not listed, or a height from one     *)
(* block to another or to the unconfirmed of what the balance leaves out.  *)
LEMMA CalmBalanced ==
  ASSUME TypeOK, Balanced, UNCHANGED <<transactions, balance, sumVars>>,
         InUpdate' = InUpdate, ~Loading' => ~Loading,
         Listed \subseteq allTx' => Listed \subseteq allTx,
         \A t \in Listed : Unconfirmed(t)' => Unconfirmed(t),
         Listed \subseteq allTx' =>
           \A t \in invalidTx \cup pendingTx :
             t \in Listed /\ Unconfirmed(t) => Unconfirmed(t)'
  PROVE  Balanced'
<1>1. SUFFICES ASSUME ~Loading  PROVE Accounted(Done, SoFar)'
  BY DEF Balanced, sumVars
<1>2. Accounted(Done, SoFar) /\ Done' = Done /\ SoFar' = SoFar
  BY <1>1 DEF Balanced, Done, SoFar, sumVars
<1>3. Done \in 0..Len(transactions) /\ Len(transactions) \in Nat
  BY <1>2 DEF Accounted, TypeOK, KeptType
<1>4. {transactions[i] : i \in 1..Done} \subseteq Listed
  BY <1>3 DEF Listed, Range, TypeOK, KeptType
<1>5. Amounts(Done, SoFar)'
  BY <1>2 DEF Accounted, Amounts, sumVars
<1>6. Statuses(Done)'
  BY <1>2, <1>4 DEF Accounted, Statuses, sumVars, Listed
<1>7. NoConflict(Done)'
  <2>1. SUFFICES ASSUME NEW i \in 1..Done, NEW j \in 1..Done, i < j,
                        {transactions[i], transactions[j]} \cap invalidTx = {},
                        Unconfirmed(transactions[j])'
                 PROVE  In[transactions[i]] \cap In[transactions[j]] = {}
    BY <1>2 DEF NoConflict, sumVars, Unconfirmed
  <2>2. Unconfirmed(transactions[j])
    BY <1>4, <2>1 DEF Unconfirmed
  <2> QED
    BY <1>2, <2>1, <2>2 DEF Accounted, NoConflict
<1> QED
  BY <1>2, <1>3, <1>5, <1>6, <1>7 DEF Accounted

(* A thread that goes from one place to another outside the loop.          *)
LEMMA GotoCalm ==
  ASSUME TypeOK, NEW p \in Thread, NEW label, label \notin {"update", "load"},
         pc[p] \notin {"update", "load"}, pc' = [pc EXCEPT ![p] = label]
  PROVE  InUpdate' = InUpdate /\ Loading' = Loading
<1>1. \A q \in Thread : pc'[q] = IF q = p THEN label ELSE pc[q]
  BY DEF TypeOK, CallType
<1>2. InUpdate' <=> InUpdate
  BY <1>1 DEF InUpdate
<1>3. Loading' <=> Loading
  BY <1>1 DEF Loading
<1> QED
  BY <1>2, <1>3 DEF InUpdate, Loading

LEMMA StillBalanced ==
  ASSUME TypeOK, Balanced, UNCHANGED <<keptVars, balance, sumVars>>,
         InUpdate' = InUpdate, ~Loading' => ~Loading
  PROVE  Balanced'
  BY CalmBalanced DEF keptVars, Unconfirmed

LEMMA DoneBalanced ==
  ASSUME TypeOK, Control, Balanced, NEW p \in Thread, UpdateDone(p)
  PROVE  Balanced'
<1>1. \A q \in Thread \ {p} : pc[q] \notin {"update", "load"}
  BY UpdateLocked DEF UpdateDone, Locking
<1>2. AfterUpdate[call[p].op] \notin {"update", "load"}
  BY DEF UpdateDone, Control, ThreadControl, AfterUpdate
<1>3. ~InUpdate' /\ InUpdate /\ ~Loading
  BY <1>1, <1>2 DEF UpdateDone, Goto, InUpdate, Loading, TypeOK, CallType
<1>4. Accounted(Done, SoFar) /\ Done = ub.i - 1 /\ SoFar = ub.balance
  BY <1>3 DEF Balanced, Done, SoFar
<1>5. Done = Len(transactions)
  BY <1>4 DEF UpdateDone, Accounted, TypeOK, KeptType, SumType
<1>6. Done' = Done /\ SoFar' = SoFar
  BY <1>3, <1>4, <1>5 DEF Done, SoFar, UpdateDone, keptVars
<1>7. ub'.prev = ub'.balance
  BY DEF UpdateDone, NoUpdate
<1>8. UNCHANGED <<keptVars, utxos, balanceHist, totalSent, totalReceived,
                  spentOutputs, invalidTx, pendingTx>>
  BY DEF UpdateDone
<1>9. Amounts(Done, SoFar)'
  BY <1>4, <1>6, <1>8 DEF Accounted, Amounts
<1>10. Statuses(Done)'
  BY <1>4, <1>6, <1>8 DEF Accounted, Statuses, keptVars, Listed, Unconfirmed
<1>11. NoConflict(Done)'
  BY <1>4, <1>6, <1>8 DEF Accounted, NoConflict, keptVars, Unconfirmed
<1>12. (Done \in 0..Len(transactions))'
  BY <1>4, <1>6, <1>8 DEF Accounted, keptVars
<1> QED
  BY <1>7, <1>9, <1>10, <1>11, <1>12 DEF Accounted, Balanced

LEMMA BlocksBalanced ==
  ASSUME TypeOK, Control, Balanced, NEW p \in Thread, KeptType',
         \/ \E S \in SUBSET Tx, h \in Heights \cup {TX_UNCONFIRMED}, later \in BOOLEAN :
              UpdateTransactions(p, S, h, later)
         \/ \E h \in Heights \cup {0} : SetTxUnconfirmedAfter(p, h)
  PROVE  Balanced'
<1>1. ASSUME NEW op, UNCHANGED <<call, pc>> \/ (Call(p, op, NoTx) /\ Goto(p, "cbUpdated")),
             Idle(p)
      PROVE  InUpdate' = InUpdate /\ Loading' = Loading
  BY <1>1, GotoCalm DEF Idle, Goto, InUpdate, Loading
<1>2. ASSUME NEW S \in SUBSET Tx, NEW h \in Heights \cup {TX_UNCONFIRMED},
             NEW later \in BOOLEAN, UpdateTransactions(p, S, h, later)
      PROVE  Balanced'
  <2> DEFINE touched == {t \in S \cap allTx : height[t] # h \/ later}
             listed == {t \in touched : ContainsTx(t)}
             dropped == IF h = TX_UNCONFIRMED THEN {} ELSE touched \ listed
  <2>1. /\ Idle(p)
        /\ h = TX_UNCONFIRMED => \A t \in S : Unconfirmed(t)
        /\ height' = [t \in Tx |-> IF t \in touched THEN h ELSE height[t]]
        /\ allTx' = allTx \ dropped
        /\ RecomputeIf(p, "update", NeedsUpdate(listed), listed # {})
        /\ UNCHANGED <<transactions, balance>>
    BY <1>2 DEF UpdateTransactions
  <2>2. touched \subseteq S /\ touched \subseteq allTx /\ listed \subseteq touched
        /\ (h # TX_UNCONFIRMED => touched \subseteq listed \cup dropped)
    OBVIOUS
  <2> HIDE DEF touched, listed, dropped
  <2>3. CASE NeedsUpdate(listed)
    BY <2>1, <2>3, BeginBalanced DEF RecomputeIf
  <2>4. CASE ~NeedsUpdate(listed)
    <3>1. UNCHANGED sumVars /\ InUpdate' = InUpdate /\ Loading' = Loading
      BY <1>1, <2>1, <2>4 DEF RecomputeIf
    <3>2. Listed \subseteq Tx
      BY DEF TypeOK, KeptType, Listed, Range
    <3>3. \A t \in Listed : Unconfirmed(t)' => Unconfirmed(t)
      BY <2>1, <2>2, <3>2 DEF Unconfirmed
    <3>4. ASSUME Listed \subseteq allTx', NEW t \in invalidTx \cup pendingTx,
                 t \in Listed, Unconfirmed(t)
          PROVE  Unconfirmed(t)'
      <4>1. t \notin dropped /\ t \notin listed
        BY <2>1, <2>4, <3>4 DEF NeedsUpdate
      <4> QED
        BY <2>1, <2>2, <3>2, <3>4, <4>1 DEF Unconfirmed
    <3>5. Listed \subseteq allTx' => Listed \subseteq allTx
      BY <2>1
    <3> QED
      BY <2>1, <3>1, <3>3, <3>4, <3>5, CalmBalanced
  <2> QED
    BY <2>3, <2>4
<1>3. ASSUME NEW h \in Heights \cup {0}, SetTxUnconfirmedAfter(p, h)
      PROVE  Balanced'
  <2>1. PICK i \in 0..Len(transactions) :
          LET after == {transactions[j] : j \in (i + 1)..Len(transactions)}
          IN /\ height' = [t \in Tx |-> IF t \in after THEN TX_UNCONFIRMED ELSE height[t]]
             /\ RecomputeIf(p, "unconfirm", after # {}, after # {})
    BY <1>3 DEF SetTxUnconfirmedAfter
  <2> DEFINE after == {transactions[j] : j \in (i + 1)..Len(transactions)}
  <2>2. /\ Idle(p) /\ UNCHANGED <<transactions, allTx, balance>>
        /\ height' = [t \in Tx |-> IF t \in after THEN TX_UNCONFIRMED ELSE height[t]]
        /\ RecomputeIf(p, "unconfirm", after # {}, after # {})
    BY <1>3, <2>1 DEF SetTxUnconfirmedAfter
  <2> HIDE DEF after
  <2>3. CASE after # {}
    BY <2>2, <2>3, BeginBalanced DEF RecomputeIf
  <2>4. CASE after = {}
    <3>1. UNCHANGED sumVars /\ InUpdate' = InUpdate /\ Loading' = Loading
      BY <1>1, <2>2, <2>4 DEF RecomputeIf
    <3>2. \A t \in Listed : Unconfirmed(t)' <=> Unconfirmed(t)
      BY <2>2, <2>4 DEF Unconfirmed, TypeOK, KeptType, Listed, Range
    <3> QED
      BY <2>2, <3>1, <3>2, CalmBalanced
  <2> QED
    BY <2>3, <2>4
<1> QED
  BY <1>2, <1>3

LEMMA ForeignBalanced ==
  ASSUME TypeOK, Balanced, NEW p \in Thread, NEW t \in Tx, RegisterForeign(p, t)
  PROVE  Balanced'
<1>1. Listed \subseteq allTx /\ t \notin Listed /\ Listed \subseteq Tx
  BY DEF RegisterForeign, Idle, Defined, Listed, TypeOK, KeptType, Range
<1>2. \A s \in Listed : Unconfirmed(s)' <=> Unconfirmed(s)
  BY <1>1 DEF RegisterForeign, Unconfirmed, TypeOK, KeptType
<1>3. /\ UNCHANGED <<transactions, balance, sumVars>>
      /\ InUpdate' = InUpdate /\ Loading' = Loading
  BY DEF RegisterForeign, threadVars, InUpdate, Loading
<1> QED
  BY <1>1, <1>2, <1>3, CalmBalanced

LEMMA BalancedStep ==
  ASSUME TypeOK, Control, ListedOnce, Balanced, [Next]_vars, KeptType'
  PROVE  Balanced'
<1>1. ASSUME NEW p \in Thread, NEW s \in Saved, NEW hs \in SavedHeights(s), New(p, s, hs)
      PROVE  Balanced'
  <2>1. Loading'
    BY <1>1 DEF New, Goto, Loading, TypeOK, CallType
  <2> QED
    BY <1>1, <2>1 DEF New, Balanced, sumVars
<1>2. ASSUME NEW p \in Thread, NewTx(p)
      PROVE  Balanced'
  <2>1. Loading'
    BY <1>2 DEF NewTx, Loading
  <2> QED
    BY <1>2, <2>1 DEF NewTx, Balanced
<1>3. ASSUME NEW p \in Thread,
             \/ NewAddrs(p)
             \/ \E t \in Tx, h \in Heights \cup {TX_UNCONFIRMED} : Register(p, t, h)
             \/ \E t \in Tx : RemoveOne(p, t)
      PROVE  Balanced'
  BY <1>3, BeginBalanced DEF NewAddrs, Register, RemoveOne
<1>4. ASSUME NEW p \in Thread, NewVerify(p)
      PROVE  Balanced'
  <2>1. CASE FreeWallet
    BY <2>1, FreeBalanced
  <2>2. CASE ~FreeWallet
    <3>1. InUpdate' = InUpdate /\ Loading' = Loading
      BY <1>4, GotoCalm DEF NewVerify, Return, Goto
    <3>2. UNCHANGED <<keptVars, balance, sumVars>>
      BY <1>4, <2>2 DEF NewVerify
    <3> QED
      BY <3>1, <3>2, StillBalanced
  <2> QED
    BY <2>1, <2>2
<1>5. ASSUME NEW p \in Thread, Free(p)
      PROVE  Balanced'
  BY <1>5, FreeBalanced DEF Free
<1>6. ASSUME NEW p \in Thread, NEW t \in Tx,
             UpdateInvalid(p, t) \/ UpdatePending(p, t) \/ UpdateAccepted(p, t)
      PROVE  Balanced'
  <2>1. pc[p] = "update"
    BY <1>6 DEF UpdateInvalid, UpdatePending, UpdateAccepted, Updating
  <2>2. ~Loading
    BY <2>1, UpdateLocked DEF Loading, Locking
  <2> QED
    BY <1>6, <2>2, SkipStep, AcceptedStep DEF Balanced
<1>7. ASSUME NEW p \in Thread,
             \/ \E t \in Tx : Remove(p, t)
             \/ RegisterExternal(p)
             \/ RegisterInternal(p)
             \/ RemoveNotify(p)
             \/ RemoveReturn(p)
             \/ CbBalance(p)
             \/ CbAdded(p)
             \/ CbDeleted(p)
             \/ CbUpdated(p)
      PROVE  Balanced'
  <2>1. UNCHANGED <<keptVars, balance, sumVars>>
    BY <1>7 DEF Remove, RegisterExternal, RegisterInternal, RegisterAddrs, RemoveNotify,
                RemoveReturn, CbBalance, CbAdded, CbDeleted, CbUpdated, RemoveUnchanged
  <2>2. pc[p] \notin {"update", "load"}
    BY <1>7 DEF Remove, RegisterExternal, RegisterInternal, RegisterAddrs, RemoveNotify,
                RemoveReturn, CbBalance, CbAdded, CbDeleted, CbUpdated, Idle, At
  <2>3. \E label \in {"remove", "internal", "cbBalance", "idle", "cbAdded", "cbDeleted"} :
          pc' = [pc EXCEPT ![p] = label]
    BY <1>7 DEF Remove, RegisterExternal, RegisterInternal, RegisterAddrs, RemoveNotify,
                RemoveReturn, CbBalance, CbAdded, CbDeleted, CbUpdated, Return, Goto
  <2>4. InUpdate' = InUpdate /\ Loading' = Loading
    BY <2>2, <2>3, GotoCalm
  <2> QED
    BY <2>1, <2>4, StillBalanced
<1>8. ASSUME NEW p \in Thread,
             \/ \E c \in Chain : GetUnusedAddrs(p, c, 1)
             \/ RemoveUnknown(p)
             \/ RemoveDependents(p)
      PROVE  Balanced'
  BY <1>8, StillBalanced DEF GetUnusedAddrs, RemoveUnknown, RemoveDependents,
                             RemoveUnchanged, threadVars, InUpdate, Loading
<1>9. CASE UNCHANGED vars
  BY <1>9, StillBalanced DEF vars, threadVars, InUpdate, Loading
<1> QED
  BY <1>1, <1>2, <1>3, <1>4, <1>5, <1>6, <1>7, <1>8, <1>9, DoneBalanced,
     BlocksBalanced, ForeignBalanced
     DEF Next, Start, Continue, UpdateStep, RemoveStep, Undefined

-----------------------------------------------------------------------------
(* The coins of accepted transactions.                                     *)

LEMMA CoinsKeptLoop ==
  ASSUME TypeOK, Control, ListedOnce, Balanced, InUpdate => CoinsKept,
         NEW p \in Thread, NEW t \in Tx,
         UpdateInvalid(p, t) \/ UpdatePending(p, t) \/ UpdateAccepted(p, t)
  PROVE  CoinsKept'
<1> DEFINE seen == {transactions[i] : i \in 1..Done}
<1>1. Updating(p, t) /\ InUpdate /\ ~Loading /\ UNCHANGED <<transactions, chain, pc>>
  <2>1. Updating(p, t) /\ UNCHANGED <<transactions, chain, pc>>
    BY DEF UpdateInvalid, UpdatePending, UpdateAccepted, keptVars, threadVars
  <2>2. \A q \in Thread : pc[q] # "load"
    BY <2>1, UpdateLocked DEF Updating, Locking
  <2> QED
    BY <2>1, <2>2 DEF Updating, InUpdate, Loading
<1>2. Accounted(Done, SoFar) /\ CoinsKept
  BY <1>1 DEF Balanced
<1>3. /\ Done = ub.i - 1 /\ t \notin seen
      /\ {transactions[i] : i \in 1..(Done + 1)} = seen \cup {t}
  BY <1>1, <1>2, Position
<1>4. ub'.i = ub.i + 1
  BY DEF UpdateInvalid, UpdatePending, UpdateAccepted, Skip, TypeOK, SumType
<1>5. Done' = Done + 1
  BY <1>1, <1>3, <1>4 DEF Done, InUpdate, TypeOK, SumType
<1>6. {transactions[i] : i \in 1..Done}' = seen \cup {t}
  BY <1>1, <1>3, <1>5
<1>7. \A s \in Tx : Own(s)' = Own(s)
  BY <1>1 DEF Own, AllAddrs, AddrsOf
<1>8. seen \subseteq Tx /\ \A s \in invalidTx \cup pendingTx : s \in seen
  <2>1. Done \in 0..Len(transactions) /\ transactions \in Seq(Tx)
    BY <1>2 DEF Accounted, TypeOK, KeptType
  <2> QED
    BY <1>2, <2>1 DEF Accounted, Statuses
<1>9. /\ spentOutputs \subseteq UNION {In[s] : s \in seen \ invalidTx}
      /\ \A s \in seen \ (invalidTx \cup pendingTx) : Own(s) \subseteq utxos \cup spentOutputs
  BY <1>2 DEF CoinsKept
<1> HIDE DEF seen
<1>10. CASE UpdateInvalid(p, t)
  BY <1>3, <1>6, <1>7, <1>8, <1>9, <1>10 DEF UpdateInvalid, CoinsKept
<1>11. CASE UpdatePending(p, t)
  BY <1>3, <1>6, <1>7, <1>8, <1>9, <1>11 DEF UpdatePending, CoinsKept
<1>12. CASE UpdateAccepted(p, t)
  <2>1. /\ spentOutputs' = spentOutputs \cup In[t]
        /\ utxos \cup Own(t) \subseteq utxos' \cup spentOutputs'
        /\ UNCHANGED <<invalidTx, pendingTx>>
    BY <1>12 DEF UpdateAccepted, Swept
  <2> QED
    BY <1>3, <1>6, <1>7, <1>8, <1>9, <2>1 DEF CoinsKept
<1> QED
  BY <1>10, <1>11, <1>12

LEMMA CoinsKeptStep ==
  ASSUME TypeOK, Control, ListedOnce, Balanced, InUpdate => CoinsKept, [Next]_vars
  PROVE  (InUpdate => CoinsKept)'
<1> SUFFICES ASSUME InUpdate'  PROVE CoinsKept'
  OBVIOUS
<1>1. ASSUME NEW p \in Thread, BeginUpdateBalance(p)
      PROVE  CoinsKept'
  <2>1. Done' = 0
    BY <1>1 DEF BeginUpdateBalance, NoUpdate, Done
  <2> QED
    BY <1>1, <2>1 DEF BeginUpdateBalance, CoinsKept
<1>2. ASSUME InUpdate, UNCHANGED <<transactions, chain, sumVars>>
      PROVE  CoinsKept'
  <2>1. Done' = Done
    BY <1>2 DEF Done, sumVars
  <2>2. \A s : Own(s)' = Own(s)
    BY <1>2 DEF Own, AllAddrs, AddrsOf
  <2> QED
    BY <1>2, <2>1, <2>2 DEF CoinsKept, sumVars
<1>3. InUpdate => lock # NoThread /\ phase # "none" /\ ~Loading
  <2>1. ASSUME NEW p \in Thread, pc[p] = "update"
        PROVE  lock # NoThread /\ phase # "none" /\ \A q \in Thread : pc[q] # "load"
    BY <2>1, UpdateLocked, ThreadAssumption DEF Control, ThreadControl, Locking
  <2> QED
    BY <2>1 DEF InUpdate, Loading
<1>4. ASSUME NEW p \in Thread,
             NewAddrs(p) \/ (\E t \in Tx, h \in Heights \cup {TX_UNCONFIRMED} : Register(p, t, h))
             \/ (\E t \in Tx : RemoveOne(p, t))
      PROVE  CoinsKept'
  BY <1>1, <1>4 DEF NewAddrs, Register, RemoveOne
<1>5. ASSUME NEW p \in Thread, NEW label, label # "update", pc' = [pc EXCEPT ![p] = label]
      PROVE  InUpdate
  BY <1>5 DEF InUpdate, TypeOK, CallType
<1>6. ASSUME NEW p \in Thread, NEW op, NEW stale, NEW any, RecomputeIf(p, op, stale, any),
             lock = NoThread
      PROVE  CoinsKept'
  <2>1. ASSUME UNCHANGED pc \/ Goto(p, "cbUpdated")  PROVE FALSE
    BY <1>3, <1>5, <1>6, <2>1 DEF Goto, InUpdate
  <2> QED
    BY <1>1, <1>6, <2>1 DEF RecomputeIf
<1>7. ASSUME NEW p \in Thread,
             \/ \E S \in SUBSET Tx, h \in Heights \cup {TX_UNCONFIRMED}, later \in BOOLEAN :
                  UpdateTransactions(p, S, h, later)
             \/ \E h \in Heights \cup {0} : SetTxUnconfirmedAfter(p, h)
      PROVE  CoinsKept'
  BY <1>6, <1>7 DEF UpdateTransactions, SetTxUnconfirmedAfter
<1>8. ASSUME NEW p \in Thread, UpdateDone(p)
      PROVE  FALSE
  <2>1. \A q \in Thread \ {p} : pc[q] # "update"
    BY <1>8, UpdateLocked DEF UpdateDone, Locking
  <2>2. AfterUpdate[call[p].op] # "update"
    BY <1>8 DEF UpdateDone, Control, ThreadControl, AfterUpdate
  <2> QED
    BY <1>8, <2>1, <2>2 DEF UpdateDone, Goto, InUpdate, TypeOK, CallType
<1>9. ASSUME NEW p \in Thread, NewVerify(p) \/ Free(p)
      PROVE  FALSE
  <2>1. \A q \in Thread : pc'[q] # "update"
    BY <1>9, UpdateLocked
       DEF NewVerify, Free, Idle, Return, Goto, Locking, TypeOK, CallType
  <2> QED
    BY <2>1 DEF InUpdate
<1>10. ASSUME NEW p \in Thread,
              \/ \E s \in Saved : \E hs \in SavedHeights(s) : New(p, s, hs)
              \/ NewTx(p)
              \/ RegisterExternal(p)
              \/ RegisterInternal(p)
              \/ \E c \in Chain : GetUnusedAddrs(p, c, 1)
       PROVE  FALSE
  <2>1. phase = "none" \/ lock = NoThread \/ Loading
    BY <1>10 DEF New, NewTx, RegisterExternal, RegisterInternal, RegisterAddrs, At,
                 GetUnusedAddrs, Loading
  <2>2. UNCHANGED pc \/ \E label \in {"load", "internal", "cbBalance"} : pc' = [pc EXCEPT ![p] = label]
    BY <1>10 DEF New, NewTx, RegisterExternal, RegisterInternal, RegisterAddrs,
                 GetUnusedAddrs, Goto, threadVars
  <2> QED
    BY <1>3, <1>5, <2>1, <2>2 DEF InUpdate
<1>11. ASSUME NEW p \in Thread,
              \/ \E t \in Tx : RegisterForeign(p, t)
              \/ \E t \in Tx : Remove(p, t)
              \/ RemoveUnknown(p)
              \/ RemoveDependents(p)
              \/ RemoveNotify(p)
              \/ RemoveReturn(p)
              \/ CbBalance(p)
              \/ CbAdded(p)
              \/ CbDeleted(p)
              \/ CbUpdated(p)
       PROVE  CoinsKept'
  <2>1. UNCHANGED <<transactions, chain, sumVars>>
    BY <1>11 DEF RegisterForeign, Remove, RemoveUnknown, RemoveDependents, RemoveNotify,
                 RemoveReturn, CbBalance, CbAdded, CbDeleted, CbUpdated, RemoveUnchanged,
                 keptVars
  <2>2. \/ UNCHANGED pc
        \/ \E label \in {"remove", "cbBalance", "idle", "cbAdded", "cbDeleted"} :
             pc' = [pc EXCEPT ![p] = label]
    BY <1>11 DEF RegisterForeign, Remove, RemoveUnknown, RemoveDependents, RemoveNotify,
                 RemoveReturn, CbBalance, CbAdded, CbDeleted, CbUpdated, Return, Goto,
                 threadVars
  <2>3. InUpdate
    BY <1>5, <2>2 DEF InUpdate
  <2> QED
    BY <1>2, <2>1, <2>3
<1>12. CASE UNCHANGED vars
  BY <1>2, <1>12 DEF vars, keptVars, threadVars, InUpdate
<1> QED
  BY <1>4, <1>7, <1>8, <1>9, <1>10, <1>11, <1>12, CoinsKeptLoop
     DEF Next, Start, Continue, UpdateStep, RemoveStep, Undefined

-----------------------------------------------------------------------------
(* The theorems.                                                           *)

LEMMA InitIInv == Init => IInv
<1> SUFFICES ASSUME Init  PROVE IInv
  OBVIOUS
<1>1. KeptType
  BY DEF Init, KeptType
<1>2. SumType
  BY DEF Init, SumType, NoUpdate
<1>3. CallType
  <2>1. NoCall \in Calls
    BY HeightAssumption DEF NoCall, Calls
  <2> QED
    BY <2>1 DEF Init, CallType, Labels
<1>4. Control
  BY DEF Init, Control, ThreadControl, Locking
<1>5. ListedOnce
  BY DEF Init, ListedOnce
<1>6. Balanced
  <2>1. Done = 0 /\ SoFar = 0 /\ ub.prev = ub.balance
    BY DEF Init, Done, SoFar, InUpdate, NoUpdate
  <2>2. Amounts(0, 0)
    BY ValueAssumption DEF Init, Amounts
  <2>3. Statuses(0) /\ NoConflict(0) /\ 0 \in 0..Len(transactions)
    BY DEF Init, Statuses, NoConflict
  <2> QED
    BY <2>1, <2>2, <2>3 DEF Accounted, Balanced
<1>7. ~InUpdate
  BY DEF Init, InUpdate
<1> QED
  BY <1>1, <1>2, <1>3, <1>4, <1>5, <1>6, <1>7 DEF IInv, TypeOK, Balanced

LEMMA IInvStep == IInv /\ [Next]_vars => IInv'
<1> SUFFICES ASSUME IInv, [Next]_vars  PROVE IInv'
  OBVIOUS
<1>1. TypeOK /\ Control /\ ListedOnce /\ Balanced /\ (InUpdate => CoinsKept)
  BY DEF IInv, Balanced
<1>2. KeptType' /\ SumType' /\ CallType'
  BY <1>1, KeptStep, SumStep, CallStep
<1>3. Control' /\ ListedOnce' /\ Balanced'
  BY <1>1, <1>2, ControlStep, ListedOnceStep, BalancedStep
<1>4. (InUpdate => CoinsKept)'
  BY <1>1, CoinsKeptStep
<1> QED
  BY <1>2, <1>3, <1>4 DEF IInv, TypeOK, Balanced

(* The inductive invariant holds in every state the wallet can reach.      *)
THEOREM Invariance == Spec => []IInv
  BY InitIInv, IInvStep, PTL DEF Spec

(* Every variable has its type.                                            *)
THEOREM TypeCorrect == Spec => []TypeOK
<1>1. IInv => TypeOK
  BY DEF IInv
<1> QED
  BY <1>1, Invariance, PTL

(* Whoever finds the lock free finds every transaction accounted for.      *)
LEMMA UnlockedAccount ==
  ASSUME IInv, Unlocked
  PROVE  /\ Accounted(Len(transactions), balance)
         /\ Listed = {transactions[i] : i \in 1..Len(transactions)}
<1>1. \A p \in Thread : pc[p] \notin Locking
  BY ThreadAssumption DEF IInv, Unlocked, Control, ThreadControl
<1>2. ~InUpdate /\ ~Loading
  BY <1>1 DEF InUpdate, Loading, Locking
<1>3. Listed = {transactions[i] : i \in 1..Len(transactions)}
  <2>1. transactions \in Seq(Tx)
    BY DEF IInv, TypeOK, KeptType
  <2>2. DOMAIN transactions = 1..Len(transactions)
    BY <2>1
  <2> QED
    BY <2>2 DEF Listed, Range
<1>4. Done = Len(transactions) /\ SoFar = balance
  BY <1>2 DEF Done, SoFar
<1>5. Accounted(Done, SoFar)
  BY <1>2 DEF IInv
<1> QED
  BY <1>3, <1>4, <1>5

(* The history of balances has an entry for every transaction, and its     *)
(* last entry is the balance, whenever the lock is free.                   *)
THEOREM HistoryStaysAligned == Spec => []HistoryAligned
<1>1. ASSUME IInv, Unlocked
      PROVE  /\ Len(balanceHist) = Len(transactions)
             /\ balance = IF balanceHist = <<>> THEN 0 ELSE balanceHist[Len(balanceHist)]
  <2>1. Amounts(Len(transactions), balance) /\ balanceHist \in Seq(Int)
    BY <1>1, UnlockedAccount DEF Accounted, IInv, TypeOK, SumType
  <2> QED
    BY <2>1 DEF Amounts
<1>2. IInv => HistoryAligned
  BY <1>1 DEF HistoryAligned
<1> QED
  BY <1>2, Invariance, PTL

(* The balance a caller reads is the sum of the unspent outputs, and the   *)
(* totals add up to it.                                                    *)
THEOREM BalanceStaysUtxos == Spec => []BalanceIsUtxos
<1>1. IInv => BalanceIsUtxos
  BY UnlockedAccount DEF Accounted, Amounts, BalanceIsUtxos
<1> QED
  BY <1>1, Invariance, PTL

(* No output that an accepted transaction spends is offered to be spent.   *)
THEOREM NothingSpentOffered == Spec => []NoAcceptedSpendInUtxos
<1>1. IInv => NoAcceptedSpendInUtxos
  BY UnlockedAccount DEF Accounted, Statuses, NoAcceptedSpendInUtxos, Accepted
<1> QED
  BY <1>1, Invariance, PTL

(* Two transactions that count and spend the same output are confirmed,    *)
(* the later of them at least.                                             *)
THEOREM NothingSpentTwice == Spec => []NoDoubleSpend
<1>1. IInv => NoDoubleSpend
  BY UnlockedAccount DEF Accounted, NoConflict, NoDoubleSpend
<1> QED
  BY <1>1, Invariance, PTL

(* What is known to be invalid or pending is listed and unconfirmed, for   *)
(* as long as no listed transaction has been freed.                        *)
THEOREM StatusStaysCurrent == Spec => []StatusCurrent
<1>1. IInv => StatusCurrent
  BY UnlockedAccount DEF Accounted, Statuses, StatusCurrent, Defined, Listed
<1> QED
  BY <1>1, Invariance, PTL

(* When the balance has been recomputed, an output an accepted transaction *)
(* pays to the wallet is unspent unless a transaction that is not invalid  *)
(* spends it, whatever the order of the transactions.                      *)
THEOREM NoCoinGetsLost == Spec => []NoCoinLost
<1>1. ASSUME IInv, Recomputed, NEW t \in Accepted
      PROVE  Own(t) \subseteq utxos \cup UNION {In[s] : s \in Listed \ invalidTx}
  <2>1. InUpdate /\ Done = ub.i - 1 /\ CoinsKept
    BY <1>1 DEF Recomputed, InUpdate, Done, IInv
  <2>2. ~Loading
    <3>1. PICK p \in Thread : pc[p] = "update"
      BY <2>1 DEF InUpdate
    <3>2. \A q \in Thread : pc[q] # "load"
      BY <1>1, <3>1, UpdateLocked DEF IInv, Locking
    <3> QED
      BY <3>2 DEF Loading
  <2>3. Done \in 0..Len(transactions) /\ transactions \in Seq(Tx) /\ ub.i \in Nat
    BY <1>1, <2>2 DEF IInv, Accounted, TypeOK, KeptType, SumType
  <2>4. Done = Len(transactions)
    BY <1>1, <2>1, <2>3 DEF Recomputed
  <2>5. DOMAIN transactions = 1..Len(transactions)
    BY <2>3
  <2>6. Listed = {transactions[i] : i \in 1..Done}
    BY <2>4, <2>5 DEF Listed, Range
  <2> QED
    BY <1>1, <2>1, <2>6 DEF CoinsKept, Accepted
<1>2. IInv => NoCoinLost
  BY <1>1 DEF NoCoinLost
<1> QED
  BY <1>2, Invariance, PTL

-----------------------------------------------------------------------------
(* Which call a thread is in, however many there are.                      *)

LEMMA CallAtStep ==
  ASSUME TypeOK, Control, [Next]_vars, NEW q \in Thread, CallAt(q)
  PROVE  CallAt(q)'
<1> USE DEF TypeOK, CallType
<1>1. CASE pc'[q] = pc[q] /\ call'[q].op = call[q].op
  BY <1>1 DEF CallAt
<1>2. CASE pc'[q] \in {"idle", "load", "update", "verify", "remove", "cbUpdated"}
  BY <1>2 DEF CallAt
<1>3. ASSUME NEW p \in Thread, UpdateDone(p)  PROVE CallAt(q)'
  <2>1. /\ pc' = [pc EXCEPT ![p] = AfterUpdate[call[p].op]] /\ call' = call
        /\ call[p].op \in DOMAIN AfterUpdate
    BY <1>3 DEF UpdateDone, Goto, Control, ThreadControl
  <2>2. CASE q = p
    BY <2>1, <2>2 DEF CallAt, AfterUpdate
  <2> QED
    BY <1>1, <2>1, <2>2
<1>4. ASSUME NEW p \in Thread, RegisterExternal(p) \/ RegisterInternal(p)
      PROVE  CallAt(q)'
  BY <1>4 DEF RegisterExternal, RegisterInternal, RegisterAddrs, At, Goto, CallAt
<1>5. ASSUME NEW p \in Thread, CbBalance(p)  PROVE CallAt(q)'
  BY <1>5 DEF CbBalance, Goto, CallAt
<1>6. ASSUME NEW p \in Thread, RemoveNotify(p)  PROVE CallAt(q)'
  BY <1>6 DEF RemoveNotify, At, Goto, CallAt, Calls
<1>7. ASSUME NEW p \in Thread,
             \/ NewAddrs(p)
             \/ NewVerify(p)
             \/ \E s \in Saved : \E hs \in SavedHeights(s) : New(p, s, hs)
             \/ \E t \in Tx, h \in Heights \cup {TX_UNCONFIRMED} : Register(p, t, h)
             \/ \E t \in Tx : Remove(p, t)
             \/ \E t \in Tx : RemoveOne(p, t)
             \/ CbAdded(p)
             \/ CbDeleted(p)
             \/ CbUpdated(p)
             \/ RemoveReturn(p)
      PROVE  CallAt(q)'
  <2>1. \/ pc'[q] = pc[q] /\ call'[q] = call[q]
        \/ pc'[q] \in {"idle", "load", "update", "verify", "remove", "cbUpdated"}
    BY <1>7 DEF NewAddrs, NewVerify, New, Register, Remove, RemoveOne, CbAdded, CbDeleted,
                CbUpdated, RemoveReturn, BeginUpdateBalance, Goto, Call, Return
  <2> QED
    BY <1>1, <1>2, <2>1
<1>8. ASSUME NEW p \in Thread, NEW op, NEW stale, NEW any, RecomputeIf(p, op, stale, any)
      PROVE  CallAt(q)'
  <2>1. \/ pc'[q] = pc[q] /\ call'[q] = call[q]
        \/ pc'[q] \in {"idle", "load", "update", "verify", "remove", "cbUpdated"}
    BY <1>8 DEF RecomputeIf, BeginUpdateBalance, Goto, Call, threadVars
  <2> QED
    BY <1>1, <1>2, <2>1
<1>9. ASSUME NEW p \in Thread,
             \/ \E S \in SUBSET Tx, h \in Heights \cup {TX_UNCONFIRMED}, later \in BOOLEAN :
                  UpdateTransactions(p, S, h, later)
             \/ \E h \in Heights \cup {0} : SetTxUnconfirmedAfter(p, h)
      PROVE  CallAt(q)'
  BY <1>8, <1>9 DEF UpdateTransactions, SetTxUnconfirmedAfter
<1>10. ASSUME NEW p \in Thread,
              \/ NewTx(p)
              \/ \E t \in Tx : UpdateInvalid(p, t)
              \/ \E t \in Tx : UpdatePending(p, t)
              \/ \E t \in Tx : UpdateAccepted(p, t)
              \/ Free(p)
              \/ \E t \in Tx : RegisterForeign(p, t)
              \/ \E c \in Chain : GetUnusedAddrs(p, c, 1)
              \/ RemoveUnknown(p)
              \/ RemoveDependents(p)
       PROVE  CallAt(q)'
  <2>1. pc' = pc /\ call' = call
    BY <1>10 DEF NewTx, UpdateInvalid, UpdatePending, UpdateAccepted, Free, RegisterForeign,
                 GetUnusedAddrs, RemoveUnknown, RemoveDependents, RemoveUnchanged, threadVars
  <2> QED
    BY <1>1, <2>1
<1>11. CASE UNCHANGED vars
  BY <1>1, <1>11 DEF vars, threadVars
<1> QED
  BY <1>3, <1>4, <1>5, <1>6, <1>7, <1>9, <1>10, <1>11
     DEF Next, Start, Continue, UpdateStep, RemoveStep, Undefined

-----------------------------------------------------------------------------
(* The callbacks.                                                          *)

LEMMA ToldSame ==
  ASSUME NEW q \in Thread, Told(q), UNCHANGED <<transactions, appTxs, phase>>,
         Registering(q)' = Registering(q), Removing(q)' = Removing(q),
         Registering(q) \/ Removing(q) => call'[q].tx = call[q].tx
  PROVE  Told(q)'
BY DEF Told, Listed

LEMMA ToldStep ==
  ASSUME NEW q, Thread = {q}, TypeOK, Control, ListedOnce, CallAt(q), Told(q),
         [Next]_vars
  PROVE  Told(q)'
<1> USE DEF TypeOK, CallType
<1>1. CASE phase' # "ready"
  BY <1>1 DEF Told
<1>2. ASSUME UNCHANGED <<transactions, appTxs, phase, pc, call>>  PROVE Told(q)'
  <2>1. Registering(q)' = Registering(q) /\ Removing(q)' = Removing(q)
    BY <1>2 DEF Registering, Removing
  <2> QED
    BY <1>2, <2>1, ToldSame
(* Steps of the constructor and the destructor.                            *)
<1>3. ASSUME \/ \E s \in Saved : \E hs \in SavedHeights(s) : New(q, s, hs)
             \/ NewTx(q) \/ NewAddrs(q) \/ Free(q)
      PROVE  phase' # "ready"
  BY <1>3 DEF New, NewTx, NewAddrs, Free, FreeWallet, Control, ThreadControl, Locking
<1>4. ASSUME NewVerify(q)  PROVE Told(q)'
  <2>1. CASE call[q].tx = NoTx \/ ContainsTx(call[q].tx)
    <3>1. appTxs' = Range(transactions) /\ transactions' = transactions /\ pc'[q] = "idle"
      BY <1>4, <2>1 DEF NewVerify, Return, Goto, keptVars
    <3> QED
      BY <3>1 DEF Told, Registering, Removing, Listed
  <2>2. CASE ~(call[q].tx = NoTx \/ ContainsTx(call[q].tx))
    BY <1>1, <1>4, <2>2 DEF NewVerify, FreeWallet
  <2> QED
    BY <2>1, <2>2
(* The balance loop.                                                       *)
<1>5. ASSUME \/ \E t \in Tx : UpdateInvalid(q, t)
             \/ \E t \in Tx : UpdatePending(q, t)
             \/ \E t \in Tx : UpdateAccepted(q, t)
             \/ \E t \in Tx : RegisterForeign(q, t)
             \/ \E c \in Chain : GetUnusedAddrs(q, c, 1)
             \/ RemoveUnknown(q)
             \/ RemoveDependents(q)
      PROVE  Told(q)'
  BY <1>2, <1>5 DEF UpdateInvalid, UpdatePending, UpdateAccepted, RegisterForeign,
                    GetUnusedAddrs, RemoveUnknown, RemoveDependents, RemoveUnchanged,
                    keptVars, appVars, threadVars
<1>6. ASSUME UpdateDone(q)  PROVE Told(q)'
  <2>1. /\ pc[q] = "update" /\ pc'[q] = AfterUpdate[call[q].op]
        /\ call[q].op \in DOMAIN AfterUpdate
        /\ UNCHANGED <<call, phase, transactions, appTxs>>
    BY <1>6 DEF UpdateDone, Goto, Control, ThreadControl, keptVars, appVars
  <2>2. Registering(q)' = Registering(q) /\ Removing(q)' = Removing(q)
    BY <2>1 DEF Registering, Removing, AfterUpdate
  <2> QED
    BY <2>1, <2>2, ToldSame
(* Registering.                                                            *)
<1>7. ASSUME NEW t \in Tx, NEW h, Register(q, t, h)  PROVE Told(q)'
  <2>1. /\ pc[q] = "idle" /\ phase = "ready" /\ Listed \subseteq allTx /\ t \notin allTx
        /\ pc'[q] = "update" /\ call'[q].op = "register" /\ call'[q].tx = t
        /\ UNCHANGED <<phase, appTxs>> /\ InsertTx(t, h)
    BY <1>7 DEF Register, Idle, Defined, Call, NoCall, BeginUpdateBalance, Goto, appVars, Listed
  <2>2. appTxs = Listed
    BY <2>1 DEF Told, Registering, Removing
  <2>3. Listed' = Listed \cup {t}
    <3>1. PICK k \in 0..Len(transactions) : transactions' = InsertAt(transactions, k, t)
      BY <2>1 DEF InsertTx
    <3> QED
      BY <3>1, InsertAtType DEF KeptType, Listed
  <2> QED
    BY <2>1, <2>2, <2>3 DEF Told, Registering, Removing
<1>8. ASSUME RegisterExternal(q) \/ RegisterInternal(q)  PROVE Told(q)'
  <2>1. /\ pc[q] \in {"external", "internal"} /\ pc'[q] \in {"internal", "cbBalance"}
        /\ call[q].op = "register" /\ UNCHANGED <<call, phase, transactions, appTxs>>
    BY <1>8 DEF RegisterExternal, RegisterInternal, RegisterAddrs, At, Goto, CallAt,
                keptVars, appVars
  <2>2. Registering(q)' = Registering(q) /\ Removing(q)' = Removing(q)
    BY <2>1 DEF Registering, Removing
  <2> QED
    BY <2>1, <2>2, ToldSame
<1>9. ASSUME CbBalance(q)  PROVE Told(q)'
  <2>1. /\ pc[q] = "cbBalance" /\ call[q].op \in {"register", "remove"}
        /\ pc'[q] = IF call[q].op = "register" THEN "cbAdded" ELSE "cbDeleted"
        /\ UNCHANGED <<call, phase, transactions, appTxs>>
    BY <1>9 DEF CbBalance, Goto, CallAt, keptVars
  <2>2. Registering(q)' = Registering(q) /\ Removing(q)' = Removing(q)
    BY <2>1 DEF Registering, Removing
  <2> QED
    BY <2>1, <2>2, ToldSame
<1>10. ASSUME CbAdded(q)  PROVE Told(q)'
  <2>1. /\ pc[q] = "cbAdded" /\ phase = "ready" /\ pc'[q] = "idle"
        /\ appTxs' = appTxs \cup {call[q].tx}
        /\ UNCHANGED <<phase, transactions>>
    BY <1>10 DEF CbAdded, Return, Goto, keptVars, Control, ThreadControl, Locking
  <2>2. call[q].tx \in Listed /\ appTxs = Listed \ {call[q].tx}
    BY <2>1 DEF Told, Registering
  <2> QED
    BY <2>1, <2>2 DEF Told, Registering, Removing, Listed
(* Removing.                                                               *)
<1>11. ASSUME NEW t \in Tx, RemoveOne(q, t)  PROVE Told(q)'
  <2>1. /\ pc[q] = "remove" /\ phase = "ready" /\ call[q].op = "remove"
        /\ pc'[q] = "update" /\ call'[q].op = "remove" /\ call'[q].tx = t
        /\ UNCHANGED <<phase, appTxs>>
    BY <1>11 DEF RemoveOne, At, BeginUpdateBalance, Goto, appVars, Control, ThreadControl,
                 Locking, Calls
  <2>2. appTxs = Listed
    BY <2>1 DEF Told, Registering, Removing
  <2>3. Listed' = Listed \ {t}
    <3>1. CASE t \in Listed
      <4>1. PICK k \in 1..Len(transactions) :
              transactions[k] = t /\ transactions' = DeleteAt(transactions, k)
        BY <1>11, <3>1 DEF RemoveOne, Listed
      <4>2. Listed' \subseteq Listed /\ t \notin Listed'
        BY <4>1, DeleteAtType DEF KeptType, ListedOnce, Listed
      <4>3. ASSUME NEW j \in 1..Len(transactions), j # k
            PROVE  transactions[j] \in Listed'
        <5>1. DOMAIN DeleteAt(transactions, k) = 1..(Len(transactions) - 1)
          BY DEF DeleteAt
        <5>2. CASE j < k
          <6>1. j \in 1..(Len(transactions) - 1) /\ DeleteAt(transactions, k)[j] = transactions[j]
            BY <5>2 DEF DeleteAt, KeptType
          <6> QED
            BY <4>1, <5>1, <6>1 DEF Listed, Range
        <5>3. CASE j > k
          <6>1. /\ j - 1 \in 1..(Len(transactions) - 1)
                /\ DeleteAt(transactions, k)[j - 1] = transactions[j]
            BY <5>3 DEF DeleteAt, KeptType
          <6> QED
            BY <4>1, <5>1, <6>1 DEF Listed, Range
        <5> QED
          BY <4>3, <5>2, <5>3
      <4>4. Listed = {transactions[j] : j \in 1..Len(transactions)}
        BY DEF Listed, Range, KeptType
      <4> QED
        BY <4>1, <4>2, <4>3, <4>4
    <3>2. CASE t \notin Listed
      BY <1>11, <3>2 DEF RemoveOne, Listed
    <3> QED
      BY <3>1, <3>2
  <2> QED
    BY <2>1, <2>2, <2>3 DEF Told, Registering, Removing
<1>12. ASSUME RemoveNotify(q)  PROVE Told(q)'
  <2>1. /\ pc[q] = "notify" /\ pc'[q] = "cbBalance"
        /\ call[q].op = "remove" /\ call'[q].op = "remove" /\ call'[q].tx = call[q].tx
        /\ UNCHANGED <<phase, transactions, appTxs>>
    BY <1>12 DEF RemoveNotify, RemoveUnchanged, At, Goto, CallAt, keptVars, appVars, Calls
  <2>2. Registering(q)' = Registering(q) /\ Removing(q)' = Removing(q)
    BY <2>1 DEF Registering, Removing
  <2> QED
    BY <2>1, <2>2, ToldSame
<1>13. ASSUME CbDeleted(q)  PROVE Told(q)'
  <2>1. /\ pc[q] = "cbDeleted" /\ phase = "ready" /\ pc'[q] = "remove"
        /\ appTxs' = appTxs \ {call[q].tx}
        /\ UNCHANGED <<phase, transactions>>
    BY <1>13 DEF CbDeleted, Goto, keptVars, Control, ThreadControl, Locking
  <2>2. appTxs \ {call[q].tx} = Listed
    BY <2>1 DEF Told, Removing
  <2> QED
    BY <2>1, <2>2 DEF Told, Registering, Removing, Listed
<1>14. ASSUME (\E t \in Tx : Remove(q, t)) \/ RemoveReturn(q) \/ CbUpdated(q)
       PROVE  Told(q)'
  <2>1. /\ pc[q] \in {"idle", "remove", "cbUpdated"} /\ pc'[q] \in {"idle", "remove"}
        /\ UNCHANGED <<phase, transactions, appTxs>>
    BY <1>14 DEF Remove, RemoveReturn, RemoveUnchanged, CbUpdated, Return, Idle, Goto,
                 keptVars, appVars
  <2>2. /\ ~Registering(q) /\ ~Removing(q)
        /\ Registering(q)' = FALSE /\ Removing(q)' = FALSE
    BY <2>1 DEF Registering, Removing
  <2> QED
    BY <2>1, <2>2 DEF Told, Listed
(* Blocks.                                                                 *)
<1>15. ASSUME NEW op \in {"update", "unconfirm"}, NEW stale, NEW any,
              RecomputeIf(q, op, stale, any), pc[q] = "idle",
              UNCHANGED <<phase, transactions, appTxs>>
       PROVE  Told(q)'
  <2>1. \/ pc'[q] = "idle"
        \/ pc'[q] \in {"update", "cbUpdated"} /\ call'[q].op \in {"update", "unconfirm"}
    BY <1>15, ZenonT(60) DEF RecomputeIf, BeginUpdateBalance, Goto, Call, NoCall
  <2>2. /\ ~Registering(q) /\ ~Removing(q)
        /\ Registering(q)' = FALSE /\ Removing(q)' = FALSE
    BY <1>15, <2>1 DEF Registering, Removing
  <2> QED
    BY <1>15, <2>2 DEF Told, Listed
<1>16. ASSUME \/ \E S \in SUBSET Tx, h \in Heights \cup {TX_UNCONFIRMED}, later \in BOOLEAN :
                   UpdateTransactions(q, S, h, later)
              \/ \E h \in Heights \cup {0} : SetTxUnconfirmedAfter(q, h)
       PROVE  Told(q)'
  BY <1>15, <1>16 DEF UpdateTransactions, SetTxUnconfirmedAfter, Idle, appVars
<1>17. CASE UNCHANGED vars
  BY <1>2, <1>17 DEF vars, keptVars, threadVars, appVars
<1> QED
  BY <1>1, <1>3, <1>4, <1>5, <1>6, <1>7, <1>8, <1>9, <1>10, <1>11, <1>12, <1>13,
     <1>14, <1>16, <1>17
     DEF Next, Start, Continue, UpdateStep, RemoveStep, Undefined

-----------------------------------------------------------------------------
(* The gaps of the address chains.                                         *)

Paid == UNION {OutAddrs(t) : t \in Tx}

LEMMA ExtendedBound ==
  ASSUME NEW c \in Chain, NEW from \in 0..Len(Derived[c]), NEW gap, NEW used
  PROVE  Extended(c, from, gap, used) \in 0..Len(Derived[c])
<1> DEFINE all == Len(Derived[c])
           reached(n) == /\ HasGap(c, n, gap, used)
                         /\ \A m \in from..(n - 1) : ~HasGap(c, m, gap, used)
<1>1. all \in Nat
  BY ChainAssumption
<1>2. CASE \E n \in from..all : reached(n)
  <2>1. Extended(c, from, gap, used) = CHOOSE n \in from..all : reached(n)
    BY <1>2 DEF Extended
  <2> HIDE DEF reached, all
  <2>2. Extended(c, from, gap, used) \in from..all
    BY <1>2, <2>1
  <2> QED
    BY <1>1, <2>2 DEF all
<1>3. CASE ~\E n \in from..all : reached(n)
  BY <1>1, <1>3 DEF Extended
<1> QED
  BY <1>2, <1>3

(* When the last addresses that can be derived are unused, the loop over   *)
(* a chain ends with a full gap.                                           *)
LEMMA ExtendedFull ==
  ASSUME NEW c \in Chain, NEW from \in 0..Len(Derived[c]), NEW gap, NEW used,
         HasGap(c, Len(Derived[c]), gap, used)
  PROVE  HasGap(c, Extended(c, from, gap, used), gap, used)
<1> DEFINE all == Len(Derived[c])
           reached(n) == /\ HasGap(c, n, gap, used)
                         /\ \A m \in from..(n - 1) : ~HasGap(c, m, gap, used)
           full == {n \in from..all : HasGap(c, n, gap, used)}
<1>1. all \in Nat /\ from \in 0..all
  BY ChainAssumption
<1>2. PICK n \in full : \A m \in full : n <= m
  <2>1. all \in full /\ full \in SUBSET Nat
    BY <1>1
  <2> HIDE DEF full
  <2> QED
    BY <2>1, Least
<1>3. n \in from..all /\ reached(n)
  BY <1>1, <1>2
<1>4. Extended(c, from, gap, used) = CHOOSE k \in from..all : reached(k)
  BY <1>3 DEF Extended
<1>5. \A k : reached(k) => HasGap(c, k, gap, used)
  OBVIOUS
<1> HIDE DEF reached, all
<1>6. reached(Extended(c, from, gap, used))
  BY <1>3, <1>4
<1> QED
  BY <1>5, <1>6

LEMMA HasGapFewer ==
  ASSUME NEW c, NEW n, NEW gap, NEW used, NEW fewer \in SUBSET used,
         HasGap(c, n, gap, used)
  PROVE  HasGap(c, n, gap, fewer)
BY DEF HasGap

LEMMA GapsStep ==
  ASSUME NEW q, Thread = {q}, TypeOK, Control, CallAt(q), GapsFilled(q), ChainsLastOut,
         [Next]_vars
  PROVE  GapsFilled(q)'
<1> USE DEF TypeOK, CallType, KeptType
<1>1. \A c \in Chain : chain[c] \in 0..Len(Derived[c])
  BY ChainAssumption DEF GapsFilled
<1>2. usedAddrs \subseteq Paid
  BY DEF GapsFilled, Paid
<1>3. \A c \in Chain : HasGap(c, Len(Derived[c]), GapLimit[c], usedAddrs)
  BY <1>2, HasGapFewer DEF ChainsLastOut, Paid
(* Steps that leave the chains alone and end nowhere a gap is promised.    *)
<1>4. ASSUME chain' = chain, usedAddrs' \subseteq Paid, pc'[q] # "internal",
             pc'[q] = "cbBalance" => call'[q].op # "register"
      PROVE  GapsFilled(q)'
  BY <1>1, <1>4 DEF GapsFilled, Paid
<1>5. ASSUME chain' = [c \in Chain |-> 0], usedAddrs' = {}, pc'[q] \in {"idle", "load"}
      PROVE  GapsFilled(q)'
  BY <1>5, ChainAssumption DEF GapsFilled
<1>6. ASSUME \/ \E s \in Saved : \E hs \in SavedHeights(s) : New(q, s, hs)
             \/ \E t \in Tx : UpdateInvalid(q, t)
             \/ \E t \in Tx : UpdatePending(q, t)
             \/ CbBalance(q) \/ CbAdded(q) \/ CbDeleted(q) \/ CbUpdated(q)
             \/ \E t \in Tx : Remove(q, t)
             \/ RemoveReturn(q)
      PROVE  GapsFilled(q)'
  <2>1. chain' = chain /\ usedAddrs' = usedAddrs
    BY <1>6 DEF New, UpdateInvalid, UpdatePending, CbBalance, CbAdded, CbDeleted,
                CbUpdated, Remove, RemoveReturn, RemoveUnchanged, sumVars
  <2>2. pc'[q] \in {"load", "update", "cbAdded", "cbDeleted", "idle", "remove"}
    BY <1>6 DEF New, UpdateInvalid, UpdatePending, Updating, CbBalance, CbAdded, CbDeleted,
                CbUpdated, Remove, RemoveReturn, Goto, Return, threadVars
  <2> QED
    BY <1>2, <1>4, <2>1, <2>2
<1>7. ASSUME UpdateDone(q)  PROVE GapsFilled(q)'
  <2>1. chain' = chain /\ usedAddrs' = usedAddrs /\ pc'[q] = AfterUpdate[call[q].op]
        /\ call[q].op \in DOMAIN AfterUpdate
    BY <1>7 DEF UpdateDone, Goto, Control, ThreadControl
  <2>2. pc'[q] \in {"verify", "external", "notify", "cbUpdated"}
    BY <2>1 DEF AfterUpdate
  <2> QED
    BY <1>2, <1>4, <2>1, <2>2
<1>8. ASSUME NEW t \in Tx, UpdateAccepted(q, t)  PROVE GapsFilled(q)'
  <2>1. chain' = chain /\ usedAddrs' = usedAddrs \cup OutAddrs(t) /\ pc'[q] = "update"
    BY <1>8 DEF UpdateAccepted, Updating, threadVars
  <2> QED
    BY <1>2, <1>4, <2>1 DEF Paid
<1>9. ASSUME NewTx(q)  PROVE GapsFilled(q)'
  <2>1. chain' = chain /\ pc'[q] = "load" /\ Head(todo[q]) \in Tx
    BY <1>9 DEF NewTx
  <2>2. \/ usedAddrs' = usedAddrs
        \/ usedAddrs' = usedAddrs \cup OutAddrs(Head(todo[q]))
    BY <1>9 DEF NewTx
  <2> QED
    BY <1>2, <1>4, <2>1, <2>2 DEF Paid
<1>10. ASSUME NewAddrs(q)  PROVE GapsFilled(q)'
  <2>1. usedAddrs' = {} /\ pc'[q] = "update"
        /\ chain' = [c \in Chain |-> Extended(c, 0, GapLimit[c], usedAddrs)]
    BY <1>10 DEF NewAddrs, BeginUpdateBalance, Goto
  <2>2. \A c \in Chain : chain'[c] \in 0..Len(Derived[c])
    <3>1. \A c \in Chain : 0 \in 0..Len(Derived[c])
      BY ChainAssumption
    <3>2. \A c \in Chain : chain'[c] = Extended(c, 0, GapLimit[c], usedAddrs)
      BY <2>1
    <3>3. \A c \in Chain : Extended(c, 0, GapLimit[c], usedAddrs) \in 0..Len(Derived[c])
      <4> TAKE c \in Chain
      <4> QED
        BY <3>1, ExtendedBound
    <3> QED
      BY <3>2, <3>3, Zenon
  <2> QED
    BY <2>1, <2>2 DEF GapsFilled
<1>11. ASSUME NewVerify(q)  PROVE GapsFilled(q)'
  <2>1. \/ chain' = chain /\ usedAddrs' = usedAddrs
        \/ chain' = [c \in Chain |-> 0] /\ usedAddrs' = {}
    BY <1>11 DEF NewVerify, FreeWallet, sumVars
  <2>2. pc'[q] = "idle"
    BY <1>11 DEF NewVerify, Return, Goto
  <2> QED
    BY <1>2, <1>4, <1>5, <2>1, <2>2
<1>12. ASSUME Free(q)  PROVE GapsFilled(q)'
  BY <1>5, <1>12 DEF Free, FreeWallet, Idle
<1>13. ASSUME \/ \E t \in Tx, h \in Heights \cup {TX_UNCONFIRMED} : Register(q, t, h)
              \/ \E t \in Tx : RemoveOne(q, t)
       PROVE  GapsFilled(q)'
  BY <1>4, <1>13 DEF Register, RemoveOne, BeginUpdateBalance, Goto
<1>14. ASSUME RemoveUnknown(q) \/ RemoveDependents(q)  PROVE GapsFilled(q)'
  BY <1>2, <1>4, <1>14 DEF RemoveUnknown, RemoveDependents, RemoveUnchanged, At, sumVars
<1>15. ASSUME RemoveNotify(q)  PROVE GapsFilled(q)'
  <2>1. chain' = chain /\ usedAddrs' = usedAddrs /\ pc'[q] = "cbBalance"
        /\ call[q].op = "remove" /\ call'[q].op = "remove"
    BY <1>15 DEF RemoveNotify, RemoveUnchanged, At, Goto, CallAt, Calls, sumVars
  <2> QED
    BY <1>2, <1>4, <2>1
<1>16. ASSUME \E t \in Tx : RegisterForeign(q, t)  PROVE GapsFilled(q)'
  BY <1>2, <1>4, <1>16 DEF RegisterForeign, Idle, sumVars, threadVars
(* Blocks.                                                                 *)
<1>17. ASSUME NEW op, NEW stale, NEW any, RecomputeIf(q, op, stale, any),
              pc[q] = "idle", chain' = chain
       PROVE  GapsFilled(q)'
  <2>1. usedAddrs' \subseteq Paid /\ pc'[q] \in {"idle", "update", "cbUpdated"}
    BY <1>2, <1>17 DEF RecomputeIf, BeginUpdateBalance, Goto, sumVars
  <2> QED
    BY <1>4, <1>17, <2>1
<1>18. ASSUME \/ \E S \in SUBSET Tx, h \in Heights \cup {TX_UNCONFIRMED}, later \in BOOLEAN :
                   UpdateTransactions(q, S, h, later)
              \/ \E h \in Heights \cup {0} : SetTxUnconfirmedAfter(q, h)
       PROVE  GapsFilled(q)'
  BY <1>17, <1>18 DEF UpdateTransactions, SetTxUnconfirmedAfter, Idle
(* Steps that extend a chain.                                              *)
<1>19. ASSUME NEW d \in Chain, NEW gap, UnusedAddrs(d, gap), usedAddrs' = usedAddrs
       PROVE  /\ \A c \in Chain : chain'[c] \in 0..Len(Derived[c])
              /\ \A c \in Chain \ {d} : chain'[c] = chain[c]
              /\ usedAddrs' \subseteq UNION {OutAddrs(t) : t \in Tx}
              /\ gap = GapLimit[d] => FullGap(d)'
  <2>1. chain'[d] = Extended(d, chain[d], gap, usedAddrs)
        /\ \A c \in Chain \ {d} : chain'[c] = chain[c]
    BY <1>19 DEF UnusedAddrs
  <2>2. chain'[d] \in 0..Len(Derived[d])
    BY <1>1, <2>1, ExtendedBound
  <2>3. ASSUME gap = GapLimit[d]  PROVE FullGap(d)'
    <3>1. HasGap(d, Extended(d, chain[d], GapLimit[d], usedAddrs), GapLimit[d], usedAddrs)
      BY <1>1, <1>3, ExtendedFull
    <3> QED
      BY <1>19, <2>1, <2>3, <3>1 DEF FullGap
  <2> QED
    BY <1>1, <1>2, <1>19, <2>1, <2>2, <2>3 DEF Paid
<1>20. ASSUME \E c \in Chain : GetUnusedAddrs(q, c, 1)  PROVE GapsFilled(q)'
  <2>1. PICK c \in Chain : GetUnusedAddrs(q, c, 1)
    BY <1>20
  <2>2. UnusedAddrs(c, 1) /\ usedAddrs' = usedAddrs /\ pc[q] = "idle" /\ pc' = pc
    BY <2>1 DEF GetUnusedAddrs, Idle, sumVars, threadVars
  <2>3. /\ \A e \in Chain : chain'[e] \in 0..Len(Derived[e])
        /\ usedAddrs' \subseteq UNION {OutAddrs(t) : t \in Tx}
    BY <1>19, <2>2
  <2> QED
    BY <2>2, <2>3, ChainAssumption DEF GapsFilled
<1>21. ASSUME RegisterExternal(q)  PROVE GapsFilled(q)'
  <2>1. /\ "external" \in Chain /\ UnusedAddrs("external", GapLimit["external"])
        /\ usedAddrs' = usedAddrs /\ pc'[q] = "internal"
    BY <1>21, ChainAssumption DEF RegisterExternal, RegisterAddrs, Goto, sumVars
  <2>2. /\ \A e \in Chain : chain'[e] \in 0..Len(Derived[e])
        /\ usedAddrs' \subseteq UNION {OutAddrs(t) : t \in Tx}
        /\ FullGap("external")'
    BY <1>19, <2>1
  <2> QED
    BY <2>1, <2>2, ChainAssumption DEF GapsFilled
<1>22. ASSUME RegisterInternal(q)  PROVE GapsFilled(q)'
  <2>1. /\ "internal" \in Chain /\ UnusedAddrs("internal", GapLimit["internal"])
        /\ usedAddrs' = usedAddrs /\ pc[q] = "internal" /\ pc'[q] = "cbBalance"
    BY <1>22, ChainAssumption DEF RegisterInternal, RegisterAddrs, At, Goto, sumVars
  <2>2. /\ \A e \in Chain : chain'[e] \in 0..Len(Derived[e])
        /\ \A e \in Chain \ {"internal"} : chain'[e] = chain[e]
        /\ usedAddrs' \subseteq UNION {OutAddrs(t) : t \in Tx}
        /\ FullGap("internal")'
    BY <1>19, <2>1
  <2>3. FullGap("external")'
    BY <2>1, <2>2, ChainAssumption DEF GapsFilled, FullGap
  <2>4. \A e \in Chain : FullGap(e)'
    BY <2>2, <2>3, ChainAssumption
  <2> QED
    BY <2>1, <2>2, <2>4, ChainAssumption DEF GapsFilled
<1>23. CASE UNCHANGED vars
  BY <1>23 DEF GapsFilled, FullGap, vars, sumVars, threadVars
<1> QED
  BY <1>6, <1>7, <1>8, <1>9, <1>10, <1>11, <1>12, <1>13, <1>14, <1>15, <1>16, <1>18,
     <1>20, <1>21, <1>22, <1>23
     DEF Next, Start, Continue, UpdateStep, RemoveStep, Undefined

-----------------------------------------------------------------------------
(* Results.                                                                *)

LEMMA InitAlone ==
  ASSUME Init
  PROVE  Alone
<1>1. \A c \in Chain : 0 <= Len(Derived[c])
  BY ChainAssumption
<1> QED
  BY <1>1 DEF Init, Alone, CallAt, Told, GapsFilled

(* While a single thread uses the wallet, the callbacks of each            *)
(* registration and of each removal, one that removes dependent            *)
(* transactions first included, leave the application with exactly the     *)
(* transactions of the wallet.                                             *)
THEOREM CallbacksStayComplete ==
  ASSUME NEW q, Thread = {q}
  PROVE  Spec => []CallbacksComplete
<1> DEFINE Inv == IInv /\ CallAt(q) /\ Told(q)
<1>1. Init => Inv
  BY InitIInv, InitAlone DEF Alone
<1>2. Inv /\ [Next]_vars => Inv'
  <2> SUFFICES ASSUME Inv, [Next]_vars  PROVE Inv'
    OBVIOUS
  <2>1. IInv'
    BY IInvStep
  <2>2. TypeOK /\ Control /\ ListedOnce
    BY DEF IInv
  <2>3. CallAt(q)'
    BY <2>2, CallAtStep
  <2>4. Told(q)'
    BY <2>2, ToldStep
  <2> QED
    BY <2>1, <2>3, <2>4
<1>3. Inv => CallbacksComplete
  BY DEF Told, Registering, Removing, CallbacksComplete, Unlocked
<1> QED
  BY <1>1, <1>2, <1>3, PTL DEF Spec

(* While a single thread uses the wallet, whose master key derives more    *)
(* addresses than transactions ever pay, a registration leaves both        *)
(* chains with a full gap of unused addresses.                             *)
THEOREM GapStaysRestored ==
  ASSUME NEW q, Thread = {q}, ChainsLastOut
  PROVE  Spec => []GapRestored
<1> DEFINE Inv == IInv /\ CallAt(q) /\ GapsFilled(q)
<1>1. Init => Inv
  BY InitIInv, InitAlone DEF Alone
<1>2. Inv /\ [Next]_vars => Inv'
  <2> SUFFICES ASSUME Inv, [Next]_vars  PROVE Inv'
    OBVIOUS
  <2>1. IInv'
    BY IInvStep
  <2>2. TypeOK /\ Control
    BY DEF IInv
  <2>3. CallAt(q)'
    BY <2>2, CallAtStep
  <2>4. GapsFilled(q)'
    BY <2>2, GapsStep
  <2> QED
    BY <2>1, <2>3, <2>4
<1>3. Inv => GapRestored
  <2> SUFFICES ASSUME Inv, pc[q] = "cbBalance", call[q].op = "register",
                      NEW c \in Chain
               PROVE  /\ chain[c] >= GapLimit[c]
                      /\ \A i \in 1..GapLimit[c] :
                           Derived[c][chain[c] + 1 - i] \notin usedAddrs
    BY DEF GapRestored
  <2>1. chain[c] \in Nat /\ GapLimit[c] \in Nat \ {0}
    BY ChainAssumption DEF IInv, TypeOK, KeptType
  <2>2. HasGap(c, chain[c], GapLimit[c], usedAddrs)
    BY DEF GapsFilled, FullGap
  <2>3. \A i \in 1..GapLimit[c] :
          chain[c] + 1 - i \in (chain[c] - GapLimit[c] + 1)..chain[c]
    BY <2>1
  <2> QED
    BY <2>2, <2>3 DEF HasGap
<1> QED
  BY <1>1, <1>2, <1>3, PTL DEF Spec

-----------------------------------------------------------------------------
(* Recursive queries.  They follow the inputs of transactions; that each   *)
(* of them has a solution does not take that inputs lead to an end.        *)

LEMMA FixedPoint ==
  ASSUME NEW X, NEW A \in SUBSET X, NEW D \in [X -> SUBSET X]
  PROVE  \E f \in [X -> BOOLEAN] :
           \A x \in X : f[x] <=> (x \in A \/ \E y \in D[x] : f[y])
<1> DEFINE Closed(S) == A \subseteq S /\ \A x \in X : D[x] \cap S # {} => x \in S
           K == {x \in X : \A S \in SUBSET X : Closed(S) => x \in S}
           f == [x \in X |-> IF x \in K THEN TRUE ELSE FALSE]
<1>1. \A S \in SUBSET X : Closed(S) => K \subseteq S
  OBVIOUS
<1>2. A \subseteq K
  OBVIOUS
<1>3. ASSUME NEW x \in X, NEW y \in D[x], y \in K  PROVE x \in K
  BY <1>3
<1>4. ASSUME NEW x \in K, x \notin A, \A y \in D[x] : y \notin K  PROVE FALSE
  <2> DEFINE T == K \ {x}
  <2>1. A \subseteq T
    BY <1>2, <1>4
  <2>2. ASSUME NEW z \in X, D[z] \cap T # {}  PROVE z \in T
    <3>1. z \in K
      BY <1>3, <2>2
    <3>2. z # x
      BY <1>4, <2>2
    <3> QED
      BY <3>1, <3>2
  <2>3. Closed(T) /\ T \in SUBSET X /\ x \notin T
    BY <2>1, <2>2
  <2> HIDE DEF T
  <2> QED
    BY <2>3
<1> HIDE DEF K
<1>5. \A x \in X : D[x] \subseteq X
  OBVIOUS
<1>6. \A x \in X : x \in K <=> (x \in A \/ \E y \in D[x] : y \in K)
  BY <1>2, <1>3, <1>4
<1>7. ASSUME NEW x \in X  PROVE f[x] \in BOOLEAN /\ (f[x] <=> x \in K)
  OBVIOUS
<1>8. f \in [X -> BOOLEAN]
  OBVIOUS
<1> HIDE DEF f
<1>9. \A x \in X : f[x] <=> (x \in A \/ \E y \in D[x] : f[y])
  BY <1>5, <1>6, <1>7
<1> QED
  BY <1>8, <1>9

LEMMA TxFixedPoints ==
  \A A \in SUBSET Tx : \A D \in [Tx -> SUBSET Tx] :
    \E f \in [Tx -> BOOLEAN] :
      \A t \in Tx : f[t] <=> (t \in A \/ \E y \in D[t] : f[y])
<1>1. \A A \in SUBSET Tx, D \in [Tx -> SUBSET Tx] :
        \E f \in [Tx -> BOOLEAN] :
          \A t \in Tx : f[t] <=> (t \in A \/ \E y \in D[t] : f[y])
  BY FixedPoint
<1> QED
  BY <1>1, Zenon

(* TxIsAscending never contradicts the order of the blocks.                *)
LEMMA AscendingHeights ==
  ASSUME NEW t1 \in Tx, NEW t2 \in Tx, NEW hgt \in [Tx -> Nat], NEW all \in SUBSET Tx
  PROVE  /\ hgt[t1] > hgt[t2] => TxIsAscending(t1, t2, hgt, all)
         /\ TxIsAscending(t1, t2, hgt, all) => hgt[t1] >= hgt[t2]
<1> DEFINE body(f, t) ==
             \/ hgt[t] > hgt[t2]
             \/ /\ hgt[t] = hgt[t2]
                /\ \/ Spends(t, t2)
                   \/ /\ ~Spends(t2, t)
                      /\ \E u \in In[t] : u.hash \in all /\ f[u.hash]
           P(f) == f = [t \in Tx |-> body(f, t)]
           A == {t \in Tx : hgt[t] > hgt[t2] \/ (hgt[t] = hgt[t2] /\ Spends(t, t2))}
           D == [t \in Tx |-> IF hgt[t] = hgt[t2] /\ ~Spends(t2, t)
                              THEN {s \in all : \E u \in In[t] : u.hash = s}
                              ELSE {}]
<1>1. \E f : P(f)
  <2>1. A \in SUBSET Tx /\ D \in [Tx -> SUBSET Tx]
    OBVIOUS
  <2>2. PICK f \in [Tx -> BOOLEAN] :
          \A t \in Tx : f[t] <=> (t \in A \/ \E y \in D[t] : f[y])
    <3> HIDE DEF A, D
    <3>1. \A E \in [Tx -> SUBSET Tx] :
            \E f \in [Tx -> BOOLEAN] :
              \A x \in Tx : f[x] <=> (x \in A \/ \E y \in E[x] : f[y])
      BY <2>1, TxFixedPoints
    <3> QED
      BY <2>1, <3>1
  <2>3. \A t \in Tx : f[t] <=> body(f, t)
    <3> SUFFICES ASSUME NEW t \in Tx  PROVE f[t] <=> body(f, t)
      OBVIOUS
    <3>1. (\E y \in D[t] : f[y]) <=>
            /\ hgt[t] = hgt[t2] /\ ~Spends(t2, t)
            /\ \E u \in In[t] : u.hash \in all /\ f[u.hash]
      OBVIOUS
    <3>2. t \in A <=> hgt[t] > hgt[t2] \/ (hgt[t] = hgt[t2] /\ Spends(t, t2))
      OBVIOUS
    <3> HIDE DEF A, D
    <3> QED
      BY <2>2, <3>1, <3>2
  <2>4. \A t \in Tx : f[t] = body(f, t)
    BY <2>3
  <2>5. f = [t \in Tx |-> f[t]]
    OBVIOUS
  <2> HIDE DEF body
  <2>6. f = [t \in Tx |-> body(f, t)]
    BY <2>4, <2>5
  <2> QED
    BY <2>6
<1>2. TxIsAscending(t1, t2, hgt, all) = (CHOOSE f : P(f))[t1]
  BY DEF TxIsAscending
<1> HIDE DEF P
<1>3. PICK f : P(f) /\ TxIsAscending(t1, t2, hgt, all) = f[t1]
  BY <1>1, <1>2
<1>4. f[t1] = body(f, t1)
  BY <1>3 DEF P
<1> QED
  BY <1>3, <1>4

(* The order never contradicts the order of the blocks.                    *)
LEMMA SortsByHeight ==
  ASSUME NEW t1 \in Tx, NEW t2 \in Tx, NEW hgt \in [Tx -> Nat], NEW all \in SUBSET Tx
  PROVE  /\ hgt[t1] > hgt[t2] => SortsAfter(t1, t2, hgt, all)
         /\ SortsAfter(t1, t2, hgt, all) => hgt[t1] >= hgt[t2]
<1>1. /\ hgt[t1] > hgt[t2] => TxIsAscending(t1, t2, hgt, all)
      /\ TxIsAscending(t1, t2, hgt, all) => hgt[t1] >= hgt[t2]
      /\ hgt[t2] > hgt[t1] => TxIsAscending(t2, t1, hgt, all)
  BY AscendingHeights
<1>2. hgt[t1] \in Nat /\ hgt[t2] \in Nat
  OBVIOUS
<1> QED
  BY <1>1, <1>2 DEF SortsAfter

LEMMA InsertSorted ==
  ASSUME TypeOK, SortedByHeight, NEW t \in Tx, InsertTx(t, height[t]), UNCHANGED height
  PROVE  SortedByHeight'
<1> DEFINE s == transactions
           n == Len(s)
<1>1. /\ s \in Seq(Tx) /\ n \in Nat /\ \A i \in 1..n : s[i] \in Tx
      /\ height \in [Tx -> Nat] /\ allTx \cup {t} \in SUBSET Tx
  <2>1. s \in Seq(Tx) /\ n \in Nat /\ \A i \in 1..n : s[i] \in Tx
    BY DEF TypeOK, KeptType
  <2>2. height \in [Tx -> Nat]
    BY HeightAssumption DEF TypeOK, KeptType
  <2>3. allTx \cup {t} \in SUBSET Tx
    BY DEF TypeOK, KeptType
  <2> QED
    BY <2>1, <2>2, <2>3
<1>2. [height EXCEPT ![t] = height[t]] = height
  BY <1>1
<1>3. PICK k \in 0..n :
        /\ k > 0 => ~SortsAfter(s[k], t, height, allTx \cup {t})
        /\ \A i \in (k + 1)..n : SortsAfter(s[i], t, height, allTx \cup {t})
        /\ transactions' = InsertAt(s, k, t)
  BY <1>2 DEF InsertTx
<1>4. k > 0 => height[s[k]] <= height[t]
  <2> SUFFICES ASSUME k > 0  PROVE height[s[k]] <= height[t]
    OBVIOUS
  <2>1. s[k] \in Tx /\ height[s[k]] \in Nat /\ height[t] \in Nat
    BY <1>1
  <2>2. ~(height[s[k]] > height[t])
    BY <1>1, <1>3, <2>1, SortsByHeight
  <2> QED
    BY <2>1, <2>2
<1>5. \A i \in (k + 1)..n : height[s[i]] >= height[t]
  BY <1>1, <1>3, SortsByHeight, SMTT(30)
<1>6. \A i, j \in 1..n : i < j => height[s[i]] <= height[s[j]]
  BY DEF SortedByHeight
<1>7. \A i \in 1..n : height[s[i]] \in Nat
  BY <1>1
<1>8. \A i \in 1..k : height[s[i]] <= height[t]
  BY <1>1, <1>3, <1>4, <1>6, <1>7, SMTT(30)
<1> DEFINE r == InsertAt(s, k, t)
<1>9. /\ Len(r) = n + 1
      /\ \A i \in 1..(n + 1) : r[i] = IF i <= k THEN s[i] ELSE IF i = k + 1 THEN t ELSE s[i - 1]
  BY <1>1 DEF InsertAt
<1> HIDE DEF r, s, n
<1>10. \A i, j \in 1..(n + 1) : i < j => height[r[i]] <= height[r[j]]
  <2> SUFFICES ASSUME NEW i \in 1..(n + 1), NEW j \in 1..(n + 1), i < j
               PROVE  height[r[i]] <= height[r[j]]
    OBVIOUS
  <2>1. CASE j <= k
    BY <1>1, <1>6, <1>9, <2>1
  <2>2. CASE j = k + 1
    BY <1>1, <1>8, <1>9, <2>2, SMTT(30)
  <2>3. CASE j > k + 1 /\ i <= k
    <3>1. r[i] = s[i] /\ r[j] = s[j - 1] /\ i \in 1..n /\ j - 1 \in 1..n /\ i < j - 1
      BY <1>1, <1>9, <2>3
    <3> QED
      BY <1>6, <3>1
  <2>4. CASE j > k + 1 /\ i = k + 1
    <3>1. r[i] = t /\ r[j] = s[j - 1] /\ j - 1 \in (k + 1)..n /\ j - 1 \in 1..n
      BY <1>1, <1>9, <2>4
    <3>2. height[t] \in Nat /\ height[s[j - 1]] \in Nat
      BY <1>1, <1>7, <3>1
    <3> QED
      BY <1>5, <3>1, <3>2
  <2>5. CASE j > k + 1 /\ i > k + 1
    <3>1. /\ r[i] = s[i - 1] /\ r[j] = s[j - 1]
          /\ i - 1 \in 1..n /\ j - 1 \in 1..n /\ i - 1 < j - 1
      BY <1>1, <1>9, <2>5
    <3> QED
      BY <1>6, <3>1
  <2> QED
    BY <1>1, <2>1, <2>2, <2>3, <2>4, <2>5
<1> QED
  BY <1>3, <1>9, <1>10 DEF SortedByHeight, r, s, n

-----------------------------------------------------------------------------
(* What the wallet answers about ancestors is what its queries say.        *)

LEMMA PendingDef ==
  ASSUME allTx \in SUBSET Tx, NEW t \in Tx
  PROVE  TransactionIsPending(t) <=>
           /\ Unconfirmed(t)
           /\ \/ t \in Postdated
              \/ LockHeight[t] > blockHeight + 1
              \/ \E u \in In[t] : u.hash \in allTx /\ TransactionIsPending(u.hash)
<1> DEFINE itself(x) == x \in Postdated \/ LockHeight[x] > blockHeight + 1
           body(f, x) == /\ Unconfirmed(x)
                         /\ \/ x \in Postdated
                            \/ LockHeight[x] > blockHeight + 1
                            \/ \E u \in In[x] : u.hash \in allTx /\ f[u.hash]
           P(f) == f = [x \in Tx |-> body(f, x)]
           A == {x \in Tx : Unconfirmed(x) /\ itself(x)}
           D == [x \in Tx |-> {s \in allTx : Unconfirmed(x) /\ \E u \in In[x] : u.hash = s}]
<1>1. \E f : P(f)
  <2>1. A \in SUBSET Tx /\ D \in [Tx -> SUBSET Tx]
    OBVIOUS
  <2>2. PICK f \in [Tx -> BOOLEAN] : \A x \in Tx : f[x] <=> (x \in A \/ \E y \in D[x] : f[y])
    <3> HIDE DEF A, D
    <3>1. \A E \in [Tx -> SUBSET Tx] :
            \E f \in [Tx -> BOOLEAN] :
              \A x \in Tx : f[x] <=> (x \in A \/ \E y \in E[x] : f[y])
      BY <2>1, TxFixedPoints
    <3> QED
      BY <2>1, <3>1
  <2>3. \A x \in Tx : f[x] <=> body(f, x)
    <3> SUFFICES ASSUME NEW x \in Tx  PROVE f[x] <=> body(f, x)
      OBVIOUS
    <3>1. (\E y \in D[x] : f[y]) <=>
            Unconfirmed(x) /\ \E u \in In[x] : u.hash \in allTx /\ f[u.hash]
      OBVIOUS
    <3>2. x \in A <=> Unconfirmed(x) /\ itself(x)
      OBVIOUS
    <3> HIDE DEF A, D
    <3> QED
      BY <2>2, <3>1, <3>2
  <2>4. \A x \in Tx : f[x] = body(f, x)
    BY <2>3
  <2>5. f = [x \in Tx |-> f[x]]
    OBVIOUS
  <2> HIDE DEF body
  <2>6. f = [x \in Tx |-> body(f, x)]
    BY <2>4, <2>5
  <2> QED
    BY <2>6
<1> DEFINE F == CHOOSE f : P(f)
<1>2. ASSUME NEW x  PROVE TransactionIsPending(x) = F[x]
  BY DEF TransactionIsPending
<1> HIDE DEF P
<1>3. P(F)
  BY <1>1
<1> HIDE DEF F
<1>4. F[t] = body(F, t)
  BY <1>3 DEF P
<1>5. TransactionIsPending(t) <=> body(F, t)
  BY <1>2, <1>4
<1> QED
  BY <1>2, <1>5

LEMMA VerifiedDef ==
  ASSUME allTx \in SUBSET Tx, NEW t \in Tx
  PROVE  TransactionIsVerified(t) <=>
           (Unconfirmed(t) =>
              /\ t \notin Undated
              /\ TransactionIsValid(t, height[t])
              /\ ~TransactionIsPending(t)
              /\ \A u \in In[t] : u.hash \in allTx => TransactionIsVerified(u.hash))
<1> DEFINE itself(x) == /\ x \notin Undated
                        /\ TransactionIsValid(x, height[x])
                        /\ ~TransactionIsPending(x)
           body(f, x) == Unconfirmed(x) =>
                           /\ x \notin Undated
                           /\ TransactionIsValid(x, height[x])
                           /\ ~TransactionIsPending(x)
                           /\ \A u \in In[x] : u.hash \in allTx => f[u.hash]
           P(f) == f = [x \in Tx |-> body(f, x)]
           A == {x \in Tx : Unconfirmed(x) /\ ~itself(x)}
           D == [x \in Tx |-> {s \in allTx : Unconfirmed(x) /\ \E u \in In[x] : u.hash = s}]
<1>1. \E f : P(f)
  <2>1. A \in SUBSET Tx /\ D \in [Tx -> SUBSET Tx]
    OBVIOUS
  <2>2. PICK g \in [Tx -> BOOLEAN] : \A x \in Tx : g[x] <=> (x \in A \/ \E y \in D[x] : g[y])
    <3> HIDE DEF A, D
    <3>1. \A E \in [Tx -> SUBSET Tx] :
            \E f \in [Tx -> BOOLEAN] :
              \A x \in Tx : f[x] <=> (x \in A \/ \E y \in E[x] : f[y])
      BY <2>1, TxFixedPoints
    <3> QED
      BY <2>1, <3>1
  <2> DEFINE f == [x \in Tx |-> IF g[x] THEN FALSE ELSE TRUE]
  <2>3. f \in [Tx -> BOOLEAN] /\ \A x \in Tx : f[x] <=> ~g[x]
    OBVIOUS
  <2> HIDE DEF f
  <2>4. \A x \in Tx : f[x] <=> body(f, x)
    <3> SUFFICES ASSUME NEW x \in Tx  PROVE f[x] <=> body(f, x)
      OBVIOUS
    <3>1. (\E y \in D[x] : g[y]) <=>
            Unconfirmed(x) /\ \E u \in In[x] : u.hash \in allTx /\ g[u.hash]
      OBVIOUS
    <3>2. x \in A <=> Unconfirmed(x) /\ ~itself(x)
      OBVIOUS
    <3>3. \A u \in In[x] : u.hash \in allTx => (f[u.hash] <=> ~g[u.hash])
      BY <2>3
    <3> HIDE DEF A, D
    <3> QED
      BY <2>2, <2>3, <3>1, <3>2, <3>3
  <2>5. \A x \in Tx : f[x] = body(f, x)
    BY <2>3, <2>4
  <2>6. f = [x \in Tx |-> f[x]]
    BY <2>3
  <2> HIDE DEF body
  <2>7. f = [x \in Tx |-> body(f, x)]
    BY <2>5, <2>6
  <2> QED
    BY <2>7
<1> DEFINE F == CHOOSE f : P(f)
<1>2. ASSUME NEW x  PROVE TransactionIsVerified(x) = F[x]
  BY DEF TransactionIsVerified
<1> HIDE DEF P
<1>3. P(F)
  BY <1>1
<1> HIDE DEF F
<1>4. F[t] = body(F, t)
  BY <1>3 DEF P
<1>5. TransactionIsVerified(t) <=> body(F, t)
  BY <1>2, <1>4
<1> QED
  BY <1>2, <1>5
-----------------------------------------------------------------------------
(* The wallet under the calls of the application.                          *)

Loaded ==
  OnlyLoaded /\ SortedByHeight /\ ChainsSettled /\ CoinsOwned /\ PendingKnown /\ PastStays

(* There is no wallet.                                                     *)
Empty ==
  /\ phase = "none" /\ \A p \in Thread : pc[p] = "idle"
  /\ transactions = <<>> /\ allTx = {} /\ blockHeight = 0
  /\ chain = [c \in Chain |-> 0] /\ usedAddrs = {}
  /\ utxos = {} /\ spentOutputs = {} /\ pendingTx = {}

LEMMA EmptyLoaded == Empty => Loaded
<1> SUFFICES ASSUME Empty  PROVE Loaded
  OBVIOUS
<1>1. ~Loading /\ ~InUpdate /\ Done = 0 /\ Listed = {}
  BY DEF Empty, Loading, InUpdate, Done, Listed, Range
<1>2. \A c \in Chain : chain[c] = 0 /\ Len(Derived[c]) \in Nat
  BY ChainAssumption DEF Empty
<1>3. OnlyLoaded /\ SortedByHeight
  BY <1>1 DEF Empty, OnlyLoaded, SortedByHeight
<1>4. ChainsSettled
  BY <1>1, <1>2 DEF Empty, ChainsSettled
<1>5. CoinsOwned /\ PendingKnown /\ PastStays
  BY <1>1 DEF Empty, CoinsOwned, CoinsKept, PendingKnown, PastStays
<1> QED
  BY <1>3, <1>4, <1>5 DEF Loaded

(* Calls that leave the wallet alone.                                      *)
LEMMA SameLoaded ==
  ASSUME Loaded, UNCHANGED vars
  PROVE  Loaded'
<1>1. Done' = Done /\ Loading' = Loading /\ Listed' = Listed
  BY DEF vars, sumVars, keptVars, threadVars, Done, Loading, InUpdate, Listed
<1>2. OnlyLoaded' /\ SortedByHeight' /\ ChainsSettled'
  BY <1>1 DEF Loaded, OnlyLoaded, SortedByHeight, ChainsSettled, ListedAddrs,
              vars, sumVars, keptVars, threadVars
<1>3. CoinsOwned'
  BY <1>1 DEF Loaded, CoinsOwned, CoinsKept, Own, AllAddrs, vars, sumVars, keptVars
<1>4. PendingKnown'
  BY <1>1 DEF Loaded, PendingKnown, TransactionIsPending, Unconfirmed, vars, sumVars, keptVars
<1>5. PastStays'
  BY <1>1 DEF Loaded, PastStays, Settled, OwnUpTo, SpentUpTo, Own, AllAddrs, Unconfirmed,
              vars, sumVars, keptVars
<1> QED
  BY <1>2, <1>3, <1>4, <1>5 DEF Loaded

(* Of all threads only p can be in the constructor.                        *)
LEMMA OneLoads ==
  ASSUME IInv, OnlyLoaded, NEW p \in Thread, pc[p] \in Locking
  PROVE  /\ \A q \in Thread \ {p} : pc[q] = "idle"
         /\ phase = "loading"
         /\ call[p].op = "new"
         /\ Loading <=> pc[p] = "load"
         /\ InUpdate <=> pc[p] = "update"
<1>1. \A q \in Thread \ {p} : pc[q] = "idle"
  BY UpdateLocked DEF IInv, OnlyLoaded
<1>2. call[p].op = "new" /\ phase = "loading"
  BY DEF IInv, Control, ThreadControl, OnlyLoaded, Locking
<1> QED
  BY <1>1, <1>2 DEF Loading, InUpdate

(* The constructor begins.                                                 *)
LEMMA NewIInv ==
  ASSUME IInv, NEW p \in Thread, NEW s \in Seq(Tx),
         NEW hs \in [Tx -> Heights \cup {TX_UNCONFIRMED}], New(p, s, hs)
  PROVE  IInv'
<1> USE DEF IInv, TypeOK
<1>1. KeptType' /\ SumType'
  <2>1. KeptType'
    BY DEF New, KeptType
  <2>2. SumType'
    BY DEF New, SumType, sumVars
  <2> QED
    BY <2>1, <2>2
<1>2. CallType'
  <2>1. (IF s = <<>> THEN NoTx ELSE s[1]) \in Tx \cup {NoTx}
    OBVIOUS
  <2>2. call' \in [Thread -> Calls]
    BY <2>1, CallsType DEF New, AfterUpdate, CallType
  <2>3. pc' \in [Thread -> Labels] /\ todo' = [todo EXCEPT ![p] = s]
    BY DEF New, Goto, Labels, CallType
  <2>4. \A q \in Thread : pc'[q] = "load" => todo'[q] \in Seq(Tx)
    BY <2>3 DEF New, Goto, CallType
  <2> QED
    BY <2>2, <2>3, <2>4 DEF New, CallType, appVars
<1>3. Control'
  <2>1. ASSUME NEW q \in Thread  PROVE ThreadControl(q)'
    BY DEF New, Call, Goto, Control, ThreadControl, Locking, CallType
  <2>2. phase' = "loading" /\ Listed' \subseteq allTx' /\ pc'[p] \in Locking
    BY DEF New, Goto, Locking, Listed, Range, Control, CallType
  <2> QED
    BY <2>1, <2>2 DEF Control
<1>4. ListedOnce' /\ (ub.prev = ub.balance)'
  BY DEF New, ListedOnce, sumVars
<1>5. Loading' /\ ~InUpdate'
  <2>1. pc' = [pc EXCEPT ![p] = "load"]
    BY DEF New, Goto
  <2>2. \A q \in Thread : pc[q] \notin Locking
    BY DEF New, Control, ThreadControl
  <2> QED
    BY <2>1, <2>2 DEF Loading, InUpdate, Locking, CallType
<1> QED
  BY <1>1, <1>2, <1>3, <1>4, <1>5

LEMMA NewLoaded ==
  ASSUME IInv, Loaded, NEW p \in Thread, NEW s, NEW hs, New(p, s, hs)
  PROVE  Loaded'
<1> USE DEF Loaded
<1>1. transactions = <<>> /\ allTx = {} /\ Listed = {} /\ ~Loading
  <2>1. transactions = <<>> /\ allTx = {} /\ \A q \in Thread : pc[q] \notin Locking
    BY DEF New, IInv, Control, ThreadControl
  <2> QED
    BY <2>1 DEF Listed, Range, Loading, Locking
<1>2. /\ pc' = [pc EXCEPT ![p] = "load"] /\ pc \in [Thread -> Labels]
      /\ UNCHANGED <<transactions, allTx, blockHeight, chain, sumVars>>
  BY DEF New, Goto, IInv, TypeOK, CallType
<1>3. Loading' /\ Listed' = Listed
  BY <1>2 DEF Loading, Listed
<1>4. OnlyLoaded'
  BY <1>2, <1>3 DEF OnlyLoaded, Locking, New, Call
<1>5. SortedByHeight'
  BY <1>1, <1>2 DEF SortedByHeight
<1>6. ChainsSettled'
  <2>1. usedAddrs = {} /\ usedAddrs' = {} /\ ListedAddrs' = {}
    BY <1>1, <1>2, <1>3 DEF ChainsSettled, ListedAddrs, sumVars
  <2> QED
    BY <1>2, <1>3, <2>1 DEF ChainsSettled
<1> QED
  BY <1>3, <1>4, <1>5, <1>6 DEF CoinsOwned, PendingKnown, PastStays
(* One of the stored transactions joins the wallet.                        *)
LEMMA NewTxLoaded ==
  ASSUME IInv, Loaded, NEW p \in Thread, NewTx(p)
  PROVE  Loaded'
<1> USE DEF Loaded
<1> DEFINE t == Head(todo[p])
<1>1. /\ pc[p] = "load" /\ t \in Tx /\ todo[p] \in Seq(Tx)
      /\ UNCHANGED <<height, blockHeight, chain, pc, call, phase>>
  BY DEF NewTx, IInv, TypeOK, CallType
<1>2. TypeOK /\ transactions \in Seq(Tx) /\ Loading
  BY <1>1 DEF IInv, TypeOK, KeptType, Loading
<1>3. Loading'
  BY <1>1 DEF Loading
<1> HIDE DEF t
<1>4. CASE t \in allTx
  <2>1. UNCHANGED <<allTx, transactions, usedAddrs>>
    BY <1>4 DEF NewTx, t
  <2>2. OnlyLoaded' /\ SortedByHeight' /\ ChainsSettled'
    BY <1>1, <1>2, <1>3, <2>1 DEF OnlyLoaded, SortedByHeight, ChainsSettled, Listed, ListedAddrs
  <2> QED
    BY <1>3, <2>2 DEF CoinsOwned, PendingKnown, PastStays
<1>5. CASE t \notin allTx
  <2>1. /\ allTx' = allTx \cup {t} /\ InsertTx(t, height[t])
        /\ usedAddrs' = usedAddrs \cup OutAddrs(t)
    BY <1>5 DEF NewTx, t
  <2>2. Listed' = Listed \cup {t}
    <3>1. PICK k \in 0..Len(transactions) : transactions' = InsertAt(transactions, k, t)
      BY <2>1 DEF InsertTx
    <3> QED
      BY <1>1, <1>2, <3>1, InsertAtType DEF Listed
  <2>3. OnlyLoaded'
    BY <1>1, <2>1, <2>2 DEF OnlyLoaded
  <2>4. SortedByHeight'
    BY <1>1, <1>2, <2>1, InsertSorted
  <2>5. ListedAddrs' = ListedAddrs \cup OutAddrs(t)
    <3> DEFINE oa(y) == OutAddrs(y)
    <3>1. ListedAddrs = UNION {oa(y) : y \in Listed}
      BY DEF ListedAddrs
    <3>2. ListedAddrs' = UNION {oa(y) : y \in Listed'}
      BY DEF ListedAddrs, OutAddrs
    <3> HIDE DEF oa
    <3>3. ListedAddrs' = ListedAddrs \cup oa(t)
      BY <2>2, <3>1, <3>2
    <3> QED
      BY <3>3 DEF oa
  <2>6. ChainsSettled'
    BY <1>1, <1>2, <1>3, <2>1, <2>5 DEF ChainsSettled
  <2> QED
    BY <1>3, <2>3, <2>4, <2>6 DEF CoinsOwned, PendingKnown, PastStays
<1> QED
  BY <1>4, <1>5

LEMMA ExtendedEnd ==
  ASSUME NEW c \in Chain, NEW from \in 0..Len(Derived[c]), NEW gap, NEW used
  PROVE  \/ Extended(c, from, gap, used) = Len(Derived[c])
         \/ HasGap(c, Extended(c, from, gap, used), gap, used)
<1> DEFINE all == Len(Derived[c])
           reached(n) == /\ HasGap(c, n, gap, used)
                         /\ \A m \in from..(n - 1) : ~HasGap(c, m, gap, used)
<1>1. CASE \E n \in from..all : reached(n)
  <2>1. Extended(c, from, gap, used) = CHOOSE n \in from..all : reached(n)
    BY <1>1 DEF Extended
  <2> HIDE DEF reached, all
  <2>2. reached(Extended(c, from, gap, used))
    BY <1>1, <2>1
  <2> QED
    BY <2>2 DEF reached
<1>2. CASE ~\E n \in from..all : reached(n)
  BY <1>2 DEF Extended
<1> QED
  BY <1>1, <1>2

(* The addresses are generated, and the balance loop begins.               *)
LEMMA NewAddrsLoaded ==
  ASSUME IInv, Loaded, NEW p \in Thread, NewAddrs(p)
  PROVE  Loaded'
<1> USE DEF Loaded
<1>1. /\ pc[p] = "load" /\ UNCHANGED <<keptVars, phase, call>> /\ BeginUpdateBalance(p)
      /\ chain' = [c \in Chain |-> Extended(c, 0, GapLimit[c], usedAddrs)]
  BY DEF NewAddrs
<1>2. call[p].op = "new" /\ phase = "loading" /\ \A q \in Thread \ {p} : pc[q] = "idle"
  BY <1>1, OneLoads DEF Locking
<1>3. pc' = [pc EXCEPT ![p] = "update"] /\ pc \in [Thread -> Labels]
  BY <1>1 DEF BeginUpdateBalance, Goto, IInv, TypeOK, CallType
<1>4. Loading /\ ~Loading' /\ InUpdate' /\ Done' = 0
  <2>1. ub' = NoUpdate
    BY <1>1 DEF BeginUpdateBalance
  <2>2. Loading /\ ~Loading' /\ InUpdate'
    BY <1>1, <1>2, <1>3 DEF Loading, InUpdate
  <2> QED
    BY <2>1, <2>2 DEF Done, NoUpdate
<1>5. usedAddrs = ListedAddrs /\ ListedAddrs' = ListedAddrs
  BY <1>1, <1>4 DEF ChainsSettled, ListedAddrs, Listed, keptVars
<1>6. OnlyLoaded'
  BY <1>1, <1>2, <1>3 DEF OnlyLoaded, keptVars, Listed, Locking
<1>7. SortedByHeight'
  BY <1>1 DEF SortedByHeight, keptVars
<1>8. ChainsSettled'
  <2>1. ASSUME NEW c \in Chain
        PROVE  /\ chain'[c] <= Len(Derived[c])
               /\ \/ chain'[c] = Len(Derived[c])
                  \/ HasGap(c, chain'[c], GapLimit[c], ListedAddrs)
    <3>1. chain'[c] = Extended(c, 0, GapLimit[c], ListedAddrs) /\ Len(Derived[c]) \in Nat
      BY <1>1, <1>5, ChainAssumption
    <3> QED
      BY <3>1, ExtendedBound, ExtendedEnd
  <2>2. usedAddrs' = {}
    BY <1>1 DEF BeginUpdateBalance
  <2> QED
    BY <1>4, <1>5, <2>1, <2>2 DEF ChainsSettled
<1>9. CoinsOwned' /\ PendingKnown' /\ PastStays'
  BY <1>1, <1>4 DEF BeginUpdateBalance, CoinsOwned, CoinsKept, PendingKnown, PastStays
<1> QED
  BY <1>6, <1>7, <1>8, <1>9

(* When all of the first transactions count, the unspent outputs are what  *)
(* they pay to the wallet and do not spend.                                *)
LEMMA CleanCoins ==
  ASSUME IInv, OnlyLoaded, CoinsOwned, ~Loading, invalidTx = {}, pendingTx = {}
  PROVE  /\ utxos = OwnUpTo(Done) \ SpentUpTo(Done)
         /\ spentOutputs = SpentUpTo(Done)
<1> DEFINE seen == {transactions[i] : i \in 1..Done}
           own(t) == Own(t)
<1>1. /\ \A u \in utxos : u.hash \in seen
      /\ \A t \in seen : In[t] \subseteq spentOutputs
      /\ \A t \in seen : In[t] \cap utxos = {}
  BY DEF IInv, Accounted, Statuses
<1>2. /\ spentOutputs \subseteq UNION {In[t] : t \in seen}
      /\ \A t \in seen : own(t) \subseteq utxos \cup spentOutputs
      /\ \A u \in utxos : u \in own(u.hash)
  BY DEF CoinsOwned, CoinsKept
<1>3. OwnUpTo(Done) = UNION {own(t) : t \in seen} /\ SpentUpTo(Done) = UNION {In[t] : t \in seen}
  BY DEF OwnUpTo, SpentUpTo
<1> HIDE DEF seen, own
<1>4. spentOutputs = UNION {In[t] : t \in seen}
  BY <1>1, <1>2
<1>5. utxos \cap spentOutputs = {}
  BY <1>1, <1>4
<1>6. utxos \subseteq UNION {own(t) : t \in seen}
  BY <1>1, <1>2
<1>7. UNION {own(t) : t \in seen} \subseteq utxos \cup spentOutputs
  BY <1>2
<1> QED
  BY <1>3, <1>4, <1>5, <1>6, <1>7

(* Confirmed transactions do.                                              *)
LEMMA SettledCoins ==
  IInv /\ OnlyLoaded /\ CoinsOwned /\ ~Loading /\ Settled(Done)
    => utxos = OwnUpTo(Done) \ SpentUpTo(Done)
<1> SUFFICES ASSUME IInv, OnlyLoaded, CoinsOwned, ~Loading, Settled(Done)
             PROVE  utxos = OwnUpTo(Done) \ SpentUpTo(Done)
  OBVIOUS
<1>1. \A t \in invalidTx \cup pendingTx :
        t \in {transactions[i] : i \in 1..Done} /\ Unconfirmed(t)
  BY DEF IInv, Accounted, Statuses, OnlyLoaded
<1>2. invalidTx = {} /\ pendingTx = {}
  BY <1>1 DEF Settled
<1> QED
  BY <1>2, CleanCoins

(* The loop is at its next transaction.                                    *)
LEMMA LoopLoaded ==
  ASSUME IInv, IInv', Loaded, NEW p \in Thread, NEW t \in Tx,
         UpdateInvalid(p, t) \/ UpdatePending(p, t) \/ UpdateAccepted(p, t)
  PROVE  Loaded'
<1> USE DEF Loaded
<1>1. /\ pc[p] = "update" /\ UNCHANGED <<keptVars, chain, phase, pc, call>>
      /\ Updating(p, t)
      /\ ub'.i = ub.i + 1
      /\ usedAddrs' = usedAddrs \/ usedAddrs' = usedAddrs \cup OutAddrs(t)
      /\ utxos' \subseteq utxos \cup Own(t)
  <2>1. ub \in [i : Nat \ {0}, balance : Int, prev : Int]
    BY DEF IInv, TypeOK, SumType
  <2> QED
    BY <2>1 DEF UpdateInvalid, UpdatePending, UpdateAccepted, Updating, Skip, threadVars
<1>2. ~Loading /\ InUpdate /\ phase = "loading" /\ ~Loading' /\ InUpdate'
  <2>1. ~Loading /\ InUpdate /\ phase = "loading"
    BY <1>1, OneLoads DEF Locking
  <2> QED
    BY <1>1, <2>1 DEF Loading, InUpdate
<1>3. /\ TypeOK /\ Control /\ ListedOnce /\ Balanced /\ (InUpdate => CoinsKept)
      /\ Accounted(Done, SoFar)
  BY <1>2 DEF IInv, Balanced
<1>4. /\ Done = ub.i - 1 /\ Done \in Nat /\ Done' = Done + 1
      /\ t = transactions[Done + 1] /\ t \in Listed
  <2>1. Done = ub.i - 1 /\ ub.i \in 1..Len(transactions) /\ t = transactions[ub.i]
    BY <1>1, <1>3, Position
  <2>2. Done' = ub'.i - 1 /\ ub.i \in Nat
    BY <1>2, <2>1 DEF Done
  <2>3. DOMAIN transactions = 1..Len(transactions) /\ Len(transactions) \in Nat
    BY <1>3 DEF TypeOK, KeptType
  <2> QED
    BY <1>1, <2>1, <2>2, <2>3 DEF Listed, Range
<1>5. Listed' = Listed /\ ListedAddrs' = ListedAddrs
  BY <1>1 DEF Listed, ListedAddrs, keptVars
<1>6. OnlyLoaded' /\ SortedByHeight'
  BY <1>1, <1>5 DEF OnlyLoaded, SortedByHeight, keptVars
<1>7. ChainsSettled'
  <2>1. OutAddrs(t) \subseteq ListedAddrs
    BY <1>4 DEF ListedAddrs
  <2> QED
    BY <1>1, <1>2, <1>5, <2>1 DEF ChainsSettled
<1>8. ASSUME NEW s  PROVE Own(s)' = Own(s)
  BY <1>1 DEF Own, AllAddrs
<1>9. CoinsOwned'
  <2>1. CoinsKept'
    BY <1>3, CoinsKeptLoop
  <2>2. \A u \in utxos' : u \in Own(u.hash)'
    BY <1>1, <1>2, <1>8 DEF CoinsOwned, Own
  <2> QED
    BY <2>1, <2>2 DEF CoinsOwned
<1>10. PendingKnown'
  <2>1. ASSUME NEW s  PROVE TransactionIsPending(s)' = TransactionIsPending(s)
    BY <1>1 DEF TransactionIsPending, Unconfirmed, keptVars
  <2>2. \A s \in pendingTx : TransactionIsPending(s)
    BY <1>2 DEF PendingKnown
  <2>3. CASE UpdatePending(p, t)
    <3>1. pendingTx' = pendingTx \cup {t} /\ IsPending(t)
      BY <2>3 DEF UpdatePending
    <3>2. \A s \in pendingTx : s \in allTx
      <4>1. DOMAIN transactions = 1..Len(transactions) /\ Done \in 0..Len(transactions)
        BY <1>3 DEF TypeOK, KeptType, Accounted
      <4>2. \A i \in 1..Done : transactions[i] \in Listed
        BY <4>1 DEF Listed, Range
      <4> QED
        BY <1>3, <4>2 DEF Accounted, Statuses, OnlyLoaded
    <3>3. TransactionIsPending(t)
      <4>1. allTx \in SUBSET Tx
        BY <1>3 DEF TypeOK, KeptType
      <4>2. Unconfirmed(t) /\ \/ t \in Postdated
                              \/ LockHeight[t] > blockHeight + 1
                              \/ \E u \in In[t] : u.hash \in pendingTx
        BY <3>1 DEF IsPending
      <4>3. (\E u \in In[t] : u.hash \in pendingTx) =>
               \E u \in In[t] : u.hash \in allTx /\ TransactionIsPending(u.hash)
        BY <2>2, <3>2
      <4> QED
        BY <4>1, <4>2, <4>3, PendingDef
    <3> QED
      BY <2>1, <2>2, <3>1, <3>3 DEF PendingKnown
  <2>4. CASE pendingTx' = pendingTx
    BY <2>1, <2>2, <2>4 DEF PendingKnown
  <2> QED
    BY <2>3, <2>4 DEF UpdateInvalid, UpdateAccepted
<1>11. PastStays'
  <2>1. ASSUME NEW n
        PROVE  Settled(n)' = Settled(n) /\ OwnUpTo(n)' = OwnUpTo(n) /\ SpentUpTo(n)' = SpentUpTo(n)
    BY <1>1 DEF Settled, OwnUpTo, SpentUpTo, Own, AllAddrs, Unconfirmed, keptVars
  <2>2. ASSUME NEW n \in 1..Done, Settled(n)
        PROVE  balanceHist'[n] = Value[OwnUpTo(n) \ SpentUpTo(n)]
    <3>1. balanceHist[n] = Value[OwnUpTo(n) \ SpentUpTo(n)]
      BY <1>2, <2>2 DEF PastStays
    <3>2. Len(balanceHist) = Done /\ balanceHist \in Seq(Int)
      BY <1>3 DEF Accounted, Amounts, TypeOK, SumType
    <3>3. \E bal : balanceHist' = Append(balanceHist, bal)
      BY DEF UpdateInvalid, UpdatePending, UpdateAccepted, Skip
    <3>4. balanceHist'[n] = balanceHist[n]
      BY <1>4, <3>2, <3>3
    <3> QED
      BY <3>1, <3>4
  <2>3. ASSUME Settled(Done + 1)
        PROVE  balanceHist'[Done + 1] = Value[OwnUpTo(Done + 1) \ SpentUpTo(Done + 1)]
    <3>1. Settled(Done)'
      BY <1>4, <2>1, <2>3
    <3>2. utxos' = OwnUpTo(Done)' \ SpentUpTo(Done)'
      <4>1. (utxos = OwnUpTo(Done) \ SpentUpTo(Done))'
        <5>1. (IInv /\ OnlyLoaded /\ CoinsOwned /\ ~Loading /\ Settled(Done))'
          BY <1>2, <1>6, <1>9, <3>1
        <5> QED
          BY <5>1, SettledCoins, PTL
      <4> QED
        BY <4>1
    <3>3. utxos' = OwnUpTo(Done + 1) \ SpentUpTo(Done + 1)
      BY <1>4, <2>1, <3>2
    <3>4. Accounted(Done, SoFar)'
      BY <1>2 DEF IInv
    <3>5. SoFar' = balanceHist'[Done + 1] /\ SoFar' = Value[utxos']
      BY <1>4, <3>4 DEF Accounted, Amounts
    <3> QED
      BY <3>3, <3>5
  <2>4. \A n \in 1..(Done + 1) :
          Settled(n) => balanceHist'[n] = Value[OwnUpTo(n) \ SpentUpTo(n)]
    <3>1. \A n \in 1..(Done + 1) : n \in 1..Done \/ n = Done + 1
      BY <1>4
    <3> QED
      BY <2>2, <2>3, <3>1
  <2>5. \A n \in 1..Done' :
          Settled(n)' => balanceHist'[n] = Value[OwnUpTo(n)' \ SpentUpTo(n)']
    <3>1. \A n \in 1..(Done + 1) :
            Settled(n)' => balanceHist'[n] = Value[OwnUpTo(n)' \ SpentUpTo(n)']
      BY <2>1, <2>4
    <3> QED
      BY <1>4, <3>1
  <2> QED
    BY <2>5 DEF PastStays
<1> QED
  BY <1>6, <1>7, <1>9, <1>10, <1>11

(* The loop ends, and so does the constructor.                             *)
LEMMA DoneLoaded ==
  ASSUME IInv, Loaded, NEW p \in Thread,
         \/ UpdateDone(p)
         \/ NewVerify(p) /\ phase' = "ready"
  PROVE  Loaded'
<1> USE DEF Loaded
<1>1. /\ pc[p] \in {"update", "verify"}
      /\ UNCHANGED <<keptVars, chain, utxos, balanceHist, spentOutputs, invalidTx, pendingTx,
                     usedAddrs>>
      /\ phase' \in {"loading", "ready"}
  <2>1. CASE UpdateDone(p)
    <3>1. pc[p] = "update" /\ phase = "loading"
      BY <2>1, OneLoads DEF UpdateDone, Locking
    <3> QED
      BY <2>1, <3>1 DEF UpdateDone
  <2>2. CASE NewVerify(p) /\ phase' = "ready"
    BY <2>2 DEF NewVerify, FreeWallet, sumVars
  <2> QED
    BY <2>1, <2>2
<1>2. /\ phase = "loading" /\ call[p].op = "new" /\ \A q \in Thread \ {p} : pc[q] = "idle"
      /\ ~Loading /\ (InUpdate <=> pc[p] = "update")
  BY <1>1, OneLoads DEF Locking
<1>3. /\ pc \in [Thread -> Labels]
      /\ \E l \in {"verify", "idle"} : pc' = [pc EXCEPT ![p] = l]
  BY <1>2 DEF UpdateDone, NewVerify, Return, Goto, AfterUpdate, IInv, TypeOK, CallType
<1>4. ~Loading' /\ ~InUpdate'
  BY <1>2, <1>3 DEF Loading, InUpdate
<1>5. Done' = Done
  <2>1. Done' = Len(transactions)
    BY <1>1, <1>4 DEF Done, keptVars
  <2>2. CASE UpdateDone(p)
    <3>1. ub.i > Len(transactions) /\ Done = ub.i - 1 /\ Done \in 0..Len(transactions)
      BY <1>2, <2>2 DEF UpdateDone, Done, IInv, Accounted
    <3>2. Len(transactions) \in Nat /\ ub.i \in Nat
      BY DEF IInv, TypeOK, KeptType, SumType
    <3> QED
      BY <2>1, <3>1, <3>2
  <2>3. CASE NewVerify(p)
    BY <1>2, <2>1, <2>3 DEF NewVerify, Done
  <2> QED
    BY <2>2, <2>3
<1>6. Listed' = Listed /\ ListedAddrs' = ListedAddrs
  BY <1>1 DEF Listed, ListedAddrs, keptVars
<1>7. OnlyLoaded' /\ SortedByHeight'
  BY <1>1, <1>2, <1>3, <1>6 DEF OnlyLoaded, SortedByHeight, keptVars, Locking
<1>8. ChainsSettled'
  BY <1>1, <1>2, <1>4, <1>6 DEF ChainsSettled
<1>9. CoinsOwned'
  BY <1>1, <1>2, <1>5 DEF CoinsOwned, CoinsKept, Own, AllAddrs, keptVars
<1>10. PendingKnown'
  BY <1>1, <1>2 DEF PendingKnown, TransactionIsPending, Unconfirmed, keptVars
<1>11. PastStays'
  BY <1>1, <1>2, <1>5 DEF PastStays, Settled, OwnUpTo, SpentUpTo, Own, AllAddrs, Unconfirmed,
                          keptVars
<1> QED
  BY <1>7, <1>8, <1>9, <1>10, <1>11

(* The wallet is freed, or the process begins anew.                        *)
LEMMA FreeEmpty ==
  ASSUME FreeWallet, \A p \in Thread : pc'[p] = "idle"
  PROVE  Loaded'
<1>1. Empty'
  BY DEF FreeWallet, Empty
<1> QED
  BY <1>1, EmptyLoaded, PTL
(* There is an unused address already: none is generated.                  *)
LEMMA NoNewAddrs ==
  ASSUME IInv, Loaded, NEW p \in Thread, GetUnusedAddrs(p, "external", 1)
  PROVE  UNCHANGED vars
<1> DEFINE c == "external"
<1>1. /\ Idle(p) /\ lock = NoThread /\ UnusedAddrs(c, 1)
      /\ UNCHANGED <<keptVars, balance, sumVars, threadVars, appVars>>
  BY DEF GetUnusedAddrs
<1>2. phase = "ready" /\ ~Loading
  BY <1>1, ThreadAssumption DEF Idle, Loading, IInv, Control, ThreadControl, Locking
<1>3. /\ c \in Chain /\ chain[c] \in Nat /\ Len(Derived[c]) \in Nat
      /\ chain[c] \in 0..Len(Derived[c]) /\ GapLimit[c] \in Nat \ {0}
      /\ chain \in [Chain -> Nat]
  BY ChainAssumption DEF IInv, TypeOK, KeptType, Loaded, ChainsSettled
<1>4. \/ chain[c] = Len(Derived[c])
      \/ HasGap(c, chain[c], 1, usedAddrs)
  <2>1. usedAddrs \subseteq ListedAddrs
        /\ \/ chain[c] = Len(Derived[c])
           \/ HasGap(c, chain[c], GapLimit[c], ListedAddrs)
    BY <1>2, <1>3 DEF Loaded, ChainsSettled
  <2>2. HasGap(c, chain[c], GapLimit[c], ListedAddrs) => HasGap(c, chain[c], 1, usedAddrs)
    BY <1>3, <2>1 DEF HasGap
  <2> QED
    BY <2>1, <2>2
<1>5. Extended(c, chain[c], 1, usedAddrs) = chain[c]
  <2> DEFINE all == Len(Derived[c])
             reached(n) == /\ HasGap(c, n, 1, usedAddrs)
                           /\ \A m \in chain[c]..(n - 1) : ~HasGap(c, m, 1, usedAddrs)
             ext == Extended(c, chain[c], 1, usedAddrs)
  <2>1. ext = IF \E n \in chain[c]..all : reached(n)
              THEN CHOOSE n \in chain[c]..all : reached(n)
              ELSE all
    BY DEF Extended
  <2>2. CASE chain[c] = all
    <3>1. ext \in chain[c]..all
      <4> HIDE DEF reached, ext
      <4> QED
        BY <1>3, <2>1, <2>2
    <3> HIDE DEF ext, all
    <3> QED
      BY <1>3, <2>2, <3>1 DEF ext
  <2>3. CASE HasGap(c, chain[c], 1, usedAddrs)
    <3>1. reached(chain[c]) /\ chain[c] \in chain[c]..all
      BY <1>3, <2>3
    <3>2. ext \in chain[c]..all /\ reached(ext)
      <4> HIDE DEF reached, ext
      <4> QED
        BY <2>1, <3>1
    <3>3. ~(chain[c] < ext)
      <4> HIDE DEF ext
      <4>1. ext \in Nat
        BY <1>3, <3>2
      <4> QED
        BY <1>3, <2>3, <3>2, <4>1
    <3> HIDE DEF ext, all, reached
    <3> QED
      BY <1>3, <3>2, <3>3 DEF ext, all
  <2> QED
    BY <1>4, <2>2, <2>3
<1>6. chain' = chain
  BY <1>1, <1>3, <1>5 DEF UnusedAddrs
<1> QED
  BY <1>1, <1>6 DEF vars

(* What is given to the constructor.                                       *)
LEMMA FromArray ==
  ASSUME ArrayType, txArray # NoArray, NEW n \in 1..Len(txArray),
         \A i \in 1..n : txArray[i] # Null,
         NEW p, NewFromArray(p, n)
  PROVE  \E s \in Seq(Tx) : \E hs \in [Tx -> Heights \cup {TX_UNCONFIRMED}] : New(p, s, hs)
<1> DEFINE at(t) == {i \in 1..n : txArray[i].tx = t}
           isFirst(t, i) == txArray[i].tx = t /\ \A j \in 1..(i - 1) : txArray[j].tx # t
           first(t) == CHOOSE i \in 1..n : isFirst(t, i)
           s == [i \in 1..n |-> txArray[i].tx]
           hs == [t \in Tx |-> IF \E i \in 1..n : txArray[i].tx = t
                               THEN txArray[first(t)].height ELSE TX_UNCONFIRMED]
<1>1. \A i \in 1..n : txArray[i] \in Entry /\ txArray[i].tx \in Tx
                      /\ txArray[i].height \in Heights \cup {TX_UNCONFIRMED}
  BY DEF ArrayType, Entry
<1>2. s \in Seq(Tx)
  <2>1. n \in Nat
    BY DEF ArrayType
  <2> QED
    BY <1>1, <2>1
<1>3. ASSUME NEW t \in Tx, \E i \in 1..n : txArray[i].tx = t
      PROVE  first(t) \in 1..n
  <2>1. PICK i \in at(t) : \A j \in at(t) : i <= j
    <3>1. at(t) \in SUBSET Nat /\ at(t) # {}
      BY <1>3
    <3> HIDE DEF at
    <3> QED
      BY <3>1, Least
  <2>2. i \in 1..n /\ isFirst(t, i)
    BY <2>1 DEF ArrayType
  <2> HIDE DEF isFirst
  <2> QED
    BY <2>2
<1>4. hs \in [Tx -> Heights \cup {TX_UNCONFIRMED}]
  <2> HIDE DEF first
  <2> QED
    BY <1>1, <1>3
<1>5. New(p, s, hs)
  BY DEF NewFromArray
<1> HIDE DEF s, hs
<1> QED
  BY <1>2, <1>4, <1>5

LEMMA ArrayStep ==
  ASSUME ArrayType, [JniNext]_jniVars
  PROVE  ArrayType'
<1>1. CASE UNCHANGED <<txArray, counter>>
  BY <1>1 DEF ArrayType
<1>2. CASE txArray' = NoArray /\ counter' \in {0, counter}
  BY <1>2 DEF ArrayType
<1>3. ASSUME NEW n \in 0..MaxCount, CreateTxArrayWithCount(n)  PROVE ArrayType'
  <2>1. n \in Nat
    BY JniAssumption
  <2> QED
    BY <1>3, <2>1 DEF CreateTxArrayWithCount, ArrayType
<1>4. ASSUME NEW t \in Tx, NEW h \in Heights \cup {TX_UNCONFIRMED}, PutTransaction(t, h)
      PROVE  ArrayType'
  <2>1. [tx |-> t, height |-> h] \in Entry
    BY DEF Entry
  <2>2. CASE counter < Len(txArray)
    <3>1. /\ txArray \in Seq(Entry \cup {Null}) /\ counter \in Nat
          /\ txArray' = [txArray EXCEPT ![counter + 1] = [tx |-> t, height |-> h]]
          /\ counter' = counter + 1 /\ txArray # NoArray
      BY <1>4, <2>2 DEF PutTransaction, ArrayType
    <3>2. txArray' \in Seq(Entry \cup {Null})
      <4>1. ASSUME NEW S, NEW q \in Seq(S), NEW e \in S, NEW i
            PROVE  [q EXCEPT ![i] = e] \in Seq(S)
        <5>1. \A n \in Nat : \A f \in [1..n -> S] : f \in Seq(S)
          OBVIOUS
        <5>2. q \in [1..Len(q) -> S] /\ Len(q) \in Nat
          OBVIOUS
        <5>3. [q EXCEPT ![i] = e] \in [1..Len(q) -> S]
          BY <5>2
        <5> QED
          BY <5>1, <5>2, <5>3
      <4> DEFINE e == [tx |-> t, height |-> h]
                 S == Entry \cup {Null}
      <4>2. txArray \in Seq(S) /\ e \in S /\ txArray' = [txArray EXCEPT ![counter + 1] = e]
        BY <2>1, <3>1
      <4> HIDE DEF e, S
      <4>3. txArray' \in Seq(S)
        BY <4>1, <4>2
      <4> QED
        BY <4>3 DEF S
    <3>3. counter' \in Nat
      BY <3>1
    <3> QED
      BY <3>2, <3>3 DEF ArrayType
  <2>3. CASE ~(counter < Len(txArray))
    BY <1>1, <1>4, <2>3 DEF PutTransaction, Crash, globals
  <2> QED
    BY <2>2, <2>3
<1>5. ASSUME NEW p \in Thread, NEW n \in 0..MaxCount, CreateWallet(p, n)  PROVE ArrayType'
  <2>1. UNCHANGED <<txArray, counter>> \/ (txArray' = NoArray /\ counter' = 0)
    BY <1>5 DEF CreateWallet, NewFromArray, Crash, globals
  <2> QED
    BY <1>1, <1>2, <2>1
<1>6. ASSUME NEW p \in Thread,
             \/ Construct(p)
             \/ WalletCreated(p)
             \/ GetPrivKeyObject(p)
             \/ \E r \in Requests : ParsePaymentRequest(p, r)
      PROVE  ArrayType'
  <2>1. UNCHANGED <<txArray, counter>>
    BY <1>6 DEF Construct, WalletCreated, GetPrivKeyObject, ParsePaymentRequest, Crash, globals
  <2> QED
    BY <1>1, <2>1
<1>7. ASSUME NEW p \in Thread, WalletFreeEverything(p)  PROVE ArrayType'
  BY <1>2, <1>7 DEF WalletFreeEverything
<1>8. CASE Restart
  BY <1>2, <1>8 DEF Restart
<1>9. CASE \/ CreateInputArray
           \/ \E input \in SweepInputs : AddInputToPrivKeyTx(input)
           \/ GetBCashBalance \/ SweepBCash \/ PublishSerializedTransaction
           \/ \E t \in Tx, addr \in Range(Derived["internal"]), to \in Range(Derived["external"]) :
                SignTransaction(<<addr>>, Out[t], to)
  <2>1. UNCHANGED <<txArray, counter>>
    BY <1>9 DEF CreateInputArray, AddInputToPrivKeyTx, GetBCashBalance, SweepBCash,
                PublishSerializedTransaction, SignTransaction, Crash, globals
  <2> QED
    BY <1>1, <2>1
<1>10. CASE UNCHANGED jniVars
  BY <1>1, <1>10 DEF jniVars, globals
<1> QED
  BY <1>3, <1>4, <1>5, <1>6, <1>7, <1>8, <1>9, <1>10 DEF JniNext

(* To the wallet a call of the application is a step of its own, if any,   *)
(* or its end.                                                             *)
LEMMA WalletSteps ==
  ASSUME IInv, Loaded, ArrayType, [JniNext]_jniVars
  PROVE  \/ UNCHANGED vars
         \/ Restart
         \/ \E p \in Thread :
              \/ \E s \in Seq(Tx) : \E hs \in [Tx -> Heights \cup {TX_UNCONFIRMED}] : New(p, s, hs)
              \/ NewTx(p) \/ NewAddrs(p) \/ UpdateStep(p) \/ NewVerify(p)
              \/ Quiet /\ Free(p)
<1>1. ASSUME NEW p \in Thread, NEW n \in 0..MaxCount, CreateWallet(p, n)
      PROVE  \/ UNCHANGED vars
             \/ \E s \in Seq(Tx) : \E hs \in [Tx -> Heights \cup {TX_UNCONFIRMED}] : New(p, s, hs)
  <2>1. CASE txArray = NoArray \/ n = 0
    <3>1. New(p, <<>>, [t \in Tx |-> TX_UNCONFIRMED])
      BY <1>1, <2>1 DEF CreateWallet
    <3>2. <<>> \in Seq(Tx) /\ [t \in Tx |-> TX_UNCONFIRMED] \in [Tx -> Heights \cup {TX_UNCONFIRMED}]
      OBVIOUS
    <3> QED
      BY <3>1, <3>2
  <2>2. CASE txArray # NoArray /\ n \in 1..Len(txArray) /\ \A i \in 1..n : txArray[i] # Null
    <3>1. NewFromArray(p, n)
      <4>1. n # 0
        BY <2>2
      <4> QED
        BY <1>1, <2>2, <4>1 DEF CreateWallet
    <3> QED
      BY <2>2, <3>1, FromArray
  <2>3. CASE ~(txArray = NoArray \/ n = 0) /\
             ~(txArray # NoArray /\ n \in 1..Len(txArray) /\ \A i \in 1..n : txArray[i] # Null)
    BY <1>1, <2>3 DEF CreateWallet, Crash
  <2> QED
    BY <2>1, <2>2, <2>3
<1>2. ASSUME NEW p \in Thread,
             GetPrivKeyObject(p) \/ \E r \in Requests : ParsePaymentRequest(p, r)
      PROVE  UNCHANGED vars
  <2>1. UNCHANGED vars \/ GetUnusedAddrs(p, "external", 1)
    BY <1>2 DEF GetPrivKeyObject, ParsePaymentRequest, Crash
  <2> QED
    BY <2>1, NoNewAddrs
<1>3. ASSUME NEW p \in Thread, Construct(p) \/ WalletCreated(p) \/ WalletFreeEverything(p)
      PROVE  \/ UNCHANGED vars
             \/ NewTx(p) \/ NewAddrs(p) \/ UpdateStep(p) \/ NewVerify(p)
             \/ Quiet /\ Free(p)
  BY <1>3 DEF Construct, WalletCreated, WalletFreeEverything
<1>4. CASE \/ \E n \in 0..MaxCount : CreateTxArrayWithCount(n)
           \/ \E t \in Tx, h \in Heights \cup {TX_UNCONFIRMED} : PutTransaction(t, h)
           \/ CreateInputArray
           \/ \E input \in SweepInputs : AddInputToPrivKeyTx(input)
           \/ GetBCashBalance \/ SweepBCash \/ PublishSerializedTransaction
           \/ \E t \in Tx, addr \in Range(Derived["internal"]), to \in Range(Derived["external"]) :
                SignTransaction(<<addr>>, Out[t], to)
  BY <1>4 DEF CreateTxArrayWithCount, PutTransaction, CreateInputArray, AddInputToPrivKeyTx,
              GetBCashBalance, SweepBCash, PublishSerializedTransaction, SignTransaction, Crash
<1>5. CASE UNCHANGED jniVars
  BY <1>5 DEF jniVars
<1> QED
  BY <1>1, <1>2, <1>3, <1>4, <1>5 DEF JniNext

LEMMA JniInvStep == JniInv /\ [JniNext]_jniVars => JniInv'
<1> SUFFICES ASSUME JniInv, [JniNext]_jniVars  PROVE JniInv'
  OBVIOUS
<1>1. IInv /\ ArrayType /\ Loaded
  BY DEF JniInv, Loaded
<1>2. ASSUME [Next]_vars  PROVE IInv'
  BY <1>1, <1>2, IInvStep
<1>3. ASSUME UNCHANGED vars  PROVE IInv' /\ Loaded'
  BY <1>1, <1>2, <1>3, SameLoaded
<1>4. ASSUME Restart  PROVE IInv' /\ Loaded'
  <2>1. FreeWallet /\ \A p \in Thread : pc'[p] = "idle"
    BY <1>4 DEF Restart
  <2>2. Init'
    BY <1>4 DEF Restart, FreeWallet, Init
  <2>3. IInv'
    BY <2>2, InitIInv, PTL
  <2> QED
    BY <1>1, <2>1, <2>3, FreeEmpty
<1>5. ASSUME NEW p \in Thread, NEW s \in Seq(Tx),
             NEW hs \in [Tx -> Heights \cup {TX_UNCONFIRMED}], New(p, s, hs)
      PROVE  IInv' /\ Loaded'
  BY <1>1, <1>5, NewIInv, NewLoaded
<1>6. ASSUME NEW p \in Thread, NewTx(p) \/ NewAddrs(p)  PROVE IInv' /\ Loaded'
  <2>1. Next
    BY <1>6 DEF Next, Continue
  <2> QED
    BY <1>1, <1>2, <1>6, <2>1, NewTxLoaded, NewAddrsLoaded
<1>7. ASSUME NEW p \in Thread, UpdateStep(p)  PROVE IInv' /\ Loaded'
  <2>1. Next
    BY <1>7 DEF Next, Continue
  <2>2. IInv'
    BY <1>2, <2>1
  <2> QED
    BY <1>1, <1>7, <2>2, LoopLoaded, DoneLoaded DEF UpdateStep
<1>8. ASSUME NEW p \in Thread, NewVerify(p)  PROVE IInv' /\ Loaded'
  <2>1. Next
    BY <1>8 DEF Next, Continue
  <2>2. CASE phase' = "ready"
    BY <1>1, <1>2, <1>8, <2>1, <2>2, DoneLoaded
  <2>3. CASE phase' # "ready"
    <3>1. FreeWallet /\ pc[p] = "verify" /\ pc' = [pc EXCEPT ![p] = "idle"]
      BY <1>8, <2>3 DEF NewVerify, Return, Goto
    <3>2. \A q \in Thread \ {p} : pc[q] = "idle"
      BY <1>1, <3>1, OneLoads DEF Loaded, Locking
    <3>3. \A q \in Thread : pc'[q] = "idle"
      BY <1>1, <3>1, <3>2 DEF IInv, TypeOK, CallType
    <3> QED
      BY <1>2, <2>1, <3>1, <3>3, FreeEmpty
  <2> QED
    BY <2>2, <2>3
<1>9. ASSUME NEW p \in Thread, Quiet, Free(p)  PROVE IInv' /\ Loaded'
  <2>1. Next
    BY <1>9 DEF Next, Start
  <2>2. FreeWallet /\ \A q \in Thread : pc'[q] = "idle"
    BY <1>9 DEF Free, Quiet
  <2> QED
    BY <1>2, <2>1, <2>2, FreeEmpty
<1>10. IInv' /\ Loaded'
  BY <1>1, <1>3, <1>4, <1>5, <1>6, <1>7, <1>8, <1>9, WalletSteps
<1>11. ArrayType'
  BY <1>1, ArrayStep
<1> QED
  BY <1>10, <1>11 DEF JniInv, Loaded

(* The invariant of the wallet, with what loading from stored transactions *)
(* adds to it, outlives crashes and restarts of the process.               *)
THEOREM JniInvariance == JniSpec => []JniInv
<1>1. JniInit => JniInv
  <2> SUFFICES ASSUME JniInit  PROVE JniInv
    OBVIOUS
  <2>1. IInv
    BY InitIInv DEF JniInit
  <2>2. Loaded
    BY EmptyLoaded DEF JniInit, Init, Empty
  <2>3. ArrayType
    BY DEF JniInit, ArrayType
  <2> QED
    BY <2>1, <2>2, <2>3 DEF JniInv, Loaded
<1> QED
  BY <1>1, JniInvStep, PTL DEF JniSpec
-----------------------------------------------------------------------------
(* What the application is told.                                           *)

LEMMA ReadyState ==
  ASSUME JniInv, Unlocked
  PROVE  /\ ~Loading /\ ~InUpdate /\ Done = Len(transactions)
         /\ Accounted(Len(transactions), balance)
         /\ transactions \in Seq(Tx) /\ Len(transactions) \in Nat
         /\ DOMAIN transactions = 1..Len(transactions)
         /\ Listed = {transactions[i] : i \in 1..Len(transactions)}
         /\ Listed \in SUBSET Tx /\ allTx = Listed
         /\ \A t \in invalidTx \cup pendingTx : Unconfirmed(t)
<1>1. \A p \in Thread : pc[p] \notin Locking
  BY ThreadAssumption DEF JniInv, IInv, Unlocked, Control, ThreadControl
<1>2. ~Loading /\ ~InUpdate /\ Done = Len(transactions)
  BY <1>1 DEF Loading, InUpdate, Locking, Done
<1>3. transactions \in Seq(Tx)
  BY DEF JniInv, IInv, TypeOK, KeptType
<1>4. Accounted(Len(transactions), balance) /\ Listed = {transactions[i] : i \in 1..Len(transactions)}
  BY UnlockedAccount DEF JniInv
<1>5. allTx = Listed
  BY DEF JniInv, OnlyLoaded
<1>6. \A t \in invalidTx \cup pendingTx : Unconfirmed(t)
  BY <1>4, <1>5 DEF Accounted, Statuses
<1> QED
  BY <1>2, <1>3, <1>4, <1>5, <1>6

(* A transaction reported as verified is one whose amount is part of the   *)
(* balance, and so is, while it is unconfirmed, each transaction of the    *)
(* wallet it spends from.                                                  *)
THEOREM VerifiedAlwaysCounts == JniSpec => []VerifiedCounts
<1>1. ASSUME JniInv, Unlocked, NEW t \in Listed, TransactionIsVerified(t)
      PROVE  t \in Accepted
  <2>1. /\ t \in allTx /\ allTx \in SUBSET Tx /\ t \in Tx
        /\ \A s \in invalidTx \cup pendingTx : Unconfirmed(s)
        /\ \A s \in pendingTx : TransactionIsPending(s)
    BY <1>1, ReadyState DEF JniInv, PendingKnown
  <2>2. CASE ~Unconfirmed(t)
    BY <2>1, <2>2 DEF Accepted
  <2>3. CASE Unconfirmed(t)
    <3>1. TransactionIsValid(t, height[t]) /\ ~TransactionIsPending(t)
      BY <1>1, <2>1, <2>3, VerifiedDef
    <3>2. t \notin invalidTx
      BY <2>1, <2>3, <3>1 DEF TransactionIsValid, Unconfirmed
    <3> QED
      BY <2>1, <3>1, <3>2 DEF Accepted
  <2> QED
    BY <2>2, <2>3
<1>2. ASSUME JniInv, Unlocked, NEW t \in Listed, TransactionIsVerified(t), Unconfirmed(t),
             NEW u \in In[t], u.hash \in Listed
      PROVE  u.hash \in Accepted
  <2>1. allTx \in SUBSET Tx /\ t \in Tx /\ u.hash \in allTx
    BY <1>2, ReadyState
  <2>2. TransactionIsVerified(u.hash)
    BY <1>2, <2>1, VerifiedDef
  <2> QED
    BY <1>1, <1>2, <2>2
<1>3. JniInv => VerifiedCounts
  BY <1>1, <1>2 DEF VerifiedCounts, TransactionVerified
<1> QED
  BY <1>3, JniInvariance, PTL

(* Amounts of sets of outputs that have nothing in common add up.          *)
LEMMA TotalValue ==
  ASSUME NEW n \in Nat, NEW S \in [1..n -> SUBSET Outputs],
         \A i, j \in 1..n : i # j => S[i] \cap S[j] = {}
  PROVE  Total([i \in 1..n |-> Value[S[i]]]) = Value[UNION {S[i] : i \in 1..n}]
<1> DEFINE q == [i \in 1..n |-> Value[S[i]]]
           f == PartialSums(q)
           Upto(k) == UNION {S[i] : i \in 1..k}
           Bad == {k \in 0..n : f[k] # Value[Upto(k)]}
<1>1. q \in Seq(Int) /\ Len(q) = n
  <2>1. \A i \in 1..n : Value[S[i]] \in Int
    BY ValueAssumption
  <2> QED
    BY <2>1
<1>2. f[0] = 0 /\ \A k \in 1..n : f[k] = f[k - 1] + Value[S[k]]
  <2>1. \A k \in 1..n : q[k] = Value[S[k]]
    OBVIOUS
  <2> HIDE DEF q
  <2>2. f[0] = 0 /\ \A k \in 1..Len(q) : f[k] = f[k - 1] + q[k]
    BY <1>1, PartialSumsDef
  <2> QED
    BY <1>1, <2>1, <2>2
<1>3. Total(q) = f[n]
  BY <1>1 DEF Total
<1> HIDE DEF f, q
<1>4. Bad = {}
  <2> SUFFICES ASSUME Bad # {}  PROVE FALSE
    OBVIOUS
  <2>1. PICK k \in Bad : \A m \in Bad : k <= m
    <3>1. Bad \in SUBSET Nat
      OBVIOUS
    <3> HIDE DEF Bad
    <3> QED
      BY <3>1, Least
  <2>2. k \in 0..n /\ f[k] # Value[Upto(k)]
    OBVIOUS
  <2>3. Upto(0) = {}
    OBVIOUS
  <2>4. k \in 1..n
    BY <1>2, <2>2, <2>3, ValueAssumption
  <2>5. f[k - 1] = Value[Upto(k - 1)]
    <3>1. k - 1 \in 0..n /\ ~(k <= k - 1)
      BY <2>4
    <3> QED
      BY <2>1, <3>1
  <2>6. Upto(k) = Upto(k - 1) \cup S[k]
    BY <2>4
  <2>7. Upto(k - 1) \in SUBSET Outputs /\ S[k] \in SUBSET Outputs
    BY <2>4
  <2>8. Upto(k - 1) \cap S[k] = {}
    <3>1. \A i \in 1..(k - 1) : i \in 1..n /\ i # k
      BY <2>4
    <3> QED
      BY <2>4, <3>1
  <2> HIDE DEF Upto
  <2>9. Value[Upto(k)] = Value[Upto(k - 1)] + Value[S[k]]
    BY <2>6, <2>7, <2>8, ValueAssumption
  <2> QED
    BY <1>2, <2>2, <2>4, <2>5, <2>9
<1>5. n \in 0..n
  OBVIOUS
<1>6. f[n] = Value[Upto(n)]
  BY <1>4, <1>5
<1> QED
  BY <1>3, <1>6 DEF q
(* Every transaction has an item, the newest the first one.                *)
LEMMA ItemsDef ==
  ASSUME JniInv, Unlocked
  PROVE  /\ DOMAIN TxItems = 1..Len(transactions)
         /\ \A i \in 1..Len(transactions) :
              TxItems[i] = TxItem(transactions[Len(transactions) + 1 - i])
<1> DEFINE n == Len(transactions)
           all == Transactions(n)
<1>1. transactions \in Seq(Tx) /\ n \in Nat
  BY ReadyState
<1>2. all = SubSeq(transactions, 1, n)
  BY <1>1 DEF Transactions
<1>3. DOMAIN all = 1..n /\ \A i \in 1..n : all[i] = transactions[i]
  BY <1>1, <1>2
<1> HIDE DEF all
<1>4. TxItems = [i \in 1..n |-> TxItem(all[n + 1 - i])]
  BY <1>3 DEF TxItems, all
<1>5. ASSUME NEW i \in 1..n  PROVE TxItem(all[n + 1 - i]) = TxItem(transactions[n + 1 - i])
  <2>1. n + 1 - i \in 1..n
    BY <1>1
  <2> QED
    BY <1>3, <2>1
<1> HIDE DEF n
<1> QED
  BY <1>4, <1>5 DEF n

(* The history the application shows adds up to the balance it shows, when *)
(* every transaction counts and no output is spent twice.                  *)
THEOREM StatementAlwaysAddsUp == JniSpec => []StatementAddsUp
<1> DEFINE n == Len(transactions)
           at(i) == transactions[n + 1 - i]
           clean == /\ Unlocked /\ invalidTx = {} /\ pendingTx = {}
                    /\ \A s, t \in Listed : s # t => In[s] \cap In[t] = {}
<1>1. ASSUME JniInv, clean
      PROVE  Total([i \in DOMAIN TxItems |-> TxItems[i].received]) =
               Total([i \in DOMAIN TxItems |-> TxItems[i].sent]) + NativeBalance
  <2> DEFINE mine(t) == Own(t)
             spent(t) == {u \in In[t] : IsOwnInput(u)}
             S == [i \in 1..n |-> mine(at(i))]
             R == [i \in 1..n |-> spent(at(i))]
  <2>1. /\ n \in Nat /\ DOMAIN transactions = 1..n /\ allTx = Listed /\ Listed \subseteq Tx
        /\ Listed = {transactions[i] : i \in 1..n}
        /\ ~Loading /\ Done = n /\ Accounted(n, balance)
    BY <1>1, ReadyState
  <2>2. \A i \in 1..n : at(i) \in Listed
    <3>1. \A i \in 1..n : n + 1 - i \in 1..n
      BY <2>1
    <3> QED
      BY <2>1, <3>1
  <2>3. \A i, j \in 1..n : i # j => at(i) # at(j)
    <3>1. \A i, j \in 1..n : n + 1 - i \in 1..n /\ n + 1 - j \in 1..n
                             /\ (i # j => n + 1 - i # n + 1 - j)
      BY <2>1
    <3> QED
      BY <1>1, <3>1 DEF JniInv, IInv, ListedOnce
  <2>4. \A t \in Listed : \E i \in 1..n : t = at(i)
    <3>1. \A i \in 1..n : n + 1 - i \in 1..n /\ n + 1 - (n + 1 - i) = i
      BY <2>1
    <3> QED
      BY <2>1, <3>1
  <2>5. \A t : mine(t) \in SUBSET Outputs /\ \A u \in mine(t) : u.hash = t
    BY DEF Own
  <2>6. \A t : spent(t) \in SUBSET Outputs /\ spent(t) \subseteq In[t]
    BY DEF IsOwnInput
  <2>7. Total([i \in 1..n |-> Value[S[i]]]) = Value[UNION {S[i] : i \in 1..n}]
    <3>1. S \in [1..n -> SUBSET Outputs]
      <4> HIDE DEF mine
      <4> QED
        BY <2>5
    <3>2. \A i, j \in 1..n : i # j => S[i] \cap S[j] = {}
      <4> HIDE DEF mine, at
      <4> QED
        BY <2>3, <2>5
    <3> HIDE DEF S
    <3> QED
      BY <2>1, <3>1, <3>2, TotalValue
  <2>8. Total([i \in 1..n |-> Value[R[i]]]) = Value[UNION {R[i] : i \in 1..n}]
    <3>1. R \in [1..n -> SUBSET Outputs]
      <4> HIDE DEF spent
      <4> QED
        BY <2>6
    <3>2. \A i, j \in 1..n : i # j => R[i] \cap R[j] = {}
      <4> HIDE DEF spent, at
      <4>1. \A i, j \in 1..n : i # j => In[at(i)] \cap In[at(j)] = {}
        BY <1>1, <2>2, <2>3
      <4> QED
        BY <2>6, <4>1
    <3> HIDE DEF R
    <3> QED
      BY <2>1, <3>1, <3>2, TotalValue
  <2>9. /\ [i \in DOMAIN TxItems |-> TxItems[i].received] = [i \in 1..n |-> Value[S[i]]]
        /\ [i \in DOMAIN TxItems |-> TxItems[i].sent] = [i \in 1..n |-> Value[R[i]]]
    <3>1. DOMAIN TxItems = 1..n
      BY <1>1, ItemsDef
    <3>2. \A i \in 1..n : TxItems[i].received = Value[S[i]] /\ TxItems[i].sent = Value[R[i]]
      <4>1. ASSUME NEW t
            PROVE  TxItem(t).received = Value[mine(t)] /\ TxItem(t).sent = Value[spent(t)]
        BY DEF TxItem, AmountReceivedFromTx, AmountSentByTx
      <4>2. \A i \in 1..n : TxItems[i] = TxItem(at(i))
        BY <1>1, ItemsDef
      <4> HIDE DEF mine, spent, at
      <4> QED
        BY <4>1, <4>2
    <3> HIDE DEF S, R
    <3> QED
      BY <3>1, <3>2
  <2> DEFINE owned == UNION {mine(t) : t \in Listed}
             sent == UNION {spent(t) : t \in Listed}
  <2>10. UNION {S[i] : i \in 1..n} = owned /\ UNION {R[i] : i \in 1..n} = sent
    <3>1. \A i \in 1..n : S[i] = mine(at(i)) /\ R[i] = spent(at(i))
      OBVIOUS
    <3> HIDE DEF mine, spent, at, S, R
    <3> QED
      BY <2>2, <2>4, <3>1
  <2>11. utxos = owned \ UNION {In[t] : t \in Listed}
    <3>1. utxos = OwnUpTo(n) \ SpentUpTo(n)
      BY <1>1, <2>1, CleanCoins DEF JniInv
    <3>2. OwnUpTo(n) = owned /\ SpentUpTo(n) = UNION {In[t] : t \in Listed}
      <4>1. OwnUpTo(n) = UNION {mine(transactions[i]) : i \in 1..n}
        BY DEF OwnUpTo
      <4> HIDE DEF mine
      <4> QED
        BY <2>1, <4>1 DEF SpentUpTo
    <3> QED
      BY <3>1, <3>2
  <2>12. sent = owned \cap UNION {In[t] : t \in Listed}
    <3>1. \A t \in Listed : \A u \in spent(t) : u \in In[t] /\ u.hash \in Listed /\ u \in mine(u.hash)
      BY <2>1 DEF IsOwnInput, Own
    <3>2. \A t, s \in Listed : \A u \in mine(s) : u \in In[t] => u \in spent(t)
      BY <2>1 DEF IsOwnInput, Own
    <3> HIDE DEF mine, spent
    <3> QED
      BY <3>1, <3>2
  <2>13. utxos \cup sent = owned /\ utxos \cap sent = {}
         /\ utxos \in SUBSET Outputs /\ sent \in SUBSET Outputs
    <3>1. sent \in SUBSET Outputs /\ owned \in SUBSET Outputs
      <4> HIDE DEF mine, spent
      <4> QED
        BY <2>5, <2>6
    <3> HIDE DEF owned, sent
    <3> QED
      BY <2>11, <2>12, <3>1
  <2>14. Value[owned] = Value[utxos] + Value[sent] /\ Value[utxos] \in Nat /\ Value[sent] \in Nat
    <3> HIDE DEF owned, sent
    <3> QED
      BY <2>13, ValueAssumption
  <2>15. NativeBalance = balance /\ balance = Value[utxos]
    BY <1>1, <2>1 DEF NativeBalance, Created, Unlocked, Accounted, Amounts
  <2> DEFINE received == Total([i \in DOMAIN TxItems |-> TxItems[i].received])
             paid == Total([i \in DOMAIN TxItems |-> TxItems[i].sent])
  <2> HIDE DEF S, R, owned, sent
  <2>16. received = Value[owned]
    BY <2>7, <2>9, <2>10, Zenon
  <2>17. paid = Value[sent]
    BY <2>8, <2>9, <2>10, Zenon
  <2> HIDE DEF received, paid
  <2>18. received = paid + NativeBalance
    BY <2>14, <2>15, <2>16, <2>17
  <2> QED
    BY <2>18 DEF received, paid
<1>2. ASSUME JniInv, Unlocked, TxItems # <<>>
      PROVE  TxItems[1].balanceAfter = NativeBalance
  <2>1. /\ n \in Nat /\ DOMAIN transactions = 1..n /\ Accounted(n, balance)
        /\ Listed = {transactions[i] : i \in 1..n}
    BY <1>2, ReadyState
  <2>2. n # 0
    <3> SUFFICES ASSUME n = 0  PROVE FALSE
      OBVIOUS
    <3>1. DOMAIN TxItems = {}
      BY <1>2, ItemsDef
    <3>2. TxItems = [i \in {} |-> i]
      BY <3>1 DEF TxItems
    <3> QED
      BY <1>2, <3>2
  <2>3. n \in 1..n /\ n + 1 - 1 = n /\ 1 \in 1..n
    BY <2>1, <2>2
  <2>4. TxItems[1] = TxItem(transactions[n])
    BY <1>2, <2>3, ItemsDef
  <2>5. BalanceAfterTx(transactions[n]) = balanceHist[n]
    <3>1. transactions[n] \in Range(transactions)
      BY <2>1, <2>3 DEF Range
    <3>2. (CHOOSE i \in 1..n : transactions[i] = transactions[n]) = n
      BY <1>2, <2>3 DEF JniInv, IInv, ListedOnce
    <3> QED
      BY <3>1, <3>2 DEF BalanceAfterTx
  <2>6. balance = balanceHist[n] /\ NativeBalance = balance
    BY <1>2, <2>1, <2>2 DEF Accounted, Amounts, NativeBalance, Created, Unlocked
  <2>7. TxItems[1].balanceAfter = BalanceAfterTx(transactions[n])
    BY <2>4 DEF TxItem
  <2> QED
    BY <2>5, <2>6, <2>7
<1>3. JniInv => StatementAddsUp
  BY <1>1, <1>2 DEF StatementAddsUp
<1> QED
  BY <1>3, JniInvariance, PTL
-----------------------------------------------------------------------------
(* The wallet before the fork.                                             *)

(* The transactions not below block h are the newest ones; how many are    *)
(* left is found by looking for the last one below h.                      *)
LEMMA BeforeBlock ==
  ASSUME JniInv, Unlocked, NEW h \in Nat
  PROVE  \E k \in 0..Len(transactions) :
           /\ Len(transactions) - Len(TxUnconfirmedBefore(h)) = k
           /\ \A i \in 1..Len(transactions) : height[transactions[i]] < h <=> i <= k
<1> DEFINE n == Len(transactions)
           hgt(i) == height[transactions[i]]
           ends(m) == /\ \A t \in Range(Newest(m)) : height[t] >= h
                      /\ m < n => height[Head(Newest(m + 1))] < h
           tails == {k \in 0..n : \A i \in (k + 1)..n : hgt(i) >= h}
<1>1. transactions \in Seq(Tx) /\ n \in Nat
  BY ReadyState
<1>2. \A i \in 1..n : hgt(i) \in Nat
  <2>1. height \in [Tx -> Heights \cup {TX_UNCONFIRMED}]
    BY DEF JniInv, IInv, TypeOK, KeptType
  <2>2. height \in [Tx -> Nat]
    BY <2>1, HeightAssumption
  <2>3. \A i \in 1..n : transactions[i] \in Tx
    BY <1>1
  <2> QED
    BY <2>2, <2>3
<1>3. \A i, j \in 1..n : i < j => hgt(i) <= hgt(j)
  BY DEF JniInv, SortedByHeight
<1>4. ASSUME NEW m \in 0..n
      PROVE  ends(m) <=> /\ \A i \in (n - m + 1)..n : hgt(i) >= h
                         /\ m < n => hgt(n - m) < h
  <2> DEFINE r == Newest(m)
  <2>1. r = SubSeq(transactions, n - m + 1, n)
    BY DEF Newest
  <2>2. /\ Len(r) = m /\ DOMAIN r = 1..m
        /\ \A j \in 1..m : r[j] = transactions[n - m + j]
    BY <1>1, <2>1
  <2>3. Range(r) = {transactions[i] : i \in (n - m + 1)..n}
    <3>1. \A i \in (n - m + 1)..n : i - (n - m) \in 1..m /\ n - m + (i - (n - m)) = i
      BY <1>1
    <3>2. \A j \in 1..m : n - m + j \in (n - m + 1)..n
      BY <1>1
    <3> HIDE DEF r
    <3>3. Range(r) = {r[j] : j \in 1..m}
      BY <2>2 DEF Range
    <3>4. \A i \in (n - m + 1)..n : transactions[i] = r[i - (n - m)]
      BY <2>2, <3>1
    <3>5. \A j \in 1..m : r[j] \in {transactions[i] : i \in (n - m + 1)..n}
      BY <2>2, <3>2
    <3>6. \A i \in (n - m + 1)..n : transactions[i] \in Range(r)
      BY <3>1, <3>3, <3>4
    <3> QED
      BY <3>3, <3>5, <3>6
  <2>4. m < n => Head(Newest(m + 1)) = transactions[n - m]
    BY <1>1 DEF Newest
  <2> HIDE DEF r
  <2> QED
    BY <2>3, <2>4 DEF r
<1>5. \E m \in 0..n : ends(m)
  <2>1. PICK k \in tails : \A j \in tails : k <= j
    <3>1. n \in tails /\ tails \in SUBSET Nat
      BY <1>1
    <3> HIDE DEF tails
    <3> QED
      BY <3>1, Least
  <2>2. k \in 0..n /\ \A i \in (k + 1)..n : hgt(i) >= h
    OBVIOUS
  <2>3. k > 0 => hgt(k) < h
    <3> SUFFICES ASSUME k > 0, ~(hgt(k) < h)  PROVE FALSE
      OBVIOUS
    <3>1. hgt(k) >= h
      BY <1>2, <2>2
    <3>2. k - 1 \in tails
      <4>1. \A i \in (k - 1 + 1)..n : i = k \/ i \in (k + 1)..n
        BY <2>2
      <4> HIDE DEF hgt
      <4> QED
        BY <2>2, <3>1, <4>1
    <3> HIDE DEF tails
    <3> QED
      BY <2>1, <2>2, <3>2
  <2>4. n - k \in 0..n /\ n - (n - k) = k /\ (n - k < n <=> k > 0)
    BY <1>1, <2>2
  <2> HIDE DEF ends, hgt
  <2> QED
    BY <1>4, <2>2, <2>3, <2>4
<1> DEFINE m == CHOOSE m \in 0..n : ends(m)
<1>6. TxUnconfirmedBefore(h) = Newest(m)
  BY DEF TxUnconfirmedBefore
<1> HIDE DEF ends
<1>7. m \in 0..n /\ ends(m)
  BY <1>5
<1> HIDE DEF m
<1>8. Len(TxUnconfirmedBefore(h)) = m
  BY <1>1, <1>6, <1>7 DEF Newest
<1> DEFINE k == n - m
<1>9. k \in 0..n /\ n - m = k /\ (m < n <=> k > 0)
  BY <1>1, <1>7
<1>10. (\A i \in (k + 1)..n : hgt(i) >= h) /\ (k > 0 => hgt(k) < h)
  BY <1>4, <1>7, <1>9
<1> HIDE DEF k, hgt
<1>11. ASSUME NEW i \in 1..n  PROVE hgt(i) < h <=> i <= k
  <2>1. CASE i <= k
    <3>1. k \in 1..n /\ hgt(k) < h /\ hgt(k) \in Nat /\ hgt(i) \in Nat
      BY <1>2, <1>9, <1>10, <2>1
    <3>2. i = k \/ hgt(i) <= hgt(k)
      BY <1>3, <2>1, <3>1
    <3> QED
      BY <2>1, <3>1, <3>2
  <2>2. CASE ~(i <= k)
    <3>1. i \in (k + 1)..n
      BY <1>1, <1>9, <2>2
    <3> QED
      BY <1>2, <1>10, <2>2, <3>1
  <2> QED
    BY <2>1, <2>2
<1> QED
  BY <1>8, <1>9, <1>11 DEF hgt

(* The bitcoin cash of the wallet is the balance after its last            *)
(* transaction from before the fork.                                       *)
THEOREM ForkBalanceStaysHistory == JniSpec => []ForkBalanceIsHistory
<1> DEFINE before == {t \in Listed : height[t] < BCASH_FORKHEIGHT}
           n == Len(transactions)
<1>1. ASSUME JniInv, Unlocked, ForkAddrs = AllAddrs
      PROVE  ForkBalance = IF before = {} THEN 0 ELSE balanceHist[Cardinality(before)]
  <2>1. /\ transactions \in Seq(Tx) /\ n \in Nat /\ DOMAIN transactions = 1..n
        /\ Listed = {transactions[i] : i \in 1..n} /\ ~Loading /\ Done = n
    BY <1>1, ReadyState
  <2>2. BCASH_FORKHEIGHT \in Nat /\ BCASH_FORKHEIGHT < TX_UNCONFIRMED /\ TX_UNCONFIRMED \in Nat
    BY JniAssumption, HeightAssumption
  <2>3. PICK k \in 0..n :
          /\ n - Len(TxUnconfirmedBefore(BCASH_FORKHEIGHT)) = k
          /\ \A i \in 1..n : height[transactions[i]] < BCASH_FORKHEIGHT <=> i <= k
    BY <1>1, <2>2, BeforeBlock
  <2>4. before = {transactions[i] : i \in 1..k}
    BY <2>1, <2>3
  <2>5. ForkTransactions = SubSeq(transactions, 1, k)
    <3>1. ForkTransactions = Transactions(k)
      BY <2>3 DEF ForkTransactions
    <3>2. (IF k < n THEN k ELSE n) = k
      <4>1. n \in Nat /\ k \in 0..n
        BY <2>1
      <4> HIDE DEF n
      <4> QED
        BY <4>1
    <3> QED
      BY <3>1, <3>2 DEF Transactions
  <2>6. Range(ForkTransactions) = {transactions[i] : i \in 1..k}
    <3>1. /\ DOMAIN SubSeq(transactions, 1, k) = 1..k
          /\ \A i \in 1..k : SubSeq(transactions, 1, k)[i] = transactions[i]
      BY <2>1
    <3> QED
      BY <2>5, <3>1 DEF Range
  <2>7. ForkBalance = Value[OwnUpTo(k) \ SpentUpTo(k)]
    <3> DEFINE own == {u \in Outputs : /\ u.hash \in Range(ForkTransactions)
                                       /\ Out[u.hash][u.n] \in ForkAddrs}
               mine(t) == Own(t)
               list == {transactions[i] : i \in 1..k}
    <3>1. own = UNION {mine(t) : t \in list}
      BY <1>1, <2>6 DEF Own
    <3>2. OwnUpTo(k) = UNION {mine(t) : t \in list}
      BY DEF OwnUpTo
    <3>3. SpentUpTo(k) = UNION {In[t] : t \in Range(ForkTransactions)}
      BY <2>6 DEF SpentUpTo
    <3> QED
      BY <3>1, <3>2, <3>3 DEF ForkBalance
  <2>8. CASE k = 0
    <3>1. before = {} /\ OwnUpTo(k) = {}
      BY <2>4, <2>8 DEF OwnUpTo
    <3> QED
      BY <2>7, <3>1, ValueAssumption
  <2>9. CASE k # 0
    <3>1. k \in 1..n /\ before # {}
      BY <2>3, <2>4, <2>9
    <3>2. Settled(k)
      <4>1. \A i \in 1..k : height[transactions[i]] < BCASH_FORKHEIGHT
        BY <2>3, <3>1
      <4> QED
        BY <2>2, <4>1 DEF Settled, Unconfirmed
    <3>3. balanceHist[k] = Value[OwnUpTo(k) \ SpentUpTo(k)]
      BY <1>1, <2>1, <3>1, <3>2 DEF JniInv, PastStays
    <3>4. Cardinality(before) = k
      <4> DEFINE f == [i \in 1..k |-> transactions[i]]
      <4>1. f \in [1..k -> before] /\ \A t \in before : \E i \in 1..k : f[i] = t
        BY <2>4
      <4>2. \A i, j \in 1..k : f[i] = f[j] => i = j
        <5>1. \A i \in 1..k : i \in 1..n
          BY <2>1, <3>1
        <5> QED
          BY <1>1, <5>1 DEF JniInv, IInv, ListedOnce
      <4> HIDE DEF f, before
      <4>3. f \in Bijection(1..k, before)
        BY <4>1, <4>2 DEF Bijection, Injection, Surjection, IsInjective
      <4>4. ExistsBijection(1..k, before) /\ k \in Nat
        BY <3>1, <4>3 DEF ExistsBijection
      <4> QED
        BY <4>4, FS_CountingElements
    <3> QED
      BY <2>7, <3>1, <3>3, <3>4
  <2> QED
    BY <2>8, <2>9
<1>2. JniInv => ForkBalanceIsHistory
  BY <1>1 DEF ForkBalanceIsHistory
<1> QED
  BY <1>2, JniInvariance, PTL
-----------------------------------------------------------------------------
(* The sweep of a private key.                                             *)

LEMMA ModSum ==
  ASSUME NEW n \in Nat, n > 0, NEW a \in Nat, NEW b \in Nat
  PROVE  ((a % n) + b) % n = (a + b) % n
<1> DEFINE q == a \div n
           r == a % n
           x == (r + b) \div n
           y == (r + b) % n
           z == (a + b) \div n
           w == (a + b) % n
<1>1. q \in Nat /\ r \in 0..(n - 1) /\ a = n * q + r
  BY ModFacts
<1>2. x \in Nat /\ y \in 0..(n - 1) /\ r + b = n * x + y
  <2>1. r + b \in Nat
    BY <1>1
  <2> HIDE DEF r
  <2> QED
    BY <2>1, ModFacts
<1>3. z \in Nat /\ w \in 0..(n - 1) /\ a + b = n * z + w
  <2>1. a + b \in Nat
    OBVIOUS
  <2> QED
    BY <2>1, ModFacts
<1> HIDE DEF q, r, x, y, z, w
<1>4. n * (q + x) = n * q + n * x
  BY <1>1, <1>2
<1>5. n * (q + x) + y = n * z + w /\ q + x \in Int /\ z \in Int
  BY <1>1, <1>2, <1>3, <1>4
<1>6. y = w
  <2> DEFINE p == q + x
  <2>1. n * p + y = n * z + w /\ p \in Int
    BY <1>5
  <2> HIDE DEF p
  <2>2. p \in Int /\ y \in 0..(n - 1)
    BY <1>2, <2>1
  <2>3. \A k \in Int, l \in 0..(n - 1) : n * p + y = n * k + l => p = k /\ y = l
    BY <2>2, DivUnique
  <2>4. z \in Int /\ w \in 0..(n - 1)
    BY <1>3
  <2> QED
    BY <2>1, <2>3, <2>4
<1> QED
  BY <1>6 DEF y, w, r

LEMMA TotalFirst ==
  ASSUME NEW s \in Seq(Nat), s # <<>>, \A i \in 2..Len(s) : s[i] = 0
  PROVE  Total(s) = s[1]
<1> DEFINE f == PartialSums(s)
           n == Len(s)
           Bad == {k \in 1..n : f[k] # s[1]}
<1>1. s \in Seq(Int) /\ n \in Nat /\ n > 0
  OBVIOUS
<1>2. f[0] = 0 /\ \A k \in 1..n : f[k] = f[k - 1] + s[k]
  BY <1>1, PartialSumsDef
<1>3. Total(s) = f[n]
  BY DEF Total
<1>4. s[1] \in Nat
  BY <1>1
<1>5. \A i \in 2..n : s[i] = 0
  OBVIOUS
<1> HIDE DEF f, n
<1>6. Bad = {}
  <2> SUFFICES ASSUME Bad # {}  PROVE FALSE
    OBVIOUS
  <2>1. PICK k \in Bad : \A m \in Bad : k <= m
    <3>1. Bad \in SUBSET Nat
      OBVIOUS
    <3> HIDE DEF Bad
    <3> QED
      BY <3>1, Least
  <2>2. k \in 1..n /\ f[k] # s[1]
    OBVIOUS
  <2>3. CASE k = 1
    BY <1>2, <1>4, <2>2, <2>3
  <2>4. CASE k # 1
    <3>1. k - 1 \in 1..n /\ ~(k <= k - 1) /\ k \in 2..n
      BY <1>1, <2>2, <2>4
    <3>2. f[k - 1] = s[1]
      BY <2>1, <3>1
    <3> QED
      BY <1>2, <1>4, <1>5, <2>2, <3>1, <3>2
  <2> QED
    BY <2>3, <2>4
<1> QED
  BY <1>1, <1>3, <1>6

LEMMA AppendFirst ==
  ASSUME NEW s \in Seq(Nat), NEW a \in Nat, \A i \in 2..Len(s) : s[i] = 0
  PROVE  /\ [Append(s, 0) EXCEPT ![1] = a] \in Seq(Nat)
         /\ Len([Append(s, 0) EXCEPT ![1] = a]) = Len(s) + 1
         /\ [Append(s, 0) EXCEPT ![1] = a][1] = a
         /\ \A i \in 2..(Len(s) + 1) : [Append(s, 0) EXCEPT ![1] = a][i] = 0
<1> DEFINE q == Append(s, 0)
           n == Len(s) + 1
           r == [q EXCEPT ![1] = a]
<1>1. n \in Nat /\ 1 \in 1..n /\ q \in [1..n -> Nat] /\ \A i \in 2..n : q[i] = 0
  <2>1. q \in Seq(Nat) /\ Len(q) = n /\ Len(s) \in Nat /\ q[n] = 0
        /\ \A i \in 1..Len(s) : q[i] = s[i]
    OBVIOUS
  <2>2. \A i \in 2..n : i = n \/ i \in 2..Len(s)
    BY <2>1
  <2>3. \A i \in 2..n : q[i] = 0
    BY <2>1, <2>2
  <2> HIDE DEF q
  <2>4. q \in [1..n -> Nat]
    BY <2>1
  <2> QED
    BY <2>1, <2>3, <2>4
<1> HIDE DEF q, n
<1>2. r \in [1..n -> Nat] /\ r[1] = a /\ \A i \in 2..n : r[i] = q[i]
  BY <1>1
<1> HIDE DEF r
<1>3. r \in Seq(Nat) /\ Len(r) = n
  BY <1>1, <1>2
<1> QED
  BY <1>1, <1>2, <1>3 DEF r, q, n

(* The amounts of a sweep's inputs.                                        *)
InputAmounts(ins) == [i \in DOMAIN ins |-> ins[i].amount]

LEMMA SweepAmounts ==
  ASSUME NEW ins \in Seq(SweepInputs)
  PROVE  /\ InputAmounts(ins) \in Seq(Nat)
         /\ InputAmounts(ins) \in Seq(Int)
         /\ Total(InputAmounts(ins)) \in Nat
         /\ \A input \in SweepInputs :
              Total(InputAmounts(Append(ins, input))) = Total(InputAmounts(ins)) + input.amount
<1>1. \A i \in 1..Len(ins) : ins[i] \in SweepInputs /\ ins[i].amount \in Nat
  BY JniAssumption
<1>2. DOMAIN ins = 1..Len(ins) /\ Len(ins) \in Nat
  OBVIOUS
<1>3. InputAmounts(ins) \in Seq(Nat) /\ InputAmounts(ins) \in Seq(Int)
  BY <1>1, <1>2 DEF InputAmounts
<1>4. Total(InputAmounts(ins)) \in Nat
  BY <1>3, TotalType
<1>5. ASSUME NEW input \in SweepInputs
      PROVE  Total(InputAmounts(Append(ins, input))) = Total(InputAmounts(ins)) + input.amount
  <2>1. InputAmounts(Append(ins, input)) = Append(InputAmounts(ins), input.amount)
    <3> DEFINE r == Append(ins, input)
               q == InputAmounts(ins)
    <3>1. DOMAIN r = 1..(Len(ins) + 1) /\ r[Len(ins) + 1] = input
          /\ \A i \in 1..Len(ins) : r[i] = ins[i]
      BY <1>2
    <3>2. Len(q) = Len(ins) /\ \A i \in 1..Len(ins) : q[i] = ins[i].amount
      BY <1>1, <1>2 DEF InputAmounts
    <3>3. Append(q, input.amount) = [i \in 1..(Len(ins) + 1) |->
                                       IF i = Len(ins) + 1 THEN input.amount ELSE q[i]]
      BY <1>2, <1>3, <3>2
    <3>4. \A i \in 1..(Len(ins) + 1) :
            r[i].amount = IF i = Len(ins) + 1 THEN input.amount ELSE q[i]
      BY <1>2, <3>1, <3>2
    <3>5. InputAmounts(r) = [i \in 1..(Len(ins) + 1) |-> r[i].amount]
      BY <3>1 DEF InputAmounts
    <3> HIDE DEF r, q
    <3>6. InputAmounts(r) = Append(q, input.amount)
      BY <3>3, <3>4, <3>5
    <3> QED
      BY <3>6 DEF r, q
  <2>2. input.amount \in Int
    BY JniAssumption
  <2> QED
    BY <1>3, <2>1, <2>2, TotalAppend
<1> QED
  BY <1>3, <1>4, <1>5
(* The steps that have to do with the sweep.                               *)
LEMMA SweepSteps ==
  ASSUME [JniNext]_jniVars
  PROVE  \/ /\ UNCHANGED <<sweepTx, sweepBalance>>
            /\ given' \in {given, Nothing}
         \/ Restart
         \/ CreateInputArray
         \/ \E input \in SweepInputs : AddInputToPrivKeyTx(input)
         \/ \E p \in Thread : GetPrivKeyObject(p) /\ Created
<1> DEFINE same == UNCHANGED <<sweepTx, sweepBalance>> /\ given' \in {given, Nothing}
<1>1. CASE \/ \E n \in 0..MaxCount : CreateTxArrayWithCount(n)
           \/ \E t \in Tx, h \in Heights \cup {TX_UNCONFIRMED} : PutTransaction(t, h)
  BY <1>1 DEF CreateTxArrayWithCount, PutTransaction, Crash, globals, Returned
<1>2. ASSUME NEW p \in Thread, NEW n \in 0..MaxCount, CreateWallet(p, n)
      PROVE  same
  BY <1>2 DEF CreateWallet, Crash, globals, Returned
<1>3. ASSUME NEW p \in Thread,
             \/ Construct(p) \/ WalletCreated(p) \/ WalletFreeEverything(p)
             \/ \E r \in Requests : ParsePaymentRequest(p, r)
      PROVE  same
  BY <1>3 DEF Construct, WalletCreated, WalletFreeEverything, ParsePaymentRequest, Crash,
              globals, Returned
<1>4. ASSUME NEW p \in Thread, GetPrivKeyObject(p), ~Created  PROVE same
  BY <1>4 DEF GetPrivKeyObject, Crash, globals
<1>5. CASE \/ GetBCashBalance \/ SweepBCash \/ PublishSerializedTransaction
           \/ \E t \in Tx, addr \in Range(Derived["internal"]), to \in Range(Derived["external"]) :
                SignTransaction(<<addr>>, Out[t], to)
  BY <1>5 DEF GetBCashBalance, SweepBCash, PublishSerializedTransaction, SignTransaction, Crash,
              globals, Returned
<1>6. CASE UNCHANGED jniVars
  BY <1>6 DEF jniVars, globals
<1> QED
  BY <1>1, <1>2, <1>3, <1>4, <1>5, <1>6 DEF JniNext

(* The sweep that is given pays all of its inputs, as long as they fit a   *)
(* word.                                                                   *)
LEMMA SweepInvStep == SweepsFit /\ SweepInv /\ [JniNext]_jniVars => SweepInv'
<1> SUFFICES ASSUME SweepsFit, SweepInv, [JniNext]_jniVars  PROVE SweepInv'
  OBVIOUS
<1>1. WORD \in Nat \ {0} /\ MaxSweep \in Nat \ {0}
  BY JniAssumption
<1>2. CASE UNCHANGED <<sweepTx, sweepBalance>> /\ given' \in {given, Nothing}
  BY <1>2 DEF SweepInv, SweepSum
<1>3. CASE Restart
  BY <1>3 DEF Restart, SweepInv
<1>4. CASE CreateInputArray
  <2>1. /\ sweepTx' = [ins |-> <<>>, outs |-> <<>>] /\ sweepBalance' = 0 /\ given' = Nothing
    BY <1>4 DEF CreateInputArray, Returned
  <2>2. SweepSum' = 0
    <3>1. sweepTx'.ins = <<>>
      BY <2>1
    <3>2. [i \in DOMAIN <<>> |-> <<>>[i].amount] = <<>>
      OBVIOUS
    <3>3. <<>> \in Seq(Int)
      OBVIOUS
    <3>4. Total(<<>>) = 0
      BY <3>3, TotalType
    <3> QED
      BY <3>1, <3>2, <3>4 DEF SweepSum
  <2>3. 0 = 0 % WORD
    BY <1>1
  <2> QED
    BY <1>1, <2>1, <2>2, <2>3 DEF SweepInv
<1>5. ASSUME NEW input \in SweepInputs, AddInputToPrivKeyTx(input)  PROVE SweepInv'
  <2>1. /\ given' = Nothing /\ sweepBalance' = (sweepBalance + input.amount) % WORD
        /\ input.amount \in Nat /\ sweepBalance \in Nat
    BY <1>5, JniAssumption DEF AddInputToPrivKeyTx, Returned, SweepInv
  <2>2. sweepBalance' \in Nat
    BY <1>1, <2>1
  <2>3. CASE sweepTx = NoSweep
    BY <1>5, <2>2, <2>3 DEF AddInputToPrivKeyTx, SweepInv
  <2>4. CASE sweepTx # NoSweep
    <3> DEFINE ins == sweepTx.ins
               outs == sweepTx.outs
               sum == Total(InputAmounts(ins))
               more == Append(ins, input)
    <3>1. /\ ins \in Seq(SweepInputs) /\ outs \in Seq(Nat) /\ Len(ins) < MaxSweep
          /\ sweepTx \in [ins : Seq(SweepInputs), outs : Seq(Nat)]
          /\ sweepTx' = [sweepTx EXCEPT !.ins = Append(@, input)]
      BY <1>5, <2>4 DEF AddInputToPrivKeyTx, SweepInv
    <3>2. sweepTx' = [ins |-> more, outs |-> outs]
      BY <3>1
    <3>3. sum \in Nat /\ Total(InputAmounts(more)) = sum + input.amount
      BY <3>1, SweepAmounts
    <3>4. sweepBalance = sum % WORD
      BY <2>4 DEF SweepInv, SweepSum, InputAmounts
    <3>5. SweepSum' = sum + input.amount
      <4>1. sweepTx'.ins = more
        BY <3>2
      <4>2. SweepSum' = Total(InputAmounts(sweepTx'.ins))
        BY DEF SweepSum, InputAmounts
      <4> QED
        BY <3>3, <4>1, <4>2
    <3>6. sweepBalance' = SweepSum' % WORD
      <4> DEFINE a == input.amount
      <4>1. a \in Nat /\ sum \in Nat /\ WORD \in Nat /\ WORD > 0
        BY <1>1, <2>1, <3>3
      <4>2. sweepBalance' = ((sum % WORD) + a) % WORD /\ SweepSum' = sum + a
        BY <2>1, <3>4, <3>5
      <4> HIDE DEF sum, a
      <4>3. ((sum % WORD) + a) % WORD = (sum + a) % WORD
        BY <4>1, ModSum
      <4> QED
        BY <4>2, <4>3
    <3>7. more \in Seq(SweepInputs) /\ Len(more) <= MaxSweep
      <4>1. Len(more) = Len(ins) + 1 /\ Len(ins) \in Nat /\ more \in Seq(SweepInputs)
        BY <3>1
      <4> QED
        BY <1>1, <3>1, <4>1
    <3>8. \A i \in 2..Len(outs) : outs[i] = 0
      BY <2>4 DEF SweepInv
    <3> HIDE DEF more, outs
    <3>9. /\ sweepTx' \in [ins : Seq(SweepInputs), outs : Seq(Nat)]
          /\ sweepTx'.ins = more /\ sweepTx'.outs = outs
      <4>1. more \in Seq(SweepInputs) /\ outs \in Seq(Nat)
        BY <3>1, <3>7
      <4> QED
        BY <3>2, <4>1
    <3>10. /\ Len(sweepTx'.ins) <= MaxSweep
           /\ \A i \in 2..Len(sweepTx'.outs) : sweepTx'.outs[i] = 0
      BY <3>7, <3>8, <3>9
    <3> QED
      BY <2>1, <2>2, <3>6, <3>9, <3>10 DEF SweepInv
  <2> QED
    BY <2>3, <2>4
<1>6. ASSUME NEW p \in Thread, GetPrivKeyObject(p), Created  PROVE SweepInv'
  <2> DEFINE ins == sweepTx.ins
             outs == sweepTx.outs
             fee == TxFee(Len(ins), Len(outs) + 1)
             amount == (sweepBalance - fee) % WORD
             more == [Append(outs, 0) EXCEPT ![1] = amount]
             sum == Total(InputAmounts(ins))
  <2>1. /\ sweepTx # NoSweep /\ sweepTx \in [ins : Seq(SweepInputs), outs : Seq(Nat)]
        /\ Len(ins) <= MaxSweep /\ Len(outs) < MaxSweep /\ UNCHANGED sweepBalance
        /\ sweepTx' = [sweepTx EXCEPT !.outs = more]
        /\ given' = [amount |-> amount, fee |-> fee]
        /\ \A i \in 2..Len(outs) : outs[i] = 0
    BY <1>6 DEF GetPrivKeyObject, SweepInv
  <2>2. /\ ins \in Seq(SweepInputs) /\ outs \in Seq(Nat)
        /\ Len(ins) \in 0..MaxSweep /\ Len(outs) + 1 \in 1..MaxSweep /\ Len(outs) \in Nat
    BY <1>1, <2>1
  <2>3. fee \in Nat /\ sweepBalance \in Nat
    BY <2>2, JniAssumption DEF SweepInv
  <2>4. amount \in Nat
    <3> HIDE DEF fee
    <3> QED
      BY <1>1, <2>3
  <2>5. sweepTx' = [ins |-> ins, outs |-> more]
    BY <2>1
  <2>6. /\ more \in Seq(Nat) /\ more # <<>> /\ more[1] = amount
        /\ Len(more) = Len(outs) + 1
        /\ \A i \in 2..Len(more) : more[i] = 0
    <3> HIDE DEF amount, ins, outs, fee
    <3>1. /\ more \in Seq(Nat) /\ Len(more) = Len(outs) + 1
          /\ more[1] = amount /\ \A i \in 2..(Len(outs) + 1) : more[i] = 0
      BY <2>1, <2>2, <2>4, AppendFirst DEF outs
    <3> HIDE DEF more
    <3>2. more # <<>>
      BY <2>2, <3>1
    <3> QED
      BY <3>1, <3>2
  <2>7. Total(more) = amount
    <3> HIDE DEF more
    <3> QED
      BY <2>6, TotalFirst
  <2>8. sum \in Nat /\ sum < WORD /\ sweepBalance = sum % WORD /\ SweepSum = sum
    <3>1. Len(ins) \in 0..MaxSweep /\ ins \in [1..Len(ins) -> SweepInputs]
      <4> HIDE DEF ins
      <4> QED
        BY <2>1, <2>2, JniAssumption
    <3>2. sum < WORD
      <4> HIDE DEF ins
      <4> QED
        BY <3>1 DEF SweepsFit, InputAmounts
    <3> QED
      BY <2>1, <2>2, <3>2, SweepAmounts DEF SweepInv, SweepSum, InputAmounts
  <2>9. SweepSum' = sum
    <3>1. sweepTx'.ins = ins
      BY <2>5
    <3>2. SweepSum' = Total(InputAmounts(sweepTx'.ins))
      BY DEF SweepSum, InputAmounts
    <3> QED
      BY <3>1, <3>2
  <2>10. fee <= sum => amount + fee = sum
    <3> HIDE DEF sum, fee
    <3> QED
      BY <1>1, <2>3, <2>8
  <2> HIDE DEF amount, fee, more, sum, ins
  <2> QED
    BY <2>1, <2>2, <2>3, <2>5, <2>6, <2>7, <2>8, <2>9, <2>10 DEF SweepInv
<1> QED
  BY <1>2, <1>3, <1>4, <1>5, <1>6, SweepSteps

(* The transaction given for a sweep pays out all that was collected but   *)
(* the fee, whatever was collected or asked for before.                    *)
THEOREM SweepAlwaysPaysInputs ==
  ASSUME SweepsFit
  PROVE  JniSpec => []SweepPaysInputs
<1>1. JniInit => SweepInv
  BY DEF JniInit, SweepInv
<1>2. SweepInv /\ [JniNext]_jniVars => SweepInv'
  BY SweepInvStep
<1>3. SweepInv => SweepPaysInputs
  BY DEF SweepInv, SweepPaysInputs
<1> QED
  BY <1>1, <1>2, <1>3, PTL DEF JniSpec
=============================================================================
