--------------------------- MODULE WalletQueries ---------------------------
(***************************************************************************)
(* What BitWallet.c answers about the wallet's transactions, in the state  *)
(* of Wallet: each function takes the lock, so that it sees one state of   *)
(* the unlocked wallet.  The functions that visit ancestors take it once   *)
(* for each; here they too see one state.                                  *)
(***************************************************************************)
EXTENDS Wallet

CONSTANT Undated   \* transactions without a time stamp

ASSUME UndatedAssumption == Undated \subseteq Tx

UINT64_MAX == -1   \* stands for "unknown" in FeeForTx

(* The n oldest transactions; all of them if there are not as many.        *)
Transactions(n) == SubSeq(transactions, 1, IF n < Len(transactions) THEN n
                                           ELSE Len(transactions))

(* The n newest transactions.                                              *)
Newest(n) == SubSeq(transactions, Len(transactions) - n + 1, Len(transactions))

(* Mutated form: the block itself does not count.                          *)
TxUnconfirmedSince(h) ==
  Newest(CHOOSE n \in 0..Len(transactions) :
           /\ \A t \in Range(Newest(n)) : height[t] > h
           /\ n < Len(transactions) => height[Head(Newest(n + 1))] <= h)

(* The newest transactions, down to the first that was in a block below h. *)
TxUnconfirmedBefore(h) ==
  Newest(CHOOSE n \in 0..Len(transactions) :
           /\ \A t \in Range(Newest(n)) : height[t] >= h
           /\ n < Len(transactions) => height[Head(Newest(n + 1))] < h)

(* The inputs with these addresses can be signed with the keys of a wallet *)
(* that has generated the addresses in known.                              *)
SignsInputs(addrs, known) == {n \in DOMAIN addrs : addrs[n] \in known}

TransactionForHash(h) == IF h \in allTx THEN h ELSE NoTx

(* t, or a transaction it spends from, can be replaced or is locked.       *)
TransactionIsPending(t) ==
  LET pending[x \in Tx] ==
        /\ Unconfirmed(x)
        /\ \/ x \in Postdated
           \/ LockHeight[x] > blockHeight + 1
           \/ \E u \in In[x] : u.hash \in allTx /\ pending[u.hash]
  IN pending[t]

(* Mutated form: only the transaction itself is asked about.               *)
VerifiedItself(t) ==
  Unconfirmed(t) => t \notin Undated /\ TransactionIsValid(t, height[t])

(* t can be relied on without a confirmation, and so can its ancestors.    *)
TransactionIsVerified(t) ==
  LET verified[x \in Tx] ==
        Unconfirmed(x) =>
          /\ x \notin Undated
          /\ TransactionIsValid(x, height[x])
          /\ ~TransactionIsPending(x)
          /\ \A u \in In[x] : u.hash \in allTx => verified[u.hash]
  IN verified[t]

AmountReceivedFromTx(t) == Value[Own(t)]

(* Mutated form: whose output the input spends is not asked.               *)
AmountOfKnownInputs(t) == Value[{u \in In[t] \cap Outputs : u.hash \in allTx}]

AmountSentByTx(t) == Value[{u \in In[t] : IsOwnInput(u)}]

(* The fee, if the wallet knows every transaction t spends from.           *)
FeeForTx(t) ==
  IF \A u \in In[t] : u.hash \in allTx /\ u \in Outputs
  THEN Value[In[t]] - Value[{u \in Outputs : u.hash = t}]
  ELSE UINT64_MAX

(* The balance after t, or the current one if t is not in the wallet.      *)
BalanceAfterTx(t) ==
  IF t \in Range(transactions)
  THEN balanceHist[CHOOSE i \in 1..Len(transactions) : transactions[i] = t]
  ELSE balance

=============================================================================
