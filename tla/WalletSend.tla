----------------------------- MODULE WalletSend -----------------------------
(***************************************************************************)
(* Building a transaction: BitWalletCreateTxForOutputs of BitWallet.c, the *)
(* fees and limits it goes by, and its recursion when the coins it has     *)
(* picked make the transaction too large.                                  *)
(*                                                                         *)
(* One thread builds a transaction.  While it holds wallet->lock nothing   *)
(* else happens; before and after, other threads change the unspent        *)
(* outputs and the fee.  Amounts and sizes are numbers, their units        *)
(* constants, so that an instance can scale both down.                     *)
(***************************************************************************)
EXTENDS Sums, SequencesExt

CONSTANTS
  UtxoLists,             \* the lists of unspent amounts the wallet may have
  FeeRates,              \* values of feePerKb
  Requests,              \* the lists of output amounts asked for
  TX_FEE_PER_KB, MIN_FEE_PER_KB, TX_MIN_OUTPUT_AMOUNT,
  TX_OUTPUT_SIZE, TX_INPUT_SIZE, TX_MAX_SIZE,
  KB,                    \* bytes in a kb
  ROUND,                 \* fees are rounded to this many satoshis
  HEADER                 \* bytes of a transaction without inputs and outputs

ASSUME UnitAssumption ==
  /\ FeeRates \subseteq Nat
  /\ {KB, ROUND, MIN_FEE_PER_KB, TX_FEE_PER_KB} \subseteq Nat \ {0}
  /\ {TX_MIN_OUTPUT_AMOUNT, TX_OUTPUT_SIZE, TX_INPUT_SIZE} \subseteq Nat \ {0}
  /\ {TX_MAX_SIZE, HEADER} \subseteq Nat
ASSUME ListAssumption ==
  /\ UtxoLists \subseteq Seq(Nat \ {0})
  /\ Requests \subseteq Seq(Nat \ {0})
  /\ <<>> \notin Requests

NoTx == [inputs |-> 0, funds |-> 0, outputs |-> <<>>, change |-> 0]

VARIABLES
  utxos,      \* wallet->utxos: the amount of each, oldest first
  feePerKb,
  pc,         \* "idle", "begin", "select", "finish", "change" or "aborted"
  asked,      \* the outputs the application asked for
  outputs,    \* those of the call now running
  minAmount, feeAmount,
  inputs,     \* how many unspent outputs have become inputs
  balance,    \* their sum
  tx          \* the transaction returned last

(* The locals of a call. *)
locals == <<outputs, minAmount, feeAmount, inputs, balance>>
wallet == <<utxos, feePerKb>>
vars == <<wallet, pc, asked, locals, tx>>

-----------------------------------------------------------------------------
Larger(m, n) == IF m > n THEN m ELSE n
RoundedUp(n, unit) == (n + unit - 1) \div unit


(* BitWTransactionSize of an unsigned transaction.                         *)
Size(ins, outs) == HEADER + ins * TX_INPUT_SIZE + outs * TX_OUTPUT_SIZE

(* _txFee                                                                  *)
TxFee(rate, size) ==
  Larger(RoundedUp(size, KB) * TX_FEE_PER_KB,
         RoundedUp((size * rate) \div KB, ROUND) * ROUND)

MinOutputAmount(rate) ==
  Larger(RoundedUp(TX_MIN_OUTPUT_AMOUNT * rate, MIN_FEE_PER_KB), TX_MIN_OUTPUT_AMOUNT)

MaxOutputAmountOneOutput ==
  LET fee == TxFee(feePerKb, Size(Len(utxos), 1))
  IN Larger(Total(utxos) - fee, 0)

MaxOutputAmount ==
  LET fee == TxFee(feePerKb, Size(Len(utxos), 2))
  IN Larger(Total(utxos) - fee, 0)

-----------------------------------------------------------------------------
Init ==
  /\ utxos \in UtxoLists
  /\ feePerKb \in FeeRates
  /\ pc = "idle"
  /\ asked = <<>>
  /\ outputs = <<>>
  /\ minAmount = 0
  /\ feeAmount = 0
  /\ inputs = 0
  /\ balance = 0
  /\ tx = NoTx

Locked == pc \in {"select", "finish"}

(* Another thread registers or removes transactions, or sets the fee.      *)
WalletChanges ==
  /\ ~Locked
  /\ utxos' \in UtxoLists
  /\ feePerKb' \in FeeRates
  /\ UNCHANGED <<pc, asked, locals, tx>>

(* A call, also the one the function makes to itself.                      *)
Call(outs) ==
  /\ pc' = IF outs = <<>> THEN "aborted" ELSE "begin"
  /\ outputs' = outs
  /\ minAmount' = 0
  /\ feeAmount' = 0
  /\ inputs' = 0
  /\ balance' = 0

Return(t) ==
  /\ pc' = "idle"
  /\ tx' = t
  /\ outputs' = <<>>
  /\ minAmount' = 0
  /\ feeAmount' = 0
  /\ inputs' = 0
  /\ balance' = 0

CreateTxForOutputs(outs) ==
  /\ pc = "idle"
  /\ Call(outs)
  /\ asked' = outs
  /\ tx' = NoTx
  /\ UNCHANGED wallet

(* BitWalletFeeForTxAmount builds a transaction for at most what can be    *)
(* sent, and lets it go.                                                   *)
FeeForTxAmount(amount) ==
  CreateTxForOutputs(<<IF amount < MaxOutputAmount THEN amount ELSE MaxOutputAmount>>)

ReadMinAmount ==
  /\ pc = "begin"
  /\ minAmount = 0
  /\ minAmount' = MinOutputAmount(feePerKb)
  /\ UNCHANGED <<wallet, pc, asked, outputs, feeAmount, inputs, balance, tx>>

Amount == Total(outputs)

FeeWithoutChange(ins) == TxFee(feePerKb, Size(ins, Len(outputs)))
(* The fee with the inputs so far and an output for the change.            *)
FeeWithChange(ins) == TxFee(feePerKb, Size(ins, Len(outputs) + 1))

Lock ==
  /\ pc = "begin"
  /\ minAmount > 0
  /\ pc' = IF utxos = <<>> THEN "finish" ELSE "select"
  /\ feeAmount' = FeeWithChange(0)
  /\ UNCHANGED <<wallet, asked, outputs, minAmount, inputs, balance, tx>>

(* The next input leaves no room for a change output.                      *)
TooLarge == Size(inputs + 1, Len(outputs) + 1) > TX_MAX_SIZE

(* The fee with what takes the wallet's balance to a multiple of ROUND.    *)
RoundedOff(fee) ==
  IF Total(utxos) > Amount + fee
  THEN fee + ((Total(utxos) - (Amount + fee)) % ROUND)
  ELSE fee

Enough(funds, fee) ==
  \/ funds = Amount + fee
  \/ funds >= Amount + fee + minAmount

SelectInput ==
  LET funds == balance + utxos[inputs + 1]
      fee == RoundedOff(FeeWithChange(inputs + 1))
  IN /\ pc = "select"
     /\ ~TooLarge
     /\ inputs' = inputs + 1
     /\ balance' = funds
     /\ feeAmount' = fee
     /\ pc' = IF Enough(funds, fee) \/ inputs' = Len(utxos) THEN "finish" ELSE "select"
     /\ UNCHANGED <<wallet, asked, outputs, minAmount, tx>>

(* What the wallet would need to pay for the outputs with all its coins.   *)
NotAffordable ==
  Total(utxos) < Amount + TxFee(feePerKb, Size(Len(utxos), Len(outputs) + 1))

GiveUp ==
  /\ pc = "select"
  /\ TooLarge
  /\ NotAffordable
  /\ Return(NoTx)
  /\ UNCHANGED <<wallet, asked>>

LastOutput == outputs[Len(outputs)]

(* Mutated form: what is left may be any amount.                           *)
LastCanShrinkToDust == LastOutput > Amount + feeAmount - balance

LastCanShrink == LastOutput > Amount + feeAmount + minAmount - balance

(* The same outputs again, with what is missing taken off the last one.    *)
ReduceLastOutput ==
  /\ pc = "select"
  /\ TooLarge
  /\ ~NotAffordable
  /\ LastCanShrink
  /\ Call([outputs EXCEPT ![Len(outputs)] = @ - (Amount + feeAmount - balance)])
  /\ UNCHANGED <<wallet, asked, tx>>

WithoutLast == Front(outputs)

(* All outputs but the last.  The function asserts that there is one.      *)
RemoveLastOutput ==
  /\ pc = "select"
  /\ TooLarge
  /\ ~NotAffordable
  /\ ~LastCanShrink
  /\ Call(WithoutLast)
  /\ UNCHANGED <<wallet, asked, tx>>

Surplus == balance - (Amount + feeAmount)

Transaction(change) ==
  [inputs |-> inputs, funds |-> balance, outputs |-> outputs, change |-> change]

ChangeIsWorthIt == Surplus >= minAmount

(* The lock is released; then the transaction is returned, without change. *)
Finish ==
  /\ pc = "finish"
  /\ ~ChangeIsWorthIt
  /\ Return(IF Surplus < 0 THEN NoTx ELSE Transaction(0))
  /\ UNCHANGED <<wallet, asked>>

(* The change goes to an address generated with the lock taken anew.       *)
FinishWithChange ==
  /\ pc = "finish"
  /\ ChangeIsWorthIt
  /\ pc' = "change"
  /\ UNCHANGED <<wallet, asked, locals, tx>>

AddChange ==
  /\ pc = "change"
  /\ Return(Transaction(Surplus))
  /\ UNCHANGED <<wallet, asked>>

Aborted == pc = "aborted" /\ UNCHANGED vars

Continue ==
  \/ ReadMinAmount
  \/ Lock
  \/ SelectInput
  \/ GiveUp
  \/ ReduceLastOutput
  \/ RemoveLastOutput
  \/ Finish
  \/ FinishWithChange
  \/ AddChange

Start ==
  \/ \E outs \in Requests : CreateTxForOutputs(outs)
  \/ \E outs \in Requests : FeeForTxAmount(outs[1])

Next == Start \/ Continue \/ WalletChanges \/ Aborted

Spec == Init /\ [][Next]_vars

-----------------------------------------------------------------------------
TypeOK ==
  /\ utxos \in UtxoLists
  /\ feePerKb \in FeeRates
  /\ pc \in {"idle", "begin", "select", "finish", "change", "aborted"}
  /\ asked \in Seq(Nat)
  /\ outputs \in Seq(Nat)
  /\ minAmount \in Nat
  /\ feeAmount \in Nat
  /\ inputs \in Nat
  /\ Locked => inputs <= Len(utxos)
  /\ balance \in Nat
  /\ tx \in [inputs : Nat, funds : Nat, outputs : Seq(Nat), change : Nat]

(* A transaction can be made of the coins picked.                          *)
Funded == pc = "finish" /\ Surplus >= 0

Change == IF ChangeIsWorthIt THEN Surplus ELSE 0
FeePaid == balance - Amount - Change
OutputsPaid == Len(outputs) + (IF Change > 0 THEN 1 ELSE 0)

(* The fee pays for the size of the transaction, its change included, at   *)
(* the rate in force, however many inputs pay for themselves on the way.   *)
FeeCovers == Funded => FeePaid >= TxFee(feePerKb, Size(inputs, OutputsPaid))

(* The fee is at most the one for a transaction with a change output, what *)
(* rounding adds, and a remainder not worth an output.                     *)
FeeBounded ==
  Funded => FeePaid < FeeWithChange(inputs) + ROUND + minAmount

(* What the wallet says it can send can be sent, unless it takes more      *)
(* coins than a transaction has room for.                                  *)
MaxSendable ==
  /\ pc = "finish"
  /\ asked = <<MaxOutputAmount>>
  /\ asked = outputs
  /\ MaxOutputAmount > 0
  /\ Size(Len(utxos), 2) <= TX_MAX_SIZE
  => Funded

(* No transaction is larger than the network takes, change included.       *)
FitsLimit ==
  tx # NoTx =>
    Size(tx.inputs, Len(tx.outputs) + (IF tx.change > 0 THEN 1 ELSE 0)) <= TX_MAX_SIZE

(* No output the wallet makes up or shrinks is uneconomical to spend.      *)
NoDust ==
  tx # NoTx =>
    /\ tx.change > 0 => tx.change >= TX_MIN_OUTPUT_AMOUNT
    /\ \A k \in DOMAIN tx.outputs :
         tx.outputs[k] = asked[k] \/ tx.outputs[k] >= TX_MIN_OUTPUT_AMOUNT

(* The outputs are those asked for, in their order, but that the last ones *)
(* may be missing and the last one left may have another amount, of which  *)
(* MadeToFit says how it comes about; what goes in comes out, but for the  *)
(* fee.                                                                    *)
OthersAsAsked ==
  tx # NoTx =>
    /\ Len(tx.outputs) \in 1..Len(asked)
    /\ \A k \in 1..(Len(tx.outputs) - 1) : tx.outputs[k] = asked[k]
    /\ tx.funds > Total(tx.outputs) + tx.change

(* A transaction that would grow too large is made to fit in one of two    *)
(* ways.  Either the last output is left out, or it alone gets another     *)
(* amount, with which the outputs and the fee come to just what the coins  *)
(* picked are worth.  That amount is worth an output, never zero or less.  *)
(* It is smaller than what was asked, except when the coins picked are     *)
(* worth more than outputs and fee: then it grows, by less than what would *)
(* make an output of change (the end of the loop in                        *)
(* BitWalletCreateTxForOutputs).                                           *)
LastIs(amount) ==
  /\ Len(outputs') = Len(outputs)
  /\ \A k \in 1..(Len(outputs) - 1) : outputs'[k] = outputs[k]
  /\ outputs'[Len(outputs)] = amount
MadeToFit ==
  [][pc = "select" /\ pc' \in {"begin", "aborted"} =>
       \/ outputs' = WithoutLast
       \/ \E amount \in (minAmount + 1)..(LastOutput + minAmount - 1) :
            /\ LastIs(amount)
            /\ Total(outputs') + feeAmount = balance
            /\ amount < LastOutput <=> balance < Amount + feeAmount]_vars

-----------------------------------------------------------------------------
(* The inductive invariant.                                                *)

Running == pc \in {"begin", "select", "finish", "change"}
Picking == pc \in {"select", "finish", "change"}

(* The outputs of a call go back to what was asked for.                    *)
OutputsAsAsked ==
  Running =>
    /\ Len(outputs) \in 1..Len(asked)
    /\ \A k \in 1..(Len(outputs) - 1) : outputs[k] = asked[k]
    /\ \A k \in 1..Len(outputs) :
         outputs[k] = asked[k] \/ outputs[k] >= TX_MIN_OUTPUT_AMOUNT

MinimumRead ==
  /\ Picking => minAmount >= TX_MIN_OUTPUT_AMOUNT
  /\ pc = "begin" =>
       /\ minAmount = 0 \/ minAmount >= TX_MIN_OUTPUT_AMOUNT
       /\ inputs = 0 /\ balance = 0

(* While the lock is held the coins picked and the fee belong together.    *)
CoinsPicked ==
  Locked =>
    /\ balance = PartialSums(utxos)[inputs]
    /\ feeAmount = IF inputs = 0 THEN FeeWithChange(0)
                   ELSE RoundedOff(FeeWithChange(inputs))

(* Coins are picked until there are enough of them, or no more.            *)
StopsInTime ==
  /\ pc = "select" => inputs < Len(utxos) /\ ~Enough(balance, feeAmount)
  /\ pc = "finish" => Enough(balance, feeAmount) \/ inputs = Len(utxos)
  /\ pc = "change" => ChangeIsWorthIt /\ feeAmount > 0 /\ inputs > 0

FitsSoFar ==
  Picking /\ inputs > 0 => Size(inputs, Len(outputs) + 1) <= TX_MAX_SIZE

SendInv ==
  /\ TypeOK
  /\ OutputsAsAsked
  /\ MinimumRead
  /\ CoinsPicked
  /\ StopsInTime
  /\ FitsSoFar
  /\ FitsLimit
  /\ NoDust
  /\ OthersAsAsked

(* Fee, size and amounts of a transaction are right at once, also at the   *)
(* limits of each, and at every step towards it.                           *)
WellBuilt == SendInv /\ FeeCovers /\ FeeBounded
=============================================================================
