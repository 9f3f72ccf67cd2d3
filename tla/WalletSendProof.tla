-------------------------- MODULE WalletSendProof ---------------------------
(***************************************************************************)
(* Building a transaction: its fee, its size and its amounts, for every    *)
(* list of coins, every fee rate and every scale of sizes and amounts.     *)
(***************************************************************************)
EXTENDS WalletSend, Numbers, SequenceTheorems

-----------------------------------------------------------------------------
(* Fees.                                                                   *)

LEMMA RoundedUpFacts ==
  ASSUME NEW n \in Nat, NEW unit \in Nat \ {0}
  PROVE  /\ RoundedUp(n, unit) \in Nat
         /\ n > 0 => RoundedUp(n, unit) > 0
         /\ \A m \in Nat : n <= m => RoundedUp(n, unit) <= RoundedUp(m, unit)
<1>1. n + unit - 1 \in Nat /\ (n + unit - 1) \div unit \in Nat
  <2>1. n + unit - 1 \in Nat
    OBVIOUS
  <2> QED
    BY <2>1, ModFacts
<1>2. ASSUME n > 0  PROVE (n + unit - 1) \div unit >= 1
  <2>1. unit <= n + unit - 1 /\ unit \div unit = 1
    <3>1. unit = unit * 1 + 0 /\ unit % unit \in 0..(unit - 1) /\ unit \div unit \in Nat
          /\ unit = unit * (unit \div unit) + (unit % unit)
      BY ModFacts
    <3>2. unit * (unit \div unit) + (unit % unit) = unit * 1 + 0
      BY <3>1
    <3>3. 0 \in 0..(unit - 1) /\ unit \div unit \in Int
      BY <3>1
    <3>4. unit \div unit = 1
      BY <3>1, <3>2, <3>3, DivUnique
    <3> QED
      BY <1>2, <3>4
  <2> QED
    BY <1>1, <2>1, DivMono
<1>3. ASSUME NEW m \in Nat, n <= m
      PROVE  (n + unit - 1) \div unit <= (m + unit - 1) \div unit
  <2>1. m + unit - 1 \in Nat /\ n + unit - 1 <= m + unit - 1
    BY <1>3
  <2> QED
    BY <1>1, <2>1, DivMono
<1> QED
  BY <1>1, <1>2, <1>3 DEF RoundedUp

(* A larger transaction does not have a smaller fee, and none is free.     *)
LEMMA TxFeeFacts ==
  ASSUME NEW rate \in Nat, NEW size \in Nat
  PROVE  /\ TxFee(rate, size) \in Nat
         /\ size > 0 => TxFee(rate, size) > 0
         /\ \A more \in Nat : size <= more => TxFee(rate, size) <= TxFee(rate, more)
<1> DEFINE kbs(s) == RoundedUp(s, KB)
           flat(s) == kbs(s) * TX_FEE_PER_KB
           raw(s) == (s * rate) \div KB
           rounds(s) == RoundedUp(raw(s), ROUND)
           byRate(s) == rounds(s) * ROUND
<1>1. KB \in Nat \ {0} /\ ROUND \in Nat \ {0} /\ TX_FEE_PER_KB \in Nat \ {0}
  BY UnitAssumption
<1>2. \A s \in Nat : kbs(s) \in Nat /\ flat(s) \in Nat /\ (s > 0 => flat(s) > 0)
  <2> SUFFICES ASSUME NEW s \in Nat
               PROVE  kbs(s) \in Nat /\ flat(s) \in Nat /\ (s > 0 => flat(s) > 0)
    OBVIOUS
  <2>1. kbs(s) \in Nat /\ (s > 0 => kbs(s) > 0)
    BY <1>1, RoundedUpFacts
  <2> HIDE DEF kbs
  <2>2. flat(s) \in Nat
    BY <1>1, <2>1
  <2>3. ASSUME s > 0  PROVE flat(s) > 0
    <3>1. 1 <= kbs(s) /\ 1 \in Nat
      BY <2>1, <2>3
    <3>2. 1 * TX_FEE_PER_KB <= kbs(s) * TX_FEE_PER_KB
      BY <1>1, <2>1, <3>1, ProductMono
    <3> QED
      BY <1>1, <2>2, <3>2
  <2> QED
    BY <2>1, <2>2, <2>3
<1>3. \A s, more \in Nat : s <= more => flat(s) <= flat(more)
  <2> SUFFICES ASSUME NEW s \in Nat, NEW more \in Nat, s <= more
               PROVE  flat(s) <= flat(more)
    OBVIOUS
  <2>1. kbs(s) <= kbs(more) /\ kbs(s) \in Nat /\ kbs(more) \in Nat
    BY <1>1, RoundedUpFacts
  <2> HIDE DEF kbs
  <2> QED
    BY <1>1, <2>1, ProductMono
<1>4. \A s \in Nat : raw(s) \in Nat /\ rounds(s) \in Nat /\ byRate(s) \in Nat
  <2> SUFFICES ASSUME NEW s \in Nat
               PROVE  raw(s) \in Nat /\ rounds(s) \in Nat /\ byRate(s) \in Nat
    OBVIOUS
  <2>1. s * rate \in Nat
    OBVIOUS
  <2>2. raw(s) \in Nat
    BY <1>1, <2>1, ModFacts
  <2> HIDE DEF raw
  <2>3. rounds(s) \in Nat
    BY <1>1, <2>2, RoundedUpFacts
  <2> HIDE DEF rounds
  <2> QED
    BY <1>1, <2>2, <2>3
<1>5. \A s, more \in Nat : s <= more => byRate(s) <= byRate(more)
  <2> SUFFICES ASSUME NEW s \in Nat, NEW more \in Nat, s <= more
               PROVE  byRate(s) <= byRate(more)
    OBVIOUS
  <2>1. s * rate <= more * rate /\ s * rate \in Nat /\ more * rate \in Nat
    BY ProductMono
  <2>2. raw(s) <= raw(more) /\ raw(s) \in Nat /\ raw(more) \in Nat
    BY <1>1, <1>4, <2>1, DivMono
  <2> HIDE DEF raw
  <2>3. rounds(s) <= rounds(more) /\ rounds(s) \in Nat /\ rounds(more) \in Nat
    BY <1>1, <2>2, RoundedUpFacts
  <2> HIDE DEF rounds
  <2> QED
    BY <1>1, <2>3, ProductMono
<1>6. \A s : TxFee(rate, s) = Larger(flat(s), byRate(s))
  BY DEF TxFee
<1> HIDE DEF flat, byRate
<1>7. \A s \in Nat : flat(s) \in Nat /\ byRate(s) \in Nat /\ (s > 0 => flat(s) > 0)
  BY <1>2, <1>4
<1>8. ASSUME NEW s \in Nat
      PROVE  /\ TxFee(rate, s) = IF flat(s) > byRate(s) THEN flat(s) ELSE byRate(s)
             /\ TxFee(rate, s) \in Nat
             /\ s > 0 => TxFee(rate, s) > 0
  <2>1. TxFee(rate, s) = IF flat(s) > byRate(s) THEN flat(s) ELSE byRate(s)
    BY <1>6 DEF Larger
  <2> QED
    BY <1>7, <2>1
<1>9. ASSUME NEW more \in Nat, size <= more
      PROVE  TxFee(rate, size) <= TxFee(rate, more)
  <2>1. flat(size) <= flat(more) /\ byRate(size) <= byRate(more)
    BY <1>3, <1>5, <1>9
  <2> QED
    BY <1>7, <1>8, <2>1
<1> QED
  BY <1>8, <1>9

LEMMA SizeFacts ==
  ASSUME NEW ins \in Nat, NEW outs \in Nat
  PROVE  /\ Size(ins, outs) \in Nat
         /\ Size(ins, outs + 1) > 0
         /\ Size(ins, outs) <= Size(ins, outs + 1)
<1>1. TX_INPUT_SIZE \in Nat \ {0} /\ TX_OUTPUT_SIZE \in Nat \ {0} /\ HEADER \in Nat
  BY UnitAssumption
<1>2. ins * TX_INPUT_SIZE \in Nat /\ outs * TX_OUTPUT_SIZE \in Nat
  BY <1>1
<1>3. (outs + 1) * TX_OUTPUT_SIZE = outs * TX_OUTPUT_SIZE + TX_OUTPUT_SIZE
  BY <1>1
<1> QED
  BY <1>1, <1>2, <1>3 DEF Size

LEMMA MinOutputFacts ==
  ASSUME NEW rate \in Nat
  PROVE  MinOutputAmount(rate) \in Nat /\ MinOutputAmount(rate) >= TX_MIN_OUTPUT_AMOUNT
<1>1. MIN_FEE_PER_KB \in Nat \ {0} /\ TX_MIN_OUTPUT_AMOUNT \in Nat \ {0}
  BY UnitAssumption
<1>2. TX_MIN_OUTPUT_AMOUNT * rate \in Nat
  BY <1>1
<1>3. RoundedUp(TX_MIN_OUTPUT_AMOUNT * rate, MIN_FEE_PER_KB) \in Nat
  BY <1>1, <1>2, RoundedUpFacts
<1> QED
  BY <1>1, <1>3 DEF MinOutputAmount, Larger

(* What the types of the variables say of sums and fees.                   *)
LEMMA AmountFacts ==
  ASSUME TypeOK
  PROVE  /\ feePerKb \in Nat /\ utxos \in Seq(Nat) /\ utxos \in Seq(Int)
         /\ Total(utxos) \in Nat /\ Amount \in Nat
         /\ \A n \in 0..Len(utxos) : PartialSums(utxos)[n] \in Nat
         /\ \A n \in Nat : FeeWithChange(n) \in Nat /\ FeeWithChange(n) > 0
         /\ \A fee \in Nat : RoundedOff(fee) \in fee..(fee + ROUND - 1)
<1>1. feePerKb \in Nat /\ utxos \in Seq(Nat \ {0}) /\ ROUND \in Nat \ {0}
  BY UnitAssumption, ListAssumption DEF TypeOK
<1>2. utxos \in Seq(Nat) /\ utxos \in Seq(Int) /\ outputs \in Seq(Nat) /\ outputs \in Seq(Int)
  BY <1>1 DEF TypeOK
<1>3. Total(utxos) \in Nat /\ Amount \in Nat
      /\ \A n \in 0..Len(utxos) : PartialSums(utxos)[n] \in Nat
  BY <1>2, TotalType, PartialSumsType DEF Amount
<1>4. ASSUME NEW n \in Nat  PROVE FeeWithChange(n) \in Nat /\ FeeWithChange(n) > 0
  <2>1. Len(outputs) \in Nat /\ Len(outputs) + 1 \in Nat
    BY <1>2
  <2>2. Size(n, Len(outputs) + 1) \in Nat /\ Size(n, Len(outputs) + 1) > 0
    BY <2>1, SizeFacts
  <2> QED
    BY <1>1, <2>2, TxFeeFacts DEF FeeWithChange
<1>5. ASSUME NEW fee \in Nat  PROVE RoundedOff(fee) \in fee..(fee + ROUND - 1)
  <2>1. CASE Total(utxos) > Amount + fee
    <3>1. Total(utxos) - (Amount + fee) \in Nat
      BY <1>3, <2>1
    <3>2. (Total(utxos) - (Amount + fee)) % ROUND \in 0..(ROUND - 1)
      BY <1>1, <3>1, ModFacts
    <3> QED
      BY <1>1, <2>1, <3>2 DEF RoundedOff
  <2>2. CASE ~(Total(utxos) > Amount + fee)
    BY <1>1, <2>2 DEF RoundedOff
  <2> QED
    BY <2>1, <2>2
<1> QED
  BY <1>1, <1>2, <1>3, <1>4, <1>5

LEMMA SendTypes ==
  ASSUME SendInv
  PROVE  /\ {minAmount, feeAmount, inputs, balance, Amount} \subseteq Nat
         /\ Surplus \in Int
         /\ utxos \in Seq(Int) /\ Len(utxos) \in Nat
         /\ outputs \in Seq(Nat) /\ Len(outputs) \in Nat /\ Len(asked) \in Nat
         /\ {TX_MIN_OUTPUT_AMOUNT, TX_MAX_SIZE, ROUND} \subseteq Nat
<1>1. TypeOK
  BY DEF SendInv
<1>2. {minAmount, feeAmount, inputs, balance} \subseteq Nat /\ outputs \in Seq(Nat)
      /\ asked \in Seq(Nat)
  BY <1>1 DEF TypeOK
<1>3. Amount \in Nat /\ utxos \in Seq(Int)
  BY <1>1, AmountFacts
<1>4. Len(utxos) \in Nat /\ Len(outputs) \in Nat /\ Len(asked) \in Nat
  BY <1>2, <1>3
<1>5. Surplus \in Int
  BY <1>2, <1>3 DEF Surplus
<1>6. {TX_MIN_OUTPUT_AMOUNT, TX_MAX_SIZE, ROUND} \subseteq Nat
  BY UnitAssumption
<1> QED
  BY <1>2, <1>3, <1>4, <1>5, <1>6

-----------------------------------------------------------------------------
(* The steps.                                                              *)

(* What was returned before stays right while what was asked for stays.    *)
LEMMA KeepTx ==
  ASSUME FitsLimit, NoDust, OthersAsAsked, UNCHANGED <<tx, asked>>
  PROVE  FitsLimit' /\ NoDust' /\ OthersAsAsked'
BY DEF FitsLimit, NoDust, OthersAsAsked

LEMMA NoTxFine ==
  ASSUME tx' = NoTx
  PROVE  FitsLimit' /\ NoDust' /\ OthersAsAsked'
BY DEF FitsLimit, NoDust, OthersAsAsked

LEMMA NoTxType == NoTx \in [inputs : Nat, funds : Nat, outputs : Seq(Nat), change : Nat]
BY DEF NoTx

LEMMA WalletChangesStep ==
  ASSUME SendInv, WalletChanges
  PROVE  SendInv'
<1> USE DEF SendInv, WalletChanges, locals
<1>1. TypeOK'
  BY DEF TypeOK, Locked
<1>2. OutputsAsAsked' /\ MinimumRead' /\ FitsSoFar'
  BY DEF OutputsAsAsked, Running, MinimumRead, Picking, FitsSoFar
<1>3. CoinsPicked' /\ StopsInTime'
  BY DEF CoinsPicked, Locked, StopsInTime, ChangeIsWorthIt, Surplus, Amount
<1> QED
  BY <1>1, <1>2, <1>3, KeepTx

LEMMA CreateStep ==
  ASSUME SendInv, NEW outs \in Seq(Nat), Len(outs) > 0, CreateTxForOutputs(outs)
  PROVE  SendInv'
<1> USE DEF SendInv
<1>1. /\ pc' = "begin" /\ outputs' = outs /\ asked' = outs /\ tx' = NoTx
      /\ minAmount' = 0 /\ feeAmount' = 0 /\ inputs' = 0 /\ balance' = 0
      /\ utxos' = utxos /\ feePerKb' = feePerKb
  BY DEF CreateTxForOutputs, Call, wallet
<1>2. TypeOK'
  BY <1>1, NoTxType DEF TypeOK, Locked
<1>3. OutputsAsAsked'
  <2>1. Len(outs) \in 1..Len(outs)
    OBVIOUS
  <2> QED
    BY <1>1, <2>1 DEF OutputsAsAsked
<1>4. MinimumRead' /\ CoinsPicked' /\ StopsInTime' /\ FitsSoFar'
  BY <1>1 DEF MinimumRead, CoinsPicked, StopsInTime, FitsSoFar, Picking, Locked
<1> QED
  BY <1>1, <1>2, <1>3, <1>4, NoTxFine

LEMMA ReadMinStep ==
  ASSUME SendInv, ReadMinAmount
  PROVE  SendInv'
<1> USE DEF SendInv
<1>1. /\ pc = "begin" /\ pc' = "begin" /\ minAmount' = MinOutputAmount(feePerKb)
      /\ UNCHANGED <<utxos, feePerKb, asked, outputs, feeAmount, inputs, balance, tx>>
  BY DEF ReadMinAmount, wallet
<1>2. minAmount' \in Nat /\ minAmount' >= TX_MIN_OUTPUT_AMOUNT
  BY <1>1, AmountFacts, MinOutputFacts
<1>3. TypeOK'
  BY <1>1, <1>2 DEF TypeOK, Locked
<1>4. OutputsAsAsked' /\ MinimumRead' /\ CoinsPicked' /\ StopsInTime' /\ FitsSoFar'
  BY <1>1, <1>2 DEF OutputsAsAsked, Running, MinimumRead, CoinsPicked, StopsInTime, FitsSoFar,
                    Picking, Locked
<1> QED
  BY <1>1, <1>3, <1>4, KeepTx

(* The fee goes by variables that stay as they are while coins are picked. *)
LEMMA FeeSame ==
  ASSUME UNCHANGED <<utxos, feePerKb, outputs>>
  PROVE  /\ Amount' = Amount
         /\ \A n : FeeWithChange(n)' = FeeWithChange(n)
         /\ \A fee : RoundedOff(fee)' = RoundedOff(fee)
BY DEF Amount, FeeWithChange, RoundedOff

LEMMA LockStep ==
  ASSUME SendInv, Lock
  PROVE  SendInv'
<1> USE DEF SendInv
<1>1. /\ pc = "begin" /\ pc' = (IF utxos = <<>> THEN "finish" ELSE "select")
      /\ minAmount > 0 /\ feeAmount' = FeeWithChange(0) /\ inputs = 0 /\ balance = 0
      /\ UNCHANGED <<utxos, feePerKb, asked, outputs, minAmount, inputs, balance, tx>>
  BY DEF Lock, wallet, MinimumRead
<1>2. FeeWithChange(0) \in Nat /\ FeeWithChange(0) > 0 /\ Amount \in Nat
      /\ utxos \in Seq(Int)
  BY AmountFacts
<1>3. minAmount \in Nat /\ minAmount >= TX_MIN_OUTPUT_AMOUNT
  BY <1>1 DEF TypeOK, MinimumRead
<1>4. TypeOK'
  <2>1. 0 <= Len(utxos)
    BY <1>2
  <2> QED
    BY <1>1, <1>2, <2>1 DEF TypeOK
<1>5. OutputsAsAsked' /\ MinimumRead' /\ FitsSoFar'
  BY <1>1, <1>3 DEF OutputsAsAsked, Running, MinimumRead, FitsSoFar, Picking
<1>6. CoinsPicked'
  <2>1. PartialSums(utxos)[0] = 0
    BY <1>2, PartialSumsDef
  <2>2. FeeWithChange(0)' = FeeWithChange(0)
    BY <1>1 DEF FeeWithChange
  <2> QED
    BY <1>1, <2>1, <2>2 DEF CoinsPicked
<1>7. StopsInTime'
  <2>1. ~Enough(balance, feeAmount)'
    BY <1>1, <1>2, <1>3 DEF Enough, Amount
  <2>2. utxos # <<>> => 0 < Len(utxos)
    BY <1>2
  <2>3. utxos = <<>> => Len(utxos) = 0
    OBVIOUS
  <2> QED
    BY <1>1, <2>1, <2>2, <2>3 DEF StopsInTime
<1> QED
  BY <1>1, <1>4, <1>5, <1>6, <1>7, KeepTx

LEMMA SelectStep ==
  ASSUME SendInv, SelectInput
  PROVE  SendInv'
<1> USE DEF SendInv
<1> DEFINE funds == balance + utxos[inputs + 1]
           fee == RoundedOff(FeeWithChange(inputs + 1))
<1>1. /\ pc = "select" /\ ~TooLarge
      /\ inputs' = inputs + 1 /\ balance' = funds /\ feeAmount' = fee
      /\ pc' = IF Enough(funds, fee) \/ inputs' = Len(utxos) THEN "finish" ELSE "select"
      /\ UNCHANGED <<utxos, feePerKb, asked, outputs, minAmount, tx>>
  BY DEF SelectInput, wallet
<1>2. /\ inputs \in Nat /\ inputs < Len(utxos) /\ inputs + 1 \in 1..Len(utxos)
      /\ balance = PartialSums(utxos)[inputs]
      /\ Len(utxos) \in Nat
  <2>1. inputs < Len(utxos) /\ inputs \in Nat /\ balance = PartialSums(utxos)[inputs]
    BY <1>1 DEF StopsInTime, CoinsPicked, Locked, TypeOK
  <2> QED
    BY <2>1, SendTypes
<1>3. funds = PartialSums(utxos)[inputs + 1]
  <2>1. PartialSums(utxos)[inputs + 1] = PartialSums(utxos)[(inputs + 1) - 1] + utxos[inputs + 1]
    BY <1>2, AmountFacts, PartialSumsDef
  <2>2. (inputs + 1) - 1 = inputs
    BY <1>2
  <2> QED
    BY <1>2, <2>1, <2>2
<1>4. funds \in Nat
  <2>1. TypeOK /\ inputs + 1 \in 0..Len(utxos)
    BY <1>2
  <2>2. PartialSums(utxos)[inputs + 1] \in Nat
    BY <2>1, AmountFacts
  <2> QED
    BY <1>3, <2>2
<1>5. FeeWithChange(inputs + 1) \in Nat /\ fee \in Nat
  <2>1. inputs + 1 \in Nat /\ ROUND \in Nat
    BY <1>2, UnitAssumption
  <2>2. FeeWithChange(inputs + 1) \in Nat
    BY <2>1, AmountFacts
  <2> HIDE DEF SendInv
  <2>3. TypeOK
    BY DEF SendInv
  <2>4. fee \in FeeWithChange(inputs + 1)..(FeeWithChange(inputs + 1) + ROUND - 1)
    BY <2>2, <2>3, AmountFacts
  <2> HIDE DEF fee
  <2> QED
    BY <2>1, <2>2, <2>4
<1> HIDE DEF funds, fee
<1>6. TypeOK'
  BY <1>1, <1>2, <1>4, <1>5 DEF TypeOK
<1>7. OutputsAsAsked' /\ MinimumRead'
  BY <1>1 DEF OutputsAsAsked, Running, MinimumRead, Picking
<1>8. CoinsPicked'
  <2>1. inputs' # 0
    BY <1>1, <1>2
  <2>2. RoundedOff(FeeWithChange(inputs))' = fee
    BY <1>1, FeeSame DEF fee, RoundedOff, FeeWithChange, Amount
  <2> QED
    BY <1>1, <1>3, <2>1, <2>2 DEF CoinsPicked
<1>9. StopsInTime'
  <2>1. Enough(balance, feeAmount)' <=> Enough(funds, fee)
    BY <1>1 DEF Enough, Amount
  <2> QED
    BY <1>1, <1>2, <2>1 DEF StopsInTime
<1>10. FitsSoFar'
  <2>1. Len(outputs) + 1 \in Nat /\ inputs + 1 \in Nat
    BY <1>2 DEF TypeOK
  <2>2. Size(inputs + 1, Len(outputs) + 1) \in Nat /\ TX_MAX_SIZE \in Nat
    BY <2>1, SizeFacts, UnitAssumption
  <2> QED
    BY <1>1, <2>2 DEF FitsSoFar, TooLarge
<1> QED
  BY <1>1, <1>6, <1>7, <1>8, <1>9, <1>10, KeepTx

(* Back to where the next call is made.                                    *)
LEMMA ReturnStep ==
  ASSUME SendInv, NEW t, Return(t), UNCHANGED <<utxos, feePerKb, asked>>,
         t \in [inputs : Nat, funds : Nat, outputs : Seq(Nat), change : Nat],
         FitsLimit', NoDust', OthersAsAsked'
  PROVE  SendInv'
<1>1. TypeOK'
  BY DEF SendInv, Return, TypeOK, Locked
<1>2. OutputsAsAsked' /\ MinimumRead' /\ CoinsPicked' /\ StopsInTime' /\ FitsSoFar'
  BY DEF Return, OutputsAsAsked, Running, MinimumRead, CoinsPicked, StopsInTime, FitsSoFar,
         Picking, Locked
<1> QED
  BY <1>1, <1>2 DEF SendInv

(* The function calls itself with outputs that go back to those asked for. *)
LEMMA CallStep ==
  ASSUME SendInv, NEW outs \in Seq(Nat), Call(outs), UNCHANGED <<utxos, feePerKb, asked, tx>>,
         outs # <<>> =>
           /\ Len(outs) \in 1..Len(asked)
           /\ \A k \in 1..(Len(outs) - 1) : outs[k] = asked[k]
           /\ \A k \in 1..Len(outs) : outs[k] = asked[k] \/ outs[k] >= TX_MIN_OUTPUT_AMOUNT
  PROVE  SendInv'
<1> USE DEF SendInv
<1>1. TypeOK'
  BY DEF Call, TypeOK, Locked
<1>2. OutputsAsAsked'
  BY DEF Call, OutputsAsAsked, Running
<1>3. MinimumRead' /\ CoinsPicked' /\ StopsInTime' /\ FitsSoFar'
  BY DEF Call, MinimumRead, CoinsPicked, StopsInTime, FitsSoFar, Picking, Locked
<1> QED
  BY <1>1, <1>2, <1>3, KeepTx

LEMMA ReduceStep ==
  ASSUME SendInv, ReduceLastOutput
  PROVE  SendInv'
<1> DEFINE last == LastOutput - (Amount + feeAmount - balance)
           outs == [outputs EXCEPT ![Len(outputs)] = last]
<1>1. /\ pc = "select" /\ LastCanShrink /\ Call(outs)
      /\ UNCHANGED <<utxos, feePerKb, asked, tx>>
  BY DEF ReduceLastOutput, wallet, LastOutput
<1>2. /\ outputs \in Seq(Nat) /\ Len(outputs) \in 1..Len(asked)
      /\ \A k \in 1..(Len(outputs) - 1) : outputs[k] = asked[k]
      /\ minAmount >= TX_MIN_OUTPUT_AMOUNT
  BY <1>1 DEF SendInv, OutputsAsAsked, Running, MinimumRead, Picking, TypeOK
<1>3. last \in Nat /\ last >= TX_MIN_OUTPUT_AMOUNT
  <2>1. /\ LastOutput \in Nat /\ Amount \in Nat /\ feeAmount \in Nat /\ minAmount \in Nat
        /\ balance \in Nat /\ TX_MIN_OUTPUT_AMOUNT \in Nat
    BY <1>2, SendTypes, SMTT(30) DEF LastOutput
  <2> QED
    BY <1>1, <1>2, <2>1 DEF LastCanShrink
<1> HIDE DEF last
<1>4. outs \in Seq(Nat) /\ Len(outs) = Len(outputs) /\ outs[Len(outputs)] = last
      /\ \A k \in 1..(Len(outputs) - 1) : outs[k] = outputs[k]
  BY <1>2, <1>3
<1> HIDE DEF outs
<1>5. \A k \in 1..Len(outs) : outs[k] = asked[k] \/ outs[k] >= TX_MIN_OUTPUT_AMOUNT
  <2> SUFFICES ASSUME NEW k \in 1..Len(outs)
               PROVE  outs[k] = asked[k] \/ outs[k] >= TX_MIN_OUTPUT_AMOUNT
    OBVIOUS
  <2>1. CASE k = Len(outputs)
    BY <1>3, <1>4, <2>1
  <2>2. CASE k # Len(outputs)
    <3>1. k \in 1..(Len(outputs) - 1)
      BY <1>2, <1>4, <2>2
    <3> QED
      BY <1>2, <1>4, <3>1
  <2> QED
    BY <2>1, <2>2
<1> QED
  BY <1>1, <1>2, <1>4, <1>5, CallStep

LEMMA RemoveStep ==
  ASSUME SendInv, RemoveLastOutput
  PROVE  SendInv'
<1> DEFINE outs == SubSeq(outputs, 1, Len(outputs) - 1)
<1>1. /\ pc = "select" /\ Call(outs)
      /\ UNCHANGED <<utxos, feePerKb, asked, tx>>
  BY DEF RemoveLastOutput, WithoutLast, Front, wallet
<1>2. /\ outputs \in Seq(Nat) /\ Len(outputs) \in 1..Len(asked)
      /\ \A k \in 1..(Len(outputs) - 1) : outputs[k] = asked[k]
  BY <1>1 DEF SendInv, OutputsAsAsked, Running, TypeOK
<1>3. outs \in Seq(Nat) /\ Len(outs) = Len(outputs) - 1
      /\ \A k \in 1..(Len(outputs) - 1) : outs[k] = outputs[k]
  <2>1. Len(outputs) \in Nat /\ 0 < Len(outputs)
    BY <1>2, SendTypes
  <2>2. \A k \in 1..(Len(outputs) - 1) : outputs[k] \in Nat /\ 1 + k - 1 = k
    BY <1>2, <2>1
  <2> DEFINE n == Len(outputs) - 1
  <2>3. /\ outs \in Seq(Nat)
        /\ Len(outs) = IF 1 <= n THEN n - 1 + 1 ELSE 0
        /\ \A k \in 1..(n - 1 + 1) : outs[k] = outputs[1 + k - 1]
    <3>1. n \in Int /\ 1 \in Int /\ \A k \in 1..n : outputs[k] \in Nat
      BY <2>1, <2>2
    <3> HIDE DEF n
    <3> QED
      BY <3>1, SubSeqProperties DEF n
  <2>4. n \in Nat /\ n - 1 + 1 = n /\ (IF 1 <= n THEN n - 1 + 1 ELSE 0) = n
    <3>1. n \in Nat
      BY <2>1
    <3> HIDE DEF n
    <3> QED
      BY <3>1
  <2> HIDE DEF outs, n
  <2>5. outs \in Seq(Nat) /\ Len(outs) = n /\ \A k \in 1..n : outs[k] = outputs[1 + k - 1]
    BY <2>3, <2>4
  <2>6. \A k \in 1..n : outs[k] = outputs[k]
    BY <2>4, <2>5
  <2> QED
    BY <2>5, <2>6 DEF n
<1> HIDE DEF outs
<1>4. outs # <<>> =>
        /\ Len(outs) \in 1..Len(asked)
        /\ \A k \in 1..(Len(outs) - 1) : outs[k] = asked[k]
        /\ \A k \in 1..Len(outs) : outs[k] = asked[k]
  BY <1>2, <1>3, SMTT(30)
<1> QED
  BY <1>1, <1>3, <1>4, CallStep

(* A transaction the coins pay for is right.                               *)
LEMMA TransactionRight ==
  ASSUME SendInv, Picking, NEW change \in Nat, inputs > 0, feeAmount > 0,
         balance >= Amount + feeAmount + change,
         change > 0 => change >= minAmount,
         tx' = Transaction(change), asked' = asked
  PROVE  /\ Transaction(change) \in [inputs : Nat, funds : Nat, outputs : Seq(Nat), change : Nat]
         /\ FitsLimit' /\ NoDust' /\ OthersAsAsked'
<1> USE DEF SendInv, TypeOK
<1>1. /\ tx'.inputs = inputs /\ tx'.funds = balance /\ tx'.outputs = outputs
      /\ tx'.change = change
  BY DEF Transaction
<1>2. /\ Len(outputs) \in 1..Len(asked) /\ minAmount >= TX_MIN_OUTPUT_AMOUNT
      /\ \A k \in 1..(Len(outputs) - 1) : outputs[k] = asked[k]
      /\ \A k \in 1..Len(outputs) :
           outputs[k] = asked[k] \/ outputs[k] >= TX_MIN_OUTPUT_AMOUNT
      /\ Size(inputs, Len(outputs) + 1) <= TX_MAX_SIZE
  BY DEF OutputsAsAsked, Running, Picking, MinimumRead, FitsSoFar
<1>3. FitsLimit'
  <2>1. /\ Len(outputs) \in Nat /\ Len(outputs) + 1 \in Nat /\ Len(outputs) + 0 = Len(outputs)
        /\ TX_MAX_SIZE \in Nat
    BY SendTypes
  <2>2. /\ Size(inputs, Len(outputs)) <= Size(inputs, Len(outputs) + 1)
        /\ Size(inputs, Len(outputs)) \in Nat /\ Size(inputs, Len(outputs) + 1) \in Nat
    BY <2>1, SizeFacts
  <2>3. /\ Size(inputs, Len(outputs)) <= TX_MAX_SIZE
        /\ Size(inputs, Len(outputs)) = Size(inputs, Len(outputs) + 0)
    BY <1>2, <2>1, <2>2
  <2> QED
    BY <1>1, <1>2, <2>3 DEF FitsLimit, Size
<1>4. NoDust'
  <2>1. TX_MIN_OUTPUT_AMOUNT \in Nat
    BY UnitAssumption
  <2>2. DOMAIN outputs = 1..Len(outputs)
    OBVIOUS
  <2> QED
    BY <1>1, <1>2, <2>1, <2>2, SMTT(30) DEF NoDust
<1>5. OthersAsAsked'
  <2>1. balance > Total(outputs) + change
    <3>1. Amount \in Nat
      BY AmountFacts
    <3> QED
      BY <3>1 DEF Amount
  <2> QED
    BY <1>1, <1>2, <2>1 DEF OthersAsAsked
<1> QED
  BY <1>3, <1>4, <1>5 DEF Transaction

(* The fee of the coins picked is positive.                                *)
LEMMA FeePositive ==
  ASSUME SendInv, Locked
  PROVE  feeAmount >= FeeWithChange(inputs) /\ feeAmount > 0
         /\ feeAmount < FeeWithChange(inputs) + ROUND
         /\ FeeWithChange(inputs) \in Nat
<1>1. inputs \in Nat /\ ROUND \in Nat \ {0}
  BY UnitAssumption DEF SendInv, TypeOK
<1>2. /\ FeeWithChange(inputs) \in Nat /\ FeeWithChange(inputs) > 0
      /\ RoundedOff(FeeWithChange(inputs)) \in
           FeeWithChange(inputs)..(FeeWithChange(inputs) + ROUND - 1)
  BY <1>1, AmountFacts DEF SendInv
<1>3. feeAmount = IF inputs = 0 THEN FeeWithChange(inputs)
                  ELSE RoundedOff(FeeWithChange(inputs))
  BY DEF SendInv, CoinsPicked
<1> QED
  BY <1>1, <1>2, <1>3

(* Whoever can pay has picked coins.                                       *)
LEMMA FundedHasInputs ==
  ASSUME SendInv, pc = "finish", Surplus >= 0
  PROVE  inputs > 0 /\ balance >= Amount + feeAmount
<1>1. Locked /\ inputs \in Nat /\ balance \in Nat /\ feeAmount \in Nat
  BY DEF Locked, SendInv, TypeOK
<1>2. Amount \in Nat /\ feeAmount > 0 /\ utxos \in Seq(Int)
  BY <1>1, AmountFacts, FeePositive DEF SendInv
<1>3. balance >= Amount + feeAmount
  BY <1>1, <1>2 DEF Surplus
<1>4. inputs = 0 => balance = 0
  BY <1>1, <1>2, PartialSumsDef DEF SendInv, CoinsPicked
<1> QED
  BY <1>1, <1>2, <1>3, <1>4

LEMMA FinishStep ==
  ASSUME SendInv, Finish
  PROVE  SendInv'
<1>1. /\ pc = "finish" /\ Return(IF Surplus < 0 THEN NoTx ELSE Transaction(0))
      /\ UNCHANGED <<utxos, feePerKb, asked>>
  BY DEF Finish, wallet
<1>2. Surplus \in Int
  BY SendTypes
<1>3. CASE Surplus < 0
  <2>1. Return(NoTx) /\ tx' = NoTx
    BY <1>1, <1>3 DEF Return
  <2> QED
    BY <1>1, <2>1, NoTxFine, NoTxType, ReturnStep
<1>4. CASE ~(Surplus < 0)
  <2>1. Return(Transaction(0)) /\ tx' = Transaction(0)
    BY <1>1, <1>4 DEF Return
  <2>2. inputs > 0 /\ balance >= Amount + feeAmount /\ feeAmount > 0
    BY <1>1, <1>2, <1>4, FundedHasInputs, FeePositive DEF Locked
  <2>3. balance >= Amount + feeAmount + 0
    BY <2>2, AmountFacts DEF SendInv, TypeOK
  <2>4. /\ Transaction(0) \in [inputs : Nat, funds : Nat, outputs : Seq(Nat), change : Nat]
        /\ FitsLimit' /\ NoDust' /\ OthersAsAsked'
    BY <1>1, <2>1, <2>2, <2>3, TransactionRight DEF Picking
  <2> QED
    BY <1>1, <2>1, <2>4, ReturnStep
<1> QED
  BY <1>3, <1>4

LEMMA FinishWithChangeStep ==
  ASSUME SendInv, FinishWithChange
  PROVE  SendInv'
<1> USE DEF SendInv
<1>1. /\ pc = "finish" /\ pc' = "change" /\ ChangeIsWorthIt
      /\ UNCHANGED <<utxos, feePerKb, asked, outputs, minAmount, feeAmount, inputs, balance, tx>>
  BY DEF FinishWithChange, wallet, locals
<1>2. inputs > 0 /\ feeAmount > 0
  <2>1. Surplus >= 0
    BY <1>1, SendTypes DEF ChangeIsWorthIt
  <2> QED
    BY <1>1, <2>1, FundedHasInputs, FeePositive DEF Locked
<1>3. TypeOK'
  BY <1>1 DEF TypeOK, Locked
<1>4. OutputsAsAsked' /\ MinimumRead' /\ CoinsPicked' /\ FitsSoFar'
  BY <1>1 DEF OutputsAsAsked, Running, MinimumRead, CoinsPicked, Locked, FitsSoFar, Picking
<1>5. StopsInTime'
  BY <1>1, <1>2 DEF StopsInTime, ChangeIsWorthIt, Surplus, Amount
<1> QED
  BY <1>1, <1>3, <1>4, <1>5, KeepTx

LEMMA AddChangeStep ==
  ASSUME SendInv, AddChange
  PROVE  SendInv'
<1>1. /\ pc = "change" /\ Return(Transaction(Surplus)) /\ tx' = Transaction(Surplus)
      /\ UNCHANGED <<utxos, feePerKb, asked>>
  BY DEF AddChange, wallet, Return
<1>2. ChangeIsWorthIt /\ feeAmount > 0 /\ inputs > 0
  BY <1>1 DEF SendInv, StopsInTime
<1>3. /\ Surplus \in Nat /\ Surplus >= minAmount
      /\ balance >= Amount + feeAmount + Surplus
  BY <1>2, SendTypes, SMTT(30) DEF ChangeIsWorthIt, Surplus
<1>4. /\ Transaction(Surplus) \in [inputs : Nat, funds : Nat, outputs : Seq(Nat), change : Nat]
      /\ FitsLimit' /\ NoDust' /\ OthersAsAsked'
  BY <1>1, <1>2, <1>3, TransactionRight DEF Picking
<1> QED
  BY <1>1, <1>4, ReturnStep

LEMMA SendInvStep ==
  ASSUME SendInv, [Next]_vars
  PROVE  SendInv'
<1>1. ASSUME NEW outs \in Requests, CreateTxForOutputs(outs)  PROVE SendInv'
  <2>1. outs \in Seq(Nat \ {0}) /\ outs # <<>>
    BY ListAssumption
  <2>2. outs \in Seq(Nat) /\ Len(outs) > 0
    BY <2>1
  <2> QED
    BY <1>1, <2>2, CreateStep
<1>2. ASSUME NEW outs \in Requests, FeeForTxAmount(outs[1])  PROVE SendInv'
  <2> DEFINE least == IF outs[1] < MaxOutputAmount THEN outs[1] ELSE MaxOutputAmount
  <2>1. outs \in Seq(Nat \ {0}) /\ outs # <<>>
    BY ListAssumption
  <2>2. outs[1] \in Nat
    BY <2>1
  <2>3. MaxOutputAmount \in Nat
    <3>1. Len(utxos) \in Nat /\ Total(utxos) \in Nat /\ feePerKb \in Nat
      BY AmountFacts DEF SendInv
    <3>2. Size(Len(utxos), 2) \in Nat
      BY <3>1, SizeFacts
    <3>3. TxFee(feePerKb, Size(Len(utxos), 2)) \in Nat
      BY <3>1, <3>2, TxFeeFacts
    <3> QED
      BY <3>1, <3>3 DEF MaxOutputAmount, Larger
  <2>4. least \in Nat /\ CreateTxForOutputs(<<least>>)
    BY <1>2, <2>2, <2>3 DEF FeeForTxAmount
  <2> HIDE DEF least
  <2>5. <<least>> \in Seq(Nat) /\ Len(<<least>>) > 0
    BY <2>4
  <2> QED
    BY <2>4, <2>5, CreateStep
<1>3. CASE GiveUp
  BY <1>3, NoTxFine, NoTxType, ReturnStep DEF GiveUp, wallet, Return
<1>4. CASE UNCHANGED vars
  <2>1. UNCHANGED <<utxos, feePerKb, pc, asked, outputs, minAmount, feeAmount, inputs, balance, tx>>
    BY <1>4 DEF vars, wallet, locals
  <2>2. TypeOK' /\ OutputsAsAsked' /\ MinimumRead' /\ FitsSoFar'
    BY <2>1 DEF SendInv, TypeOK, OutputsAsAsked, MinimumRead, FitsSoFar, Running, Picking, Locked
  <2>3. CoinsPicked' /\ StopsInTime'
    BY <2>1 DEF SendInv, CoinsPicked, StopsInTime, Locked, Enough, ChangeIsWorthIt, Surplus,
                Amount, FeeWithChange, RoundedOff
  <2> QED
    BY <2>1, <2>2, <2>3, KeepTx DEF SendInv
<1> QED
  BY <1>1, <1>2, <1>3, <1>4, WalletChangesStep, ReadMinStep, LockStep, SelectStep, ReduceStep,
     RemoveStep, FinishStep, FinishWithChangeStep, AddChangeStep
     DEF Next, Start, Continue, Aborted

LEMMA InitSendInv ==
  ASSUME Init
  PROVE  SendInv
<1>1. TypeOK
  BY NoTxType DEF Init, TypeOK, Locked
<1>2. OutputsAsAsked /\ MinimumRead /\ CoinsPicked /\ StopsInTime /\ FitsSoFar
  BY DEF Init, OutputsAsAsked, Running, MinimumRead, CoinsPicked, StopsInTime, FitsSoFar,
         Picking, Locked
<1>3. FitsLimit /\ NoDust /\ OthersAsAsked
  BY DEF Init, FitsLimit, NoDust, OthersAsAsked
<1> QED
  BY <1>1, <1>2, <1>3 DEF SendInv

-----------------------------------------------------------------------------
(* Results.                                                                *)

(* The invariant behind the others: the coins picked and the fee belong    *)
(* together while the lock is held, the outputs go back to those asked     *)
(* for through every call the function makes to itself, and whatever is    *)
(* returned has been right since.                                          *)
THEOREM SendInvariance == Spec => []SendInv
<1>1. Init => SendInv
  BY InitSendInv
<1>2. SendInv /\ [Next]_vars => SendInv'
  BY SendInvStep
<1> QED
  BY <1>1, <1>2, PTL DEF Spec

(* The coins picked pay for the outputs and at least the fee of the        *)
(* transaction's size, its change included, and for little more.           *)
LEMMA FeeRight ==
  ASSUME SendInv
  PROVE  FeeCovers /\ FeeBounded
<1> SUFFICES ASSUME Funded
             PROVE  /\ FeePaid >= TxFee(feePerKb, Size(inputs, OutputsPaid))
                    /\ FeePaid < FeeWithChange(inputs) + ROUND + minAmount
  BY DEF FeeCovers, FeeBounded
<1>1. /\ feeAmount >= FeeWithChange(inputs)
      /\ feeAmount < FeeWithChange(inputs) + ROUND
      /\ FeeWithChange(inputs) \in Nat
  BY FeePositive DEF Funded, Locked
<1>2. /\ {minAmount, feeAmount, inputs, balance, Amount, ROUND} \subseteq Nat
      /\ Surplus \in Int /\ Surplus >= 0 /\ Len(outputs) \in Nat
  BY SendTypes DEF Funded
<1>3. minAmount > 0
  <2>1. TX_MIN_OUTPUT_AMOUNT \in Nat \ {0} /\ minAmount >= TX_MIN_OUTPUT_AMOUNT
    BY UnitAssumption DEF SendInv, MinimumRead, Picking, Funded
  <2> QED
    BY <1>2, <2>1
<1>4. CASE ChangeIsWorthIt
  <2>1. Change = Surplus /\ Surplus > 0
    BY <1>2, <1>3, <1>4 DEF Change, ChangeIsWorthIt
  <2>2. FeePaid = feeAmount /\ OutputsPaid = Len(outputs) + 1
    BY <1>2, <2>1 DEF FeePaid, Surplus, OutputsPaid
  <2> QED
    BY <1>1, <1>2, <1>3, <2>2 DEF FeeWithChange
<1>5. CASE ~ChangeIsWorthIt
  <2>1. Change = 0 /\ Surplus < minAmount
    BY <1>2, <1>5 DEF Change, ChangeIsWorthIt
  <2>2. FeePaid = feeAmount + Surplus /\ OutputsPaid = Len(outputs)
    BY <1>2, <2>1 DEF FeePaid, Surplus, OutputsPaid
  <2>3. TxFee(feePerKb, Size(inputs, Len(outputs))) \in Nat
        /\ TxFee(feePerKb, Size(inputs, Len(outputs))) <= FeeWithChange(inputs)
    <3>1. /\ Size(inputs, Len(outputs)) \in Nat
          /\ Size(inputs, Len(outputs)) <= Size(inputs, Len(outputs) + 1)
      BY <1>2, SizeFacts
    <3>2. Size(inputs, Len(outputs) + 1) \in Nat
      <4>1. inputs \in Nat /\ Len(outputs) + 1 \in Nat
        BY <1>2
      <4> QED
        BY <4>1, SizeFacts
    <3>3. feePerKb \in Nat
      BY AmountFacts DEF SendInv
    <3> QED
      BY <3>1, <3>2, <3>3, TxFeeFacts DEF FeeWithChange
  <2> QED
    BY <1>1, <1>2, <2>1, <2>2, <2>3
<1> QED
  BY <1>4, <1>5

(* Whatever coins the wallet has and whatever the fee rate is, a           *)
(* transaction pays at least the fee for its size, exceeds it by less than *)
(* the rounding and a remainder not worth an output, fits the size limit   *)
(* of the network and has no output that is uneconomical to spend, but for *)
(* those asked for.                                                        *)
THEOREM AlwaysWellBuilt == Spec => []WellBuilt
<1>1. SendInv => WellBuilt
  BY FeeRight DEF WellBuilt
<1> QED
  BY <1>1, SendInvariance, PTL

(* The last amount of a list and what the list comes to.                   *)
LEMMA LastAmount ==
  ASSUME NEW s \in Seq(Nat), s # <<>>
  PROVE  /\ s[Len(s)] \in Nat /\ s[Len(s)] <= Total(s) /\ Total(s) \in Nat
         /\ \A r \in Seq(Nat) :
              Len(r) = Len(s) /\ (\A k \in 1..(Len(s) - 1) : r[k] = s[k])
                => Total(r) - r[Len(s)] = Total(s) - s[Len(s)]
<1> DEFINE n == Len(s)
<1>1. s \in Seq(Int) /\ n \in Nat /\ n \in 1..n /\ n - 1 \in 0..n /\ s[n] \in Nat
  <2>1. s \in Seq(Int) /\ n \in Nat /\ n > 0
    OBVIOUS
  <2> HIDE DEF n
  <2>2. n \in 1..n /\ n - 1 \in 0..n
    BY <2>1
  <2> QED
    BY <2>1, <2>2 DEF n
<1>2. Total(s) = PartialSums(s)[n - 1] + s[n]
  BY <1>1, PartialSumsDef DEF Total
<1>3. PartialSums(s)[n - 1] \in Nat
  BY <1>1, PartialSumsType
<1>4. ASSUME NEW r \in Seq(Nat), Len(r) = n, \A k \in 1..(n - 1) : r[k] = s[k]
      PROVE  Total(r) - r[n] = Total(s) - s[n]
  <2>1. r \in Seq(Int) /\ r[n] \in Nat
    BY <1>1, <1>4
  <2> HIDE DEF n
  <2>2. Total(r) = PartialSums(r)[n - 1] + r[n]
    BY <1>1, <1>4, <2>1, PartialSumsDef DEF Total
  <2>3. PartialSums(r)[n - 1] = PartialSums(s)[n - 1]
    <3>1. n - 1 \in 0..Len(s) /\ n - 1 <= Len(r) /\ n - 1 \in 0..(n - 1)
      BY <1>1, <1>4 DEF n
    <3>2. \A k \in 0..(n - 1) : PartialSums(s)[k] = PartialSums(r)[k]
      BY <1>1, <1>4, <2>1, <3>1, PartialSumsAgree
    <3> QED
      BY <3>1, <3>2
  <2> QED
    BY <1>1, <1>2, <1>3, <2>1, <2>2, <2>3
<1> QED
  BY <1>1, <1>2, <1>3, <1>4

(* What is known where the decision about the last output is made.         *)
LEMMA Undecided ==
  ASSUME SendInv, pc = "select"
  PROVE  /\ {minAmount, feeAmount, balance, Amount, LastOutput} \subseteq Nat
         /\ outputs \in Seq(Nat) /\ outputs # <<>>
         /\ LastOutput <= Amount
         /\ balance # Amount + feeAmount
         /\ balance < Amount + feeAmount + minAmount
<1>1. {minAmount, feeAmount, balance, Amount} \subseteq Nat
  BY SendTypes
<1>2. outputs \in Seq(Nat) /\ Len(outputs) \in 1..Len(asked)
  BY DEF SendInv, TypeOK, OutputsAsAsked, Running
<1>3. outputs # <<>>
  BY <1>2
<1>4. LastOutput \in Nat /\ LastOutput <= Amount
  BY <1>2, <1>3, LastAmount DEF LastOutput, Amount
<1>5. ~Enough(balance, feeAmount)
  BY DEF SendInv, StopsInTime
<1> QED
  BY <1>1, <1>2, <1>3, <1>4, <1>5 DEF Enough

LEMMA ReducedFits ==
  ASSUME SendInv, ReduceLastOutput
  PROVE  \E amount \in (minAmount + 1)..(LastOutput + minAmount - 1) :
           /\ LastIs(amount)
           /\ Total(outputs') + feeAmount = balance
           /\ amount < LastOutput <=> balance < Amount + feeAmount
<1> DEFINE amount == LastOutput - (Amount + feeAmount - balance)
<1>1. pc = "select" /\ LastCanShrink /\ outputs' = [outputs EXCEPT ![Len(outputs)] = amount]
  BY DEF ReduceLastOutput, Call, LastOutput
<1>2. /\ {minAmount, feeAmount, balance, Amount, LastOutput} \subseteq Nat
      /\ outputs \in Seq(Nat) /\ outputs # <<>>
      /\ balance # Amount + feeAmount
      /\ balance < Amount + feeAmount + minAmount
  BY <1>1, Undecided
<1>3. /\ amount \in (minAmount + 1)..(LastOutput + minAmount - 1) /\ amount \in Nat
      /\ amount < LastOutput <=> balance < Amount + feeAmount
      /\ amount - LastOutput = balance - (Amount + feeAmount)
  <2>1. /\ minAmount \in Nat /\ feeAmount \in Nat /\ balance \in Nat /\ Amount \in Nat
        /\ LastOutput \in Nat
    BY <1>2
  <2>2. LastOutput > Amount + feeAmount + minAmount - balance
    BY <1>1 DEF LastCanShrink
  <2>3. amount \in Int /\ amount > minAmount /\ amount < LastOutput + minAmount
    BY <1>2, <2>1, <2>2
  <2>4. /\ amount < LastOutput <=> balance < Amount + feeAmount
        /\ amount - LastOutput = balance - (Amount + feeAmount)
    BY <2>1
  <2> HIDE DEF amount
  <2> QED
    BY <2>1, <2>3, <2>4
<1> HIDE DEF amount
<1>4. /\ outputs' \in Seq(Nat) /\ Len(outputs') = Len(outputs)
      /\ \A k \in 1..(Len(outputs) - 1) : outputs'[k] = outputs[k]
      /\ outputs'[Len(outputs)] = amount
  <2>1. Len(outputs) \in 1..Len(outputs)
    BY <1>2
  <2> QED
    BY <1>1, <1>2, <1>3, <2>1
<1>5. Total(outputs') - amount = Amount - LastOutput
  BY <1>2, <1>4, LastAmount DEF Amount, LastOutput
<1>6. Total(outputs') \in Nat
  BY <1>4, TotalType
<1>7. Total(outputs') + feeAmount = balance
  <2>1. feeAmount \in Nat /\ balance \in Nat /\ Amount \in Nat /\ LastOutput \in Nat
    BY <1>2
  <2> QED
    BY <1>3, <1>5, <1>6, <2>1
<1> QED
  BY <1>3, <1>4, <1>7 DEF LastIs

(* A transaction that would grow too large is made to fit by leaving out   *)
(* the last output or by giving it alone another amount, with which the    *)
(* outputs and the fee come to just what the coins picked are worth, which *)
(* is worth an output, and smaller than before unless these coins are      *)
(* worth more than outputs and fee by less than an output of change: also  *)
(* when the function has called itself before.                             *)
THEOREM AlwaysMadeToFit == Spec => MadeToFit
<1> DEFINE Fit ==
             pc = "select" /\ pc' \in {"begin", "aborted"} =>
               \/ outputs' = WithoutLast
               \/ \E amount \in (minAmount + 1)..(LastOutput + minAmount - 1) :
                    /\ LastIs(amount)
                    /\ Total(outputs') + feeAmount = balance
                    /\ amount < LastOutput <=> balance < Amount + feeAmount
<1>1. ASSUME SendInv, [Next]_vars  PROVE [Fit]_vars
  <2> SUFFICES ASSUME pc = "select", pc' \in {"begin", "aborted"}  PROVE Fit
    OBVIOUS
  <2>1. CASE ReduceLastOutput
    BY <1>1, <2>1, ReducedFits
  <2>2. CASE RemoveLastOutput
    BY <2>2 DEF RemoveLastOutput, Call
  <2>3. ~UNCHANGED vars /\ ~WalletChanges /\ ~Aborted /\ ~Start
    BY DEF vars, WalletChanges, Locked, Aborted, Start, FeeForTxAmount, CreateTxForOutputs
  <2>4. ~ReadMinAmount /\ ~Lock /\ ~SelectInput /\ ~GiveUp /\ ~Finish
        /\ ~FinishWithChange /\ ~AddChange
    BY DEF ReadMinAmount, Lock, SelectInput, GiveUp, Finish, FinishWithChange, AddChange, Return
  <2> QED
    BY <1>1, <2>1, <2>2, <2>3, <2>4 DEF Next, Continue
<1> HIDE DEF Fit
<1>2. Spec => [][Fit]_vars
  BY <1>1, SendInvariance, PTL DEF Spec
<1> QED
  BY <1>2 DEF MadeToFit, Fit

(* The largest amount the wallet says it can send finds the coins to pay   *)
(* for it and its fee, if a transaction has room for all coins.            *)
THEOREM MaxStaysSendable == Spec => []MaxSendable
<1>1. ASSUME SendInv, pc = "finish", asked = <<MaxOutputAmount>>, asked = outputs,
             MaxOutputAmount > 0
      PROVE  Funded
  <2> DEFINE fee == TxFee(feePerKb, Size(Len(utxos), 2))
  <2>1. /\ {minAmount, feeAmount, inputs, balance, Amount, ROUND} \subseteq Nat
        /\ Surplus \in Int /\ utxos \in Seq(Int) /\ Len(utxos) \in Nat
        /\ balance = PartialSums(utxos)[inputs]
    BY <1>1, SendTypes DEF SendInv, CoinsPicked, Locked
  <2>2. Total(utxos) \in Nat /\ fee \in Nat
    <3>1. feePerKb \in Nat /\ Total(utxos) \in Nat
      BY <1>1, AmountFacts DEF SendInv
    <3>2. Size(Len(utxos), 2) \in Nat
      BY <2>1, SizeFacts
    <3> QED
      BY <3>1, <3>2, TxFeeFacts
  <2>3. /\ MaxOutputAmount = Total(utxos) - fee
        /\ MaxOutputAmount \in Int
    BY <1>1, <2>2 DEF MaxOutputAmount, Larger
  <2>4. Amount = MaxOutputAmount /\ Len(outputs) + 1 = 2
    <3>1. outputs = Append(<<>>, MaxOutputAmount)
      BY <1>1
    <3>2. \A s \in Seq(Int) : s = <<>> =>
             Total(s) = 0 /\ Total(Append(s, MaxOutputAmount)) = Total(s) + MaxOutputAmount
      BY <2>3, TotalType, TotalAppend
    <3>3. <<>> \in Seq(Int)
      OBVIOUS
    <3>4. Total(<<>>) = 0
          /\ Total(Append(<<>>, MaxOutputAmount)) = Total(<<>>) + MaxOutputAmount
      BY <3>2, <3>3, Zenon
    <3>5. Total(outputs) = 0 + MaxOutputAmount
      BY <3>1, <3>4, Zenon
    <3>6. Len(outputs) = 1
      BY <1>1
    <3> QED
      BY <2>3, <3>5, <3>6 DEF Amount
  <2>5. CASE Enough(balance, feeAmount)
    BY <1>1, <2>1, <2>5 DEF Enough, Funded, Surplus
  <2>6. CASE inputs = Len(utxos)
    <3>1. balance = Total(utxos) /\ FeeWithChange(inputs) = fee
      BY <2>1, <2>4, <2>6 DEF Total, FeeWithChange
    <3> HIDE DEF fee
    <3>2. ~(Total(utxos) > Amount + fee)
      BY <2>2, <2>3, <2>4
    <3>3. RoundedOff(fee) = fee
      BY <3>2 DEF RoundedOff
    <3>4. feeAmount = fee
      <4>1. feeAmount = IF inputs = 0 THEN FeeWithChange(inputs)
                        ELSE RoundedOff(FeeWithChange(inputs))
        BY <1>1 DEF SendInv, CoinsPicked, Locked
      <4> QED
        BY <3>1, <3>3, <4>1
    <3> QED
      BY <1>1, <2>2, <2>3, <2>4, <3>1, <3>4 DEF Funded, Surplus
  <2> QED
    BY <1>1, <2>5, <2>6 DEF SendInv, StopsInTime
<1>2. SendInv => MaxSendable
  BY <1>1 DEF MaxSendable
<1> QED
  BY <1>2, SendInvariance, PTL

(* Amounts are unsigned words: a number and any other that differs from it *)
(* by whole words are the same.                                            *)
LEMMA WordSubtracts ==
  ASSUME NEW M \in Nat \ {0}, NEW last \in 0..(M - 1), NEW d \in Int,
         d <= last, last - d < M, d > -M
  PROVE  (last - (d % M)) % M = last - d
<1>1. CASE d >= 0
  <2>1. d \in Nat /\ d \in 0..(M - 1)
    BY <1>1
  <2>2. d % M \in 0..(M - 1) /\ d \div M \in Int /\ M * (d \div M) + (d % M) = M * 0 + d
    BY <2>1, ModFacts
  <2>3. d % M = d
    BY <2>1, <2>2, DivUnique
  <2>4. last - d \in 0..(M - 1)
    BY <1>1
  <2>5. \A n \in 0..(M - 1) : n % M = n
    <3> SUFFICES ASSUME NEW n \in 0..(M - 1)  PROVE n % M = n
      OBVIOUS
    <3>1. n % M \in 0..(M - 1) /\ n \div M \in Int /\ M * (n \div M) + (n % M) = M * 0 + n
      BY ModFacts
    <3> QED
      BY <3>1, DivUnique
  <2> QED
    BY <2>3, <2>4, <2>5
<1>2. CASE d < 0
  <2>1. /\ d % M \in 0..(M - 1) /\ d \div M \in Int
        /\ M * (d \div M) + (d % M) = d
    OBVIOUS
  <2>2. d + M \in 0..(M - 1) /\ d = M * (-1) + (d + M)
    BY <1>2
  <2>3. d % M = d + M
    <3>1. M * (d \div M) + (d % M) = M * (-1) + (d + M) /\ -1 \in Int
      BY <2>1, <2>2
    <3> QED
      BY <2>1, <2>2, <3>1, DivUnique
  <2>4. last - (d % M) = (last - d) - M /\ last - d \in 0..(M - 1)
    BY <1>2, <2>3
  <2> DEFINE n == last - d
             r == n - M
  <2>5. n \in 0..(M - 1) /\ r \in Int /\ last - (d % M) = r
    BY <2>4
  <2> HIDE DEF n
  <2>6. r % M \in 0..(M - 1) /\ r \div M \in Int /\ M * (r \div M) + (r % M) = r
    BY <2>5
  <2>7. M * (r \div M) + (r % M) = M * (-1) + n /\ -1 \in Int
    BY <2>5, <2>6
  <2> HIDE DEF r
  <2>8. r % M = n
    BY <2>5, <2>6, <2>7, DivUnique
  <2> QED
    BY <2>5, <2>8 DEF n
<1> QED
  BY <1>1, <1>2

(* The places where unsigned amounts are subtracted: what decides about    *)
(* the last output is not negative, neither is the change, and although    *)
(* amount + feeAmount - balance can be negative and then wraps around, the *)
(* last output less that wraps back and is what was meant, at least one.   *)
Subtractions(M) ==
  /\ pc = "select" => Amount + feeAmount + minAmount - balance \in 0..(M - 1)
  /\ pc = "finish" /\ Surplus >= 0 => Surplus \in 0..(M - 1)
  /\ pc = "select" /\ LastCanShrink =>
       LET missing == Amount + feeAmount - balance
       IN /\ (LastOutput - (missing % M)) % M = LastOutput - missing
          /\ LastOutput - missing \in 1..(M - 1)

(* With words of M values the subtractions give the numbers they mean,     *)
(* whatever is negative on the way, if the coins picked and what they have *)
(* to pay for fit into words (the end of BitWalletCreateTxForOutputs).     *)
THEOREM SubtractionsExact ==
  ASSUME NEW M \in Nat \ {0}
  PROVE  Spec => [](Amount + feeAmount + minAmount < M /\ balance < M => Subtractions(M))
<1>1. ASSUME SendInv, Amount + feeAmount + minAmount < M, balance < M
      PROVE  Subtractions(M)
  <2>1. minAmount \in Nat /\ feeAmount \in Nat /\ balance \in Nat /\ Amount \in Nat
    BY <1>1, SendTypes
  <2>2. pc = "finish" /\ Surplus >= 0 => Surplus \in 0..(M - 1)
    BY <1>1, <2>1 DEF Surplus
  <2>3. ASSUME pc = "select"
        PROVE  Amount + feeAmount + minAmount - balance \in 0..(M - 1)
    BY <1>1, <2>1, <2>3, Undecided
  <2>4. ASSUME pc = "select", LastCanShrink,
               NEW missing, missing = Amount + feeAmount - balance
        PROVE  /\ (LastOutput - (missing % M)) % M = LastOutput - missing
               /\ LastOutput - missing \in 1..(M - 1)
    <3>1. /\ LastOutput \in Nat /\ LastOutput <= Amount
          /\ LastOutput > Amount + feeAmount + minAmount - balance
      BY <1>1, <2>4, Undecided DEF LastCanShrink
    <3>2. /\ missing \in Int /\ missing < LastOutput /\ missing > -M
          /\ LastOutput - missing < M /\ LastOutput \in 0..(M - 1)
      BY <1>1, <2>1, <2>4, <3>1
    <3>3. LastOutput - missing \in 1..(M - 1)
      BY <3>1, <3>2
    <3> QED
      BY <3>2, <3>3, WordSubtracts
  <2> QED
    BY <2>2, <2>3, <2>4 DEF Subtractions
<1> QED
  BY <1>1, SendInvariance, PTL
=============================================================================
