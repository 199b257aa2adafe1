---------------------------- MODULE LedgerProofs ----------------------------
(***************************************************************************)
(* FarmPayments implements PayoutLedger.  The step of the ledger is        *)
(* UpdateThresholdStatus; sendmany and all the steps before and after      *)
(* change nothing the ledger speaks of.                                    *)
(*                                                                         *)
(* The second part is about sums: the wallet holds what the books say, so  *)
(* that the balance check only ever misses fees and lost payments.         *)
(***************************************************************************)
EXTENDS FarmPaymentsProofs, SumProofs

Due(k) == acc[k] + dest[k]

(* What the loop decided for a key it has visited.                         *)
Decided(k) ==
  \/ /\ Due(k) >= Threshold
     /\ payFor[k] = Due(k) - (Due(k) % Satoshi) /\ payFor[k] > 0
     /\ toUpdate[k] = Due(k) % Satoshi
  \/ /\ payFor[k] = 0
     /\ toUpdate[k] = Due(k)
     /\ k \in Direct => Due(k) < Threshold

SettleInv ==
  /\ \A b \in Address \ Keys : payFor[b] = 0
  /\ pc \in {"filter", "send", "update"} =>
       /\ dest \in Complete(cur)
       /\ \A k \in Keys : Visited(k) => Decided(k)

LedgerInv == BooksInv /\ RowInv /\ SettleInv

LEMMA SettleReturn ==
  ASSUME Return PROVE SettleInv'
BY DEF SettleInv, Return, ClearBatch, Zero

LEMMA SettleFilter ==
  ASSUME NoSharedPayout, LedgerInv, NEW a \in Keys, FilterAddress(a)
  PROVE  SettleInv'
<1> USE DEF FilterAddress, FilterStep
<1>1. a \in Address /\ a # None /\ a \notin Direct \cap Owners
  BY SetsAssumption DEF Address
<1>2. slot[Entry(a)] \in {a, None}
  BY EntryIsOwn DEF LedgerInv, BooksInv
<1>3. Accumulated(a) = Due(a)
  <2>1. Redirected(a) => payout[a] \in Address \ Keys
    BY DEF Redirected, LedgerInv, BooksInv, TypeOK, NoSharedPayout
  <2>2. Redirected(a) => acc[payout[a]] = 0
    BY <2>1 DEF LedgerInv, BooksInv, OnlyKeysAccumulate
  <2> QED
    BY <1>1, <2>2 DEF Accumulated, Due, LedgerInv, BooksInv, TypeOK
<1>4. Due(a) \in Nat /\ Due(a)' = Due(a)
  BY <1>1 DEF Due, LedgerInv, BooksInv, TypeOK
<1>5. toUpdate'[a] = Kept(a) /\ payFor'[a] = Sent(a)
  BY <1>1
<1>6. Decided(a)'
  <2>1. CASE Reached(a)
    <3>1. Due(a) >= Threshold
      BY <1>3, <2>1 DEF Reached
    <3>2. Due(a) % Satoshi \in Nat /\ Due(a) % Satoshi < Satoshi
      BY <1>4, Remainder
    <3>3. Due(a) - (Due(a) % Satoshi) > 0
      BY <1>4, <3>1, <3>2, AmountsAssumption
    <3> QED
      BY <1>3, <1>4, <1>5, <2>1, <3>1, <3>3 DEF Decided, Kept, Sent, Dust
  <2>2. CASE ~Reached(a)
    <3>1. a \in Direct => Due(a) < Threshold
      BY <1>1, <1>3, <1>4, <2>2, AmountsAssumption DEF Reached, Target, Redirected
    <3> QED
      BY <1>3, <1>4, <1>5, <2>2, <3>1 DEF Decided, Kept, Sent
  <2> QED
    BY <2>1, <2>2
<1>7. ASSUME NEW k \in Keys, k # a, Visited(k)' PROVE Decided(k)'
  <2>1. k \in Address /\ Visited(k)
    BY <1>7 DEF Address, Visited
  <2>2. k \notin Zeroed(a)
    BY EntryIsOwn DEF LedgerInv, BooksInv
  <2>3. toUpdate'[k] = toUpdate[k]
    BY <1>7, <2>1, <2>2
  <2>4. payFor'[k] = payFor[k]
    BY <1>2, <1>7, <2>1, SetsAssumption
  <2>5. Decided(k)
    BY <2>1 DEF LedgerInv, SettleInv
  <2> QED
    BY <2>3, <2>4, <2>5 DEF Decided, Due
<1>8. \A b \in Address \ Keys : payFor'[b] = 0
  BY DEF LedgerInv, SettleInv
<1>9. dest' \in Complete(cur')
  BY DEF LedgerInv, SettleInv
<1>10. Complete(cur') = Complete(cur)' /\ Complete(cur)' = Complete(cur)
  BY DEF Complete
<1> QED
  BY <1>6, <1>7, <1>8, <1>9, <1>10 DEF SettleInv

LEMMA SettleUnchanged ==
  ASSUME SettleInv, UNCHANGED <<acc, cur, batch>>,
         \/ pc' = pc
         \/ pc' = "update" /\ pc = "send"
         \/ pc' \in {"idle", "farm", "save"}
  PROVE  SettleInv'
<1>1. \A k \in Keys : Visited(k)' = Visited(k) /\ Decided(k)' = Decided(k)
  BY DEF Visited, Decided, Due, batch
<1> QED
  BY <1>1 DEF SettleInv, batch, Complete

LEMMA LedgerInvStep ==
  ASSUME NoSharedPayout, OneOutputPerTransaction
  PROVE  LedgerInv /\ [Next]_vars => LedgerInv'
<1> SUFFICES ASSUME LedgerInv, [Next]_vars PROVE SettleInv'
  BY BooksStep, RowInvStep DEF LedgerInv
<1>0. SettleInv
  BY DEF LedgerInv
<1>1. CASE UNCHANGED vars
  BY <1>0, <1>1, SettleUnchanged DEF vars, db
<1>2. CASE Environment \/ SkipFarm
  BY <1>0, <1>1, <1>2, SettleUnchanged
  DEF Environment, Deposit, RegisterPayoutAddress, VerifyCollection, BumpFee, SkipFarm, db
<1>3. CASE ListUnspent \/ NothingToSend \/ SendMany \/ (\E u \in Utxos : SkipTx(u))
  BY <1>0, <1>3, SettleUnchanged DEF ListUnspent, NothingToSend, SendMany, SkipTx, db
<1>4. CASE Return
  BY <1>4, SettleReturn
<1>5. ASSUME NEW u \in Utxos, NEW d \in Shares, Distribute(u, d) PROVE SettleInv'
  <2>1. \A k \in Keys : ~Visited(k)'
    <3> TAKE k \in Keys
    <3>1. remaining' = {a \in Keys : d[a] > 0} /\ dest' = d
      BY <1>5 DEF Distribute
    <3> QED
      BY <3>1 DEF Visited
  <2>2. dest' \in Complete(cur')
    BY <1>5 DEF Distribute
  <2>3. payFor' = payFor
    BY <1>5 DEF Distribute
  <2> QED
    BY <1>0, <2>1, <2>2, <2>3 DEF SettleInv, Complete
<1>6. ASSUME NEW a \in Keys, FilterAddress(a) PROVE SettleInv'
  BY <1>6, SettleFilter
<1>7. CASE UpdateThresholdStatus
  BY <1>0, <1>7 DEF UpdateThresholdStatus, SettleInv, batch
<1>8. CASE SaveStatistics
  BY <1>8 DEF SaveStatistics, ClearBatch, SettleInv, Zero
<1>9. CASE Progress
  BY <1>3, <1>4, <1>5, <1>6, <1>7, <1>8, <1>9
  DEF Progress, FinishFarm, DistributionRefused, BalanceTooLow
<1>10. CASE Failure
  BY <1>4, <1>10 DEF Failure, ComputeFails, FilterFails, SendRejected, SendReplyLost,
                     UpdateFails, EndUnrecorded, SaveFails, Crash
<1> QED
  BY <1>1, <1>2, <1>9, <1>10 DEF Next

LEMMA LedgerInvInit == Init => LedgerInv
BY BooksInit, RowInvInit DEF LedgerInv, SettleInv, Init, Zero

-----------------------------------------------------------------------------
(* The refinement mapping. *)
Settled == {u \in Utxos : Processed(u)}
PaidOut == [k \in Address |-> IF pc = "update" THEN paid[k] - payFor[k] ELSE paid[k]]

LEMMA LedgerInitially == Init => PL!Init
<1> SUFFICES ASSUME Init PROVE PL!Init
  OBVIOUS
<1>1. Settled = {}
  BY DEF Init, Settled, Processed, TxIds
<1>2. PaidOut = [a \in Address |-> 0]
  BY DEF Init, PaidOut, Zero
<1> QED
  BY <1>1, <1>2 DEF Init, Zero, PL!Init, Settled, PaidOut

(* sendmany pays what the ledger has not accounted for yet.                *)
LEMMA SendIsSilent ==
  ASSUME LedgerInv, SendMany \/ NothingToSend
  PROVE  UNCHANGED <<Settled, acc, PaidOut>>
<1>1. pc = "send" /\ pc' = "update" /\ UNCHANGED <<utxoRows, acc, payFor>>
  BY DEF SendMany, NothingToSend, db, batch
<1>2. \A k \in Address : paid[k] \in Nat /\ payFor[k] \in Nat
  BY DEF LedgerInv, BooksInv, TypeOK
<1>3. \A k \in Address : paid'[k] - payFor[k] = paid[k]
  <2>1. CASE SendMany
    BY <1>2, <2>1 DEF SendMany, Broadcast
  <2>2. CASE NothingToSend
    BY <1>2, <2>2 DEF NothingToSend, AnyToSend, ghosts
  <2> QED
    BY <2>1, <2>2
<1> QED
  BY <1>1, <1>3 DEF Settled, Processed, PaidOut

(* UpdateThresholdStatus settles the output.                               *)
LEMMA UpdateSettles ==
  ASSUME NoSharedPayout, OneOutputPerTransaction, LedgerInv, UpdateThresholdStatus
  PROVE  PL!Next
<1> DEFINE P == {k \in Keys : Visited(k) /\ payFor[k] > 0}
<1>1. /\ pc = "update" /\ pc' = "save" /\ paid' = paid
      /\ utxoRows' = [utxoRows EXCEPT ![TxOf[cur]] = @ + 1]
      /\ acc' = [a \in Address |-> IF a \in touched \cap hasRow THEN toUpdate[a] ELSE acc[a]]
  BY DEF UpdateThresholdStatus
<1>2. TypeOK /\ cur \in Utxos /\ utxoRows[TxOf[cur]] = 0 /\ remaining = {}
  BY <1>1 DEF LedgerInv, RowInv, BooksInv, BatchInv, TypeOK
<1>3. dest \in Complete(cur) /\ dest \in Shares
  BY <1>1 DEF LedgerInv, SettleInv, Complete
<1>4. cur \notin Settled /\ Settled' = Settled \cup {cur}
  <2>1. \A u \in Utxos : TxOf[u] \in TxIds /\ utxoRows[TxOf[u]] \in Nat
    BY <1>2 DEF TypeOK, TxIds
  <2>2. \A u \in Utxos : Processed(u)' <=> Processed(u) \/ u = cur
    BY <1>1, <1>2, <2>1 DEF Processed, OneOutputPerTransaction, TypeOK
  <2> QED
    BY <1>2, <2>2 DEF Settled, Processed
<1>5. \A k \in Address : Due(k) \in Nat /\ paid[k] \in Nat /\ payFor[k] \in Nat
  BY <1>2 DEF TypeOK, Due
<1>6. ASSUME NEW k \in P
      PROVE  /\ k \in Address /\ dest[k] > 0 /\ Due(k) >= Threshold
             /\ acc'[k] = Due(k) % Satoshi
             /\ payFor[k] = Due(k) - (Due(k) % Satoshi)
  <2>1. k \in Address /\ dest[k] > 0
    BY DEF Address, Visited
  <2>2. Decided(k) /\ payFor[k] > 0
    BY <1>1 DEF LedgerInv, SettleInv
  <2>3. k \in touched \cap hasRow
    BY <1>1 DEF LedgerInv, BooksInv, BatchInv, Books
  <2> QED
    BY <1>1, <1>5, <2>1, <2>2, <2>3 DEF Decided
<1>7. ASSUME NEW k \in Address, k \notin P
      PROVE  acc'[k] = Due(k) /\ payFor[k] = 0 /\ (k \in Direct /\ dest[k] > 0 => Due(k) < Threshold)
  <2>1. CASE k \in Keys /\ dest[k] > 0
    <3>1. Visited(k) /\ payFor[k] = 0
      BY <1>2, <1>5, <1>7, <2>1 DEF Visited
    <3>2. Decided(k) /\ k \in touched \cap hasRow
      BY <1>1, <2>1, <3>1 DEF LedgerInv, SettleInv, BooksInv, BatchInv, Books
    <3> QED
      BY <1>1, <3>1, <3>2 DEF Decided
  <2>2. CASE k \in Keys /\ dest[k] = 0
    <3>1. k \notin touched /\ payFor[k] = 0
      BY <1>1, <2>2 DEF LedgerInv, BooksInv, BatchInv, Books, Visited
    <3> QED
      BY <1>1, <1>2, <2>2, <3>1 DEF Due, TypeOK
  <2>3. CASE k \notin Keys
    <3>1. dest[k] = 0 /\ k \notin Direct
      BY <1>3, <2>3, SharesAssumption DEF Keys
    <3>2. payFor[k] = 0
      BY <2>3 DEF LedgerInv, SettleInv
    <3>3. k \notin hasRow
      BY <1>2, <2>3 DEF TypeOK
    <3> QED
      BY <1>1, <1>2, <3>1, <3>2, <3>3 DEF Due, TypeOK
  <2>4. dest[k] \in Nat
    BY <1>2 DEF TypeOK
  <2> QED
    BY <2>1, <2>2, <2>3, <2>4
<1>8. acc' = [a \in Address |-> IF a \in P THEN Due(a) % Satoshi ELSE Due(a)]
  BY <1>1, <1>6, <1>7
<1>9. PaidOut' = [a \in Address |-> IF a \in P THEN PaidOut[a] + (Due(a) - (Due(a) % Satoshi))
                                              ELSE PaidOut[a]]
  <2>1. PaidOut' = paid
    BY <1>1, <1>2 DEF PaidOut, TypeOK
  <2>2. \A a \in Address : PaidOut[a] = paid[a] - payFor[a]
    BY <1>1 DEF PaidOut
  <2>3. ASSUME NEW a \in Address
        PROVE  paid[a] = IF a \in P THEN PaidOut[a] + (Due(a) - (Due(a) % Satoshi)) ELSE PaidOut[a]
    <3>1. CASE a \in P
      <4>1. payFor[a] = Due(a) - (Due(a) % Satoshi)
        BY <1>6, <3>1
      <4> HIDE DEF P
      <4> QED
        BY <1>5, <2>2, <3>1, <4>1
    <3>2. CASE a \notin P
      <4>1. payFor[a] = 0
        BY <1>7, <3>2
      <4> HIDE DEF P
      <4> QED
        BY <1>5, <2>2, <3>2, <4>1
    <3> QED
      BY <3>1, <3>2
  <2>4. paid = [a \in Address |-> paid[a]]
    BY <1>2 DEF TypeOK
  <2> HIDE DEF P
  <2> QED
    BY <2>1, <2>3, <2>4
<1>10. P \in SUBSET Address
  BY DEF Address
<1>11. PL!Settle(cur, dest, P)
  <2>1. dest \in [u \in Utxos |-> Complete(u)][cur]
    BY <1>2, <1>3
  <2>2. \A a \in P : dest[a] > 0 /\ Due(a) >= Threshold
    BY <1>6
  <2>3. \A a \in Direct \ P : dest[a] > 0 => Due(a) < Threshold
    BY <1>7 DEF Address, Keys
  <2> HIDE DEF P
  <2> QED
    BY <1>4, <1>8, <1>9, <2>1, <2>2, <2>3 DEF PL!Settle, PL!Due, Due, Settled, PaidOut
<1>12. dest \in [u \in Utxos |-> Complete(u)][cur]
  BY <1>2, <1>3
<1> QED
  <2> HIDE DEF P
  <2>1. \E Q \in SUBSET Address : PL!Settle(cur, dest, Q)
    BY <1>10, <1>11 DEF PL!Settle
  <2> QED
    BY <1>2, <1>12, <2>1 DEF PL!Next, PL!Settle

LEMMA LedgerStep ==
  ASSUME NoSharedPayout, OneOutputPerTransaction, RecordsReliably
  PROVE  LedgerInv /\ [Next]_vars => [PL!Next]_(PL!ledger)
<1> SUFFICES ASSUME LedgerInv, [Next]_vars
             PROVE  PL!Next \/ UNCHANGED <<Settled, acc, PaidOut>>
  BY DEF PL!ledger, Settled, PaidOut
<1>1. CASE UNCHANGED <<utxoRows, acc, paid>> /\ pc # "update" /\ pc' # "update"
  BY <1>1 DEF Settled, Processed, PaidOut
<1>2. CASE UNCHANGED <<utxoRows, acc, paid, payFor, pc>>
  BY <1>2 DEF Settled, Processed, PaidOut
<1>3. CASE UNCHANGED vars
  BY <1>2, <1>3 DEF vars, db, batch, ghosts
<1>4. CASE Environment \/ SkipFarm
  BY <1>2, <1>4 DEF Environment, Deposit, RegisterPayoutAddress, VerifyCollection, BumpFee,
                    SkipFarm, vars, db, batch, ghosts
<1>5. CASE Progress
  BY <1>1, <1>5, SendIsSilent, UpdateSettles
  DEF Progress, ListUnspent, FinishFarm, SkipTx, Distribute, DistributionRefused,
      FilterAddress, FilterStep, BalanceTooLow, SaveStatistics, Return, db, ghosts
<1>6. CASE Failure
  BY <1>1, <1>6
  DEF Failure, RecordsReliably, ComputeFails, FilterFails, SendRejected, SendReplyLost,
      UpdateFails, EndUnrecorded, SaveFails, Crash, Return, db, ghosts
<1> QED
  BY <1>3, <1>4, <1>5, <1>6 DEF Next

(* If nothing fails between sendmany and the record of it, and no payout   *)
(* address is shared, every farm's payments implement the ledger: each     *)
(* deposit is settled at most once, entirely, with payments of whole       *)
(* satoshis at or above the threshold only.                                *)
THEOREM LedgerImplemented ==
  ASSUME NoSharedPayout, OneOutputPerTransaction, RecordsReliably
  PROVE  Spec => ImplementsLedger
<1>1. LedgerInv /\ [Next]_vars => LedgerInv'
  BY LedgerInvStep
<1>2. LedgerInv /\ [Next]_vars => [PL!Next]_(PL!ledger)
  BY LedgerStep
<1> QED
  BY <1>1, <1>2, LedgerInvInit, LedgerInitially, PTL DEF Spec, ImplementsLedger, PL!Spec

-----------------------------------------------------------------------------
(* The addresses a key may be paid at, and: no distribution names two keys *)
(* that may be paid at one address.  NoSharedPayout is more than that.     *)
Places(a) == {a} \cup (IF a \in Owners THEN PayoutChoices[a] ELSE {})

PaidApart ==
  \A d \in Shares : \A a, b \in Keys :
    a # b /\ d[a] > 0 /\ d[b] > 0 => Places(a) \cap Places(b) = {}

Named == {a \in Keys : dest[a] > 0}
Seen  == Named \ remaining

(* What the loop has put into its maps belongs to the keys it has seen.    *)
SeenOnly ==
  /\ \A k \in touched : \E a \in Seen : k \in Places(a)
  /\ \A t \in Address : slot[t] # None => slot[t] \in Seen /\ t \in Places(slot[t])
  /\ \A k \in Address : payFor[k] > 0 => k \in Seen

(* What is kept and what is to be sent is what was accumulated and what    *)
(* the distribution adds, over all keys seen so far.                       *)
Balanced ==
  SumFunctionOnSet(toUpdate, touched) + Total(payFor)
    = SumFunctionOnSet(acc, touched) + SumFunctionOnSet(dest, Seen)

AccumulatedInRows == \A a \in Address : acc[a] > 0 => a \in hasRow

ProcessedArrived == \A u \in Utxos : Processed(u) => u \in arrived

CallArrived == todo \subseteq arrived /\ (cur # None => cur \in arrived)

FilterInv ==
  /\ pc \in {"idle", "farm"} =>
       touched = {} /\ payFor = Zero /\ slot = [a \in Address |-> None]
  /\ pc \in {"filter", "send", "update"} =>
       /\ dest \in Complete(cur)
       /\ remaining \subseteq Named
       /\ pc # "filter" => remaining = {}
       /\ SeenOnly /\ Balanced

SumsInv ==
  /\ RowInv /\ NoUpdateWithoutRow /\ AccumulatedInRows
  /\ CallArrived /\ ProcessedArrived
  /\ FilterInv

-----------------------------------------------------------------------------
(* The assumption of RewardsSafe is stronger.                              *)
LEMMA NoSharedPayoutApart == ASSUME NoSharedPayout PROVE PaidApart
<1> SUFFICES ASSUME NEW d \in Shares, NEW a \in Keys, NEW b \in Keys, a # b
             PROVE  Places(a) \cap Places(b) = {}
  BY DEF PaidApart
<1> QED
  BY DEF Places, NoSharedPayout

LEMMA FiniteAddresses ==
  ASSUME TypeOK, NEW A \in SUBSET Address PROVE IsFiniteSet(A)
BY SetsAssumption, FS_Subset

LEMMA FiniteCoins ==
  ASSUME NEW S \in SUBSET Utxos
  PROVE  IsFiniteSet(S) /\ Coins(S) \in Nat /\ \A u \in S : Amount[u] \in Nat
<1>1. IsFiniteSet(S) /\ \A u \in S : Amount[u] \in Nat
  BY SetsAssumption, FS_Subset, AmountsAssumption
<1> QED
  BY <1>1, SumNat DEF Coins

LEMMA CoinsAdd ==
  ASSUME NEW S \in SUBSET Utxos, NEW u \in Utxos, u \notin S
  PROVE  Coins(S \cup {u}) = Amount[u] + Coins(S) /\ Amount[u] \in Nat
<1>1. IsFiniteSet(S) /\ \A v \in S \cup {u} : Amount[v] \in Int
  BY FiniteCoins, AmountsAssumption
<1>2. SumFunctionOnSet(Amount, S \cup {u}) = Amount[u] + SumFunctionOnSet(Amount, S)
  BY <1>1, SumAdd
<1> QED
  BY <1>2, AmountsAssumption DEF Coins

(* One iteration of the loop keeps the sums balanced: none of the          *)
(* addresses it touches was touched before.                                *)
LEMMA SumsFilter ==
  ASSUME PaidApart, SumsInv, NEW a \in Keys, FilterAddress(a)
  PROVE  FilterInv'
<1> USE DEF FilterAddress, FilterStep
<1> DEFINE Z == Zeroed(a)
<1>0. /\ TypeOK /\ pc = "filter" /\ a \in remaining /\ a \in Address /\ a # None /\ None \notin Address
      /\ dest \in Shares /\ dest \in Complete(cur) /\ remaining \subseteq Named /\ SeenOnly /\ Balanced
  BY SetsAssumption DEF SumsInv, RowInv, FilterInv, Address, Complete
<1>1. /\ Kept(a) \in Nat /\ Sent(a) \in Nat /\ Kept(a) + Sent(a) = Accumulated(a)
      /\ Z \subseteq Address /\ Entry(a) \in Address
  BY <1>0, FilterTypes
<1>2. Entry(a) \in Places(a) /\ Z \subseteq Places(a) /\ a \in Places(a) /\ a \notin Z
  <2>1. Redirected(a) => a \in Owners /\ payout[a] \in PayoutChoices[a] /\ payout[a] # a
    BY <1>0, SetsAssumption DEF Redirected, TypeOK
  <2> QED
    BY <2>1 DEF Places, Entry, Target, Zeroed
<1>3. \A b \in Seen : Places(a) \cap Places(b) = {}
  <2> SUFFICES ASSUME NEW b \in Seen PROVE Places(a) \cap Places(b) = {}
    OBVIOUS
  <2>1. a \in Keys /\ b \in Keys /\ a # b /\ dest[a] > 0 /\ dest[b] > 0
    BY <1>0 DEF Seen, Named
  <2> QED
    BY <1>0, <2>1 DEF PaidApart
<1>4. /\ \A k \in Places(a) : k \notin touched
      /\ slot[Entry(a)] = None /\ payFor[a] = 0
  <2>1. \A k \in Places(a) : k \notin touched
    BY <1>0, <1>3 DEF SeenOnly
  <2>2. slot[Entry(a)] = None
    BY <1>0, <1>1, <1>2, <1>3 DEF SeenOnly
  <2>3. payFor[a] = 0
    BY <1>0 DEF SeenOnly, Seen, TypeOK
  <2> QED
    BY <2>1, <2>2, <2>3
<1>5. Seen' = Seen \cup {a} /\ a \notin Seen
  BY <1>0 DEF Seen, Named
<1>6. /\ toUpdate' = [k \in Address |-> IF k = a THEN Kept(a) ELSE IF k \in Z THEN 0 ELSE toUpdate[k]]
      /\ payFor' = [k \in Address |-> IF k = a THEN Sent(a) ELSE payFor[k]]
      /\ touched' = touched \cup {a} \cup Z
  BY <1>0, <1>4
<1>7. SeenOnly'
  <2>1. \A k \in touched' : \E b \in Seen' : k \in Places(b)
    BY <1>0, <1>2, <1>5, <1>6 DEF SeenOnly
  <2>2. \A t \in Address : slot'[t] # None => slot'[t] \in Seen' /\ t \in Places(slot'[t])
    <3>1. slot' = [slot EXCEPT ![Entry(a)] = a] /\ slot \in [Address -> Keys \cup {None}]
      BY <1>0 DEF TypeOK
    <3> QED
      BY <1>0, <1>2, <1>5, <3>1 DEF SeenOnly
  <2>3. \A k \in Address : payFor'[k] > 0 => k \in Seen'
    BY <1>0, <1>5, <1>6 DEF SeenOnly
  <2> QED
    BY <2>1, <2>2, <2>3 DEF SeenOnly, Places
<1>8. Balanced'
  <2>1. /\ IsFiniteSet(Address) /\ IsFiniteSet(touched) /\ IsFiniteSet(touched \cup {a}) /\ IsFiniteSet(Seen)
        /\ touched \subseteq Address /\ Seen \subseteq Address
    <3>1. touched \subseteq Address /\ Seen \subseteq Address /\ touched \cup {a} \subseteq Address
      BY <1>0 DEF TypeOK, Seen, Named, Address
    <3> QED
      BY <1>0, <3>1, SetsAssumption, FiniteAddresses
  <2>2. \A k \in Address : /\ acc[k] \in Nat /\ dest[k] \in Nat /\ toUpdate[k] \in Nat /\ payFor[k] \in Nat
                           /\ toUpdate'[k] \in Nat /\ payFor'[k] \in Nat
    BY <1>0, <1>1, <1>6 DEF TypeOK
  <2>3. SumFunctionOnSet(toUpdate', touched) = SumFunctionOnSet(toUpdate, touched)
    <3>1. \A k \in touched : toUpdate'[k] = toUpdate[k] /\ toUpdate'[k] \in Int
      BY <1>2, <1>4, <1>6, <2>1, <2>2
    <3> QED
      BY <2>1, <3>1, SumEqual
  <2>4. Total(payFor') = Total(payFor) + payFor'[a] - payFor[a] /\ payFor'[a] = Sent(a) /\ payFor[a] = 0
    <3>1. /\ \A k \in Address : payFor[k] \in Int /\ payFor'[k] \in Int
          /\ \A k \in Address \ {a} : payFor'[k] = payFor[k]
          /\ payFor'[a] = Sent(a) /\ payFor[a] = 0
      BY <1>0, <1>4, <1>6, <2>2
    <3>2. a \in Address /\ IsFiniteSet(Address)
      BY <1>0, <2>1
    <3> HIDE DEF FilterAddress, FilterStep
    <3>3. SumFunctionOnSet(payFor', Address) = SumFunctionOnSet(payFor, Address) + payFor'[a] - payFor[a]
      BY <3>1, <3>2, SumExcept
    <3> QED
      BY <3>1, <3>3 DEF Total
  <2>5. SumFunctionOnSet(dest, Seen') = dest[a] + SumFunctionOnSet(dest, Seen)
    <3>1. \A k \in Seen \cup {a} : dest[k] \in Int
      BY <1>0, <2>1, <2>2
    <3> QED
      BY <1>5, <2>1, <3>1, SumAdd
  <2>6. /\ SumFunctionOnSet(toUpdate', touched \cup {a}) = Kept(a) + SumFunctionOnSet(toUpdate', touched)
        /\ SumFunctionOnSet(acc, touched \cup {a}) = acc[a] + SumFunctionOnSet(acc, touched)
    <3>1. \A k \in touched \cup {a} : toUpdate'[k] \in Int /\ acc[k] \in Int
      BY <1>0, <2>1, <2>2
    <3>2. a \notin touched /\ toUpdate'[a] = Kept(a)
      BY <1>0, <1>2, <1>4, <1>6
    <3> QED
      BY <2>1, <3>1, <3>2, SumAdd
  <2> DEFINE kept == SumFunctionOnSet(toUpdate, touched)
             had  == SumFunctionOnSet(acc, touched)
             new  == SumFunctionOnSet(dest, Seen)
             send == Total(payFor)
  <2>a. kept \in Nat /\ had \in Nat /\ new \in Nat /\ send \in Nat
    BY <2>1, <2>2, SumNat DEF Total
  <2>b. kept + send = had + new
    BY <1>0 DEF Balanced
  <2>c. acc' = acc /\ dest' = dest
    OBVIOUS
  <2>7. CASE Redirected(a)
    <3> DEFINE z == payout[a]
    <3>1. /\ Z = {z} /\ z \notin touched \cup {a} /\ z \in Address
          /\ touched' = (touched \cup {a}) \cup {z} /\ toUpdate'[z] = 0
          /\ Accumulated(a) = acc[a] + acc[z] + dest[a]
      BY <1>1, <1>2, <1>4, <1>6, <2>7 DEF Zeroed, Accumulated
    <3>2. /\ SumFunctionOnSet(toUpdate', touched') = 0 + SumFunctionOnSet(toUpdate', touched \cup {a})
          /\ SumFunctionOnSet(acc, touched') = acc[z] + SumFunctionOnSet(acc, touched \cup {a})
      <4>1. \A k \in (touched \cup {a}) \cup {z} : toUpdate'[k] \in Int /\ acc[k] \in Int
        BY <1>0, <2>1, <2>2, <3>1
      <4> HIDE DEF z
      <4> QED
        BY <2>1, <3>1, <4>1, SumAdd
    <3>3. /\ SumFunctionOnSet(toUpdate', touched') = Kept(a) + kept
          /\ SumFunctionOnSet(acc, touched') = acc[z] + (acc[a] + had)
          /\ Kept(a) \in Nat /\ acc[z] \in Nat /\ acc[a] \in Nat
      BY <1>0, <1>1, <2>a, <2>2, <2>3, <2>6, <3>1, <3>2
    <3> HIDE DEF kept, had, new, send, z
    <3>4. (Kept(a) + kept) + (send + Sent(a)) = (acc[z] + (acc[a] + had)) + (dest[a] + new)
      BY <1>0, <1>1, <2>a, <2>b, <2>2, <3>1, <3>3
    <3>5. /\ Total(payFor') = send + Sent(a)
          /\ SumFunctionOnSet(dest, Seen') = dest[a] + new
      BY <1>1, <2>4, <2>5, <2>a DEF send, new
    <3> QED
      BY <2>c, <3>3, <3>4, <3>5 DEF Balanced, Total
  <2>8. CASE ~Redirected(a)
    <3>1. Z = {} /\ touched' = touched \cup {a} /\ Accumulated(a) = acc[a] + dest[a]
      BY <1>0, <1>6, <2>2, <2>8 DEF Zeroed, Accumulated
    <3>3. /\ SumFunctionOnSet(toUpdate', touched') = Kept(a) + kept
          /\ SumFunctionOnSet(acc, touched') = acc[a] + had
          /\ Kept(a) \in Nat /\ acc[a] \in Nat
      BY <1>0, <1>1, <2>2, <2>3, <2>6, <3>1
    <3> HIDE DEF kept, had, new, send
    <3>4. (Kept(a) + kept) + (send + Sent(a)) = (acc[a] + had) + (dest[a] + new)
      BY <1>0, <1>1, <2>a, <2>b, <2>2, <3>1, <3>3
    <3>5. /\ Total(payFor') = send + Sent(a)
          /\ SumFunctionOnSet(dest, Seen') = dest[a] + new
      BY <1>1, <2>4, <2>5, <2>a DEF send, new
    <3> QED
      BY <2>c, <3>3, <3>4, <3>5 DEF Balanced, Total
  <2> QED
    BY <2>7, <2>8
<1>9. dest' \in Complete(cur') /\ Complete(cur') = Complete(cur)'
  BY <1>0 DEF Complete
<1>10. /\ remaining' \subseteq Named' /\ (pc' # "filter" => remaining' = {})
       /\ pc' \notin {"idle", "farm"}
  BY <1>0 DEF Named
<1> QED
  BY <1>7, <1>8, <1>9, <1>10 DEF FilterInv

LEMMA SumsUnchanged ==
  ASSUME FilterInv, UNCHANGED <<acc, cur, batch>>,
         \/ pc' = pc
         \/ pc' = "update" /\ pc = "send"
         \/ pc' = "farm" /\ pc = "idle"
  PROVE  FilterInv'
<1>1. Seen' = Seen /\ Named' = Named /\ (SeenOnly => SeenOnly') /\ (Balanced => Balanced')
  BY DEF Seen, Named, SeenOnly, Balanced, Total, batch
<1> QED
  BY <1>1 DEF FilterInv, batch, Complete

LEMMA FilterReturn ==
  ASSUME Return PROVE FilterInv'
BY DEF FilterInv, Return, ClearBatch

LEMMA FilterInvStep ==
  ASSUME PaidApart
  PROVE  SumsInv /\ [Next]_vars => FilterInv'
<1> SUFFICES ASSUME SumsInv, [Next]_vars PROVE FilterInv'
  OBVIOUS
<1>0. FilterInv /\ TypeOK
  BY DEF SumsInv, RowInv
<1>1. CASE UNCHANGED vars
  BY <1>0, <1>1, SumsUnchanged DEF vars, db
<1>2. CASE Environment \/ SkipFarm
  BY <1>0, <1>1, <1>2, SumsUnchanged
  DEF Environment, Deposit, RegisterPayoutAddress, VerifyCollection, BumpFee, SkipFarm, db
<1>3. CASE ListUnspent \/ NothingToSend \/ SendMany \/ (\E u \in Utxos : SkipTx(u))
  BY <1>0, <1>3, SumsUnchanged DEF ListUnspent, NothingToSend, SendMany, SkipTx, db
<1>4. CASE Return
  BY <1>4, FilterReturn
<1>5. ASSUME NEW u \in Utxos, NEW d \in Shares, Distribute(u, d) PROVE FilterInv'
  <2>1. /\ touched' = {} /\ payFor' = Zero /\ slot' = [a \in Address |-> None]
        /\ dest' = d /\ remaining' = {a \in Keys : d[a] > 0} /\ toUpdate' = toUpdate
        /\ acc' = acc /\ cur' = u /\ pc' = "filter" /\ d \in Complete(u)
    BY <1>0, <1>5 DEF Distribute, FilterInv, db
  <2>2. Named' = remaining' /\ Seen' = {}
    BY <2>1 DEF Named, Seen
  <2>3. SeenOnly'
    BY <2>1 DEF SeenOnly, Zero
  <2>4. Balanced'
    <3>1. SumFunctionOnSet(toUpdate', {}) = 0 /\ SumFunctionOnSet(acc', {}) = 0
          /\ SumFunctionOnSet(dest', {}) = 0
      BY SumEmpty
    <3>2. SumFunctionOnSet(payFor', Address) = 0
      <4>1. IsFiniteSet(Address) /\ \A a \in Address : payFor'[a] = 0
        BY <2>1, SetsAssumption DEF Zero
      <4> QED
        BY <4>1, SumZero
    <3> QED
      BY <2>1, <2>2, <3>1, <3>2 DEF Balanced, Total
  <2> QED
    BY <2>1, <2>2, <2>3, <2>4 DEF FilterInv, Complete
<1>6. ASSUME NEW a \in Keys, FilterAddress(a) PROVE FilterInv'
  BY <1>6, SumsFilter
<1>7. CASE UpdateThresholdStatus
  BY <1>7 DEF UpdateThresholdStatus, FilterInv
<1>8. CASE SaveStatistics
  BY <1>8 DEF SaveStatistics, ClearBatch, FilterInv
<1>9. CASE Progress
  BY <1>3, <1>4, <1>5, <1>6, <1>7, <1>8, <1>9
  DEF Progress, FinishFarm, DistributionRefused, BalanceTooLow
<1>10. CASE Failure
  BY <1>4, <1>10 DEF Failure, ComputeFails, FilterFails, SendRejected, SendReplyLost,
                     UpdateFails, EndUnrecorded, SaveFails, Crash
<1> QED
  BY <1>1, <1>2, <1>9, <1>10 DEF Next

LEMMA AccumulatedStep ==
  ASSUME TypeOK, AccumulatedInRows, [Next]_vars PROVE AccumulatedInRows'
<1>1. CASE UNCHANGED acc /\ hasRow \subseteq hasRow'
  BY <1>1 DEF AccumulatedInRows
<1>2. CASE UpdateThresholdStatus
  BY <1>2 DEF UpdateThresholdStatus, AccumulatedInRows
<1>3. CASE Environment \/ SkipFarm \/ UNCHANGED vars
  BY <1>1, <1>3 DEF Environment, Deposit, RegisterPayoutAddress, VerifyCollection, BumpFee,
                    SkipFarm, vars, db
<1>4. CASE Progress
  BY <1>1, <1>2, <1>4
  DEF Progress, ListUnspent, FinishFarm, SkipTx, Distribute, DistributionRefused,
      FilterAddress, FilterStep, BalanceTooLow, NothingToSend, SendMany, SaveStatistics, db
<1>5. CASE Failure
  BY <1>1, <1>5
  DEF Failure, ComputeFails, FilterFails, SendRejected, SendReplyLost,
      UpdateFails, EndUnrecorded, SaveFails, Crash, db
<1> QED
  BY <1>3, <1>4, <1>5 DEF Next

LEMMA ArrivedStep ==
  ASSUME TypeOK, CallArrived, [Next]_vars PROVE CallArrived'
<1>1. CASE todo' \subseteq todo /\ cur' \in todo \cup {cur, None} /\ arrived \subseteq arrived'
  BY <1>1, SetsAssumption DEF CallArrived, TypeOK
<1>2. CASE ListUnspent
  BY <1>2 DEF ListUnspent, CallArrived, node, TypeOK
<1>3. CASE Environment \/ SkipFarm \/ UNCHANGED vars
  BY <1>1, <1>3 DEF Environment, Deposit, RegisterPayoutAddress, VerifyCollection, BumpFee,
                    SkipFarm, vars, node
<1>4. CASE Progress
  BY <1>1, <1>2, <1>4
  DEF Progress, FinishFarm, SkipTx, Distribute, DistributionRefused, Return,
      FilterAddress, FilterStep, BalanceTooLow, NothingToSend, SendMany, Broadcast,
      UpdateThresholdStatus, SaveStatistics, node
<1>5. CASE Failure
  BY <1>1, <1>5
  DEF Failure, ComputeFails, FilterFails, SendRejected, SendReplyLost, Broadcast,
      UpdateFails, EndUnrecorded, SaveFails, Crash, Return, node
<1> QED
  BY <1>3, <1>4, <1>5 DEF Next

LEMMA ProcessedArrivedStep ==
  ASSUME OneOutputPerTransaction, TypeOK, CallArrived, ProcessedArrived, [Next]_vars
  PROVE  ProcessedArrived'
<1>1. arrived \subseteq arrived'
  BY DEF Next, Environment, Deposit, RegisterPayoutAddress, VerifyCollection, BumpFee,
         SkipFarm, vars, node, Progress, ListUnspent, FinishFarm, SkipTx, Distribute,
         DistributionRefused, FilterAddress, FilterStep, BalanceTooLow, NothingToSend,
         SendMany, Broadcast, UpdateThresholdStatus, SaveStatistics, Failure, ComputeFails,
         FilterFails, SendRejected, SendReplyLost, UpdateFails, EndUnrecorded, SaveFails, Crash
<1>2. CASE utxoRows' = utxoRows
  BY <1>1, <1>2 DEF ProcessedArrived, Processed
<1>3. CASE /\ UpdateThresholdStatus
           /\ \A u \in Utxos : Processed(u)' <=> Processed(u) \/ TxOf[u] = TxOf[cur]
  <2>1. cur \in Utxos /\ cur \in arrived
    BY <1>3, SetsAssumption DEF UpdateThresholdStatus, TypeOK, CallArrived
  <2> QED
    BY <1>1, <1>3, <2>1 DEF ProcessedArrived, OneOutputPerTransaction
<1> QED
  BY <1>2, <1>3, ProcessedForever

LEMMA SumsStep ==
  ASSUME PaidApart, OneOutputPerTransaction
  PROVE  SumsInv /\ [Next]_vars => SumsInv'
BY RowInvStep, RowStep, AccumulatedStep, ArrivedStep, ProcessedArrivedStep, FilterInvStep
DEF SumsInv, RowInv

LEMMA SumsInit == Init => SumsInv
BY RowInvInit DEF Init, SumsInv, NoUpdateWithoutRow, AccumulatedInRows, CallArrived, FilterInv, Zero,
                  ProcessedArrived, Processed, TxIds

-----------------------------------------------------------------------------
(* The wallet and the books. *)
Pending == {u \in arrived : ~Processed(u)}

LEMMA BatchTotal ==
  ASSUME SumsInv, pc \in {"send", "update"}
  PROVE  /\ Distributed = SumFunctionOnSet(acc, touched) + Amount[cur]
         /\ SumFunctionOnSet(toUpdate, touched) \in Nat /\ ToSend \in Nat
         /\ SumFunctionOnSet(acc, touched) \in Nat /\ Amount[cur] \in Nat
<1>1. TypeOK /\ dest \in Complete(cur) /\ Seen = Named /\ Balanced /\ cur \in Utxos
  BY DEF SumsInv, RowInv, FilterInv, Seen, TypeOK
<1>2. /\ IsFiniteSet(Address) /\ IsFiniteSet(touched) /\ Named \in SUBSET Address
      /\ \A k \in Address : acc[k] \in Nat /\ toUpdate[k] \in Nat /\ payFor[k] \in Nat /\ dest[k] \in Nat
      /\ touched \subseteq Address
  BY <1>1, SetsAssumption, FS_Subset DEF TypeOK, Named, Address
<1>3. \A k \in Address \ Named : dest[k] = 0
  BY <1>1, <1>2, SharesAssumption DEF Named, Complete
<1>4. SumFunctionOnSet(dest, Address) = SumFunctionOnSet(dest, Named)
  BY <1>2, <1>3, SumSupport
<1>5. SumFunctionOnSet(dest, Address) = Amount[cur]
  BY <1>1 DEF Complete, Total
<1>6. /\ SumFunctionOnSet(toUpdate, touched) \in Nat /\ SumFunctionOnSet(acc, touched) \in Nat
      /\ ToSend \in Nat
  BY <1>2, SumNat DEF ToSend, Total
<1>7. Amount[cur] \in Nat
  BY <1>1, AmountsAssumption
<1> QED
  BY <1>1, <1>4, <1>5, <1>6, <1>7 DEF Distributed, Balanced, ToSend

LEMMA PendingCoins ==
  ASSUME SumsInv
  PROVE  /\ Coins(Pending) \in Nat /\ Coins(unspent) \in Nat
         /\ Total(acc) \in Nat /\ ToSend \in Nat /\ InFlight \in Nat
         /\ pc \in {"filter", "send", "update"} =>
              cur \in Pending /\ Coins(Pending) = Amount[cur] + Coins(Pending \ {cur})
<1>1. TypeOK
  BY DEF SumsInv, RowInv
<1>2. Pending \in SUBSET Utxos /\ unspent \in SUBSET Utxos
  BY <1>1 DEF TypeOK, Pending
<1>3. Total(acc) \in Nat /\ ToSend \in Nat
  <2>1. IsFiniteSet(Address) /\ \A k \in Address : acc[k] \in Nat /\ payFor[k] \in Nat
    BY <1>1, SetsAssumption DEF TypeOK
  <2> QED
    BY <2>1, SumNat DEF Total, ToSend
<1>4. ASSUME pc \in {"filter", "send", "update"}
      PROVE  cur \in Pending /\ Coins(Pending) = Amount[cur] + Coins(Pending \ {cur})
  <2>1. cur \in Pending
    BY <1>1, <1>4 DEF TypeOK, SumsInv, CallArrived, RowInv, Processed, Pending
  <2> QED
    BY <1>2, <2>1, FiniteCoins, SumRemove DEF Coins
<1> QED
  BY <1>2, <1>3, <1>4, FiniteCoins DEF InFlight

(* UpdateThresholdStatus writes down what the distribution adds and what   *)
(* the payment takes.                                                      *)
LEMMA UpdateBalances ==
  ASSUME SumsInv, UpdateThresholdStatus
  PROVE  Total(acc') + ToSend = Total(acc) + Amount[cur]
<1>1. /\ TypeOK /\ pc = "update"
      /\ acc' = [a \in Address |-> IF a \in touched \cap hasRow THEN toUpdate[a] ELSE acc[a]]
  BY DEF SumsInv, RowInv, UpdateThresholdStatus
<1>2. /\ IsFiniteSet(Address) /\ IsFiniteSet(touched) /\ touched \in SUBSET Address
      /\ IsFiniteSet(Address \ touched)
      /\ \A k \in Address : acc[k] \in Nat /\ toUpdate[k] \in Nat /\ acc'[k] \in Nat
  BY <1>1, SetsAssumption, FS_Subset, FS_Difference DEF TypeOK
<1>3. \A k \in touched : acc'[k] = toUpdate[k]
  <2> TAKE k \in touched
  <2>1. CASE k \in hasRow
    BY <1>1, <1>2, <2>1
  <2>2. CASE k \notin hasRow
    BY <1>1, <1>2, <2>2 DEF SumsInv, AccumulatedInRows, NoUpdateWithoutRow
  <2> QED
    BY <2>1, <2>2
<1>4. \A k \in Address \ touched : acc'[k] = acc[k]
  BY <1>1
<1> DEFINE kept == SumFunctionOnSet(toUpdate, touched)
           had  == SumFunctionOnSet(acc, touched)
           rest == SumFunctionOnSet(acc, Address \ touched)
           sent == ToSend
           new  == Amount[cur]
<1>5. SumFunctionOnSet(acc', touched) = kept
  BY <1>2, <1>3, SumEqual
<1>6. SumFunctionOnSet(acc', Address \ touched) = rest
  BY <1>2, <1>4, SumEqual
<1>7. SumFunctionOnSet(acc', Address) = kept + rest
  <2>1. SumFunctionOnSet(acc', Address)
          = SumFunctionOnSet(acc', touched) + SumFunctionOnSet(acc', Address \ touched)
    BY <1>2, SumSplit
  <2> QED
    BY <1>5, <1>6, <2>1
<1>8. SumFunctionOnSet(acc, Address) = had + rest
  BY <1>2, SumSplit
<1>9. rest \in Nat
  BY <1>2, SumNat
<1>10. sent + kept = had + new /\ kept \in Nat /\ sent \in Nat /\ had \in Nat /\ new \in Nat
  BY <1>1, BatchTotal DEF Distributed
<1> HIDE DEF kept, had, rest, sent, new
<1>11. (kept + rest) + sent = (had + rest) + new
  BY <1>9, <1>10
<1> QED
  BY <1>7, <1>8, <1>11 DEF Total, sent, new

LEMMA SolvencyStep ==
  ASSUME PaidApart, OneOutputPerTransaction
  PROVE  SumsInv /\ Solvency /\ [Next]_vars => Solvency'
<1> SUFFICES ASSUME SumsInv, Solvency, [Next]_vars PROVE Solvency'
  OBVIOUS
<1>0. TypeOK /\ SumsInv' /\ TypeOK'
  BY SumsStep, TypeStep DEF SumsInv, RowInv
<1>a. change + Coins(unspent) + fees + unrecorded + InFlight = Coins(Pending) + Total(acc)
  BY DEF Solvency, InFlight, Pending, Balance
<1>b. /\ change \in Nat /\ fees \in Nat /\ unrecorded \in Nat
      /\ Coins(unspent) \in Nat /\ Coins(Pending) \in Nat /\ Total(acc) \in Nat
      /\ InFlight \in Nat /\ ToSend \in Nat
  BY <1>0, PendingCoins DEF TypeOK
<1>c. SUFFICES change' + Coins(unspent') + fees' + unrecorded' + InFlight'
                 = Coins(Pending') + Total(acc')
  BY DEF Solvency, InFlight, Pending, Balance, Coins, Total, Processed
<1>1. CASE /\ UNCHANGED <<arrived, unspent, change, utxoRows, acc, fees, unrecorded>>
           /\ pc # "update" /\ pc' # "update"
  BY <1>a, <1>1 DEF Pending, Processed, InFlight
<1>2. CASE UNCHANGED <<arrived, unspent, change, utxoRows, acc, fees, unrecorded, pc, payFor>>
  BY <1>a, <1>2 DEF Pending, Processed, InFlight, ToSend, Total
<1>3. ASSUME NEW u \in Utxos, Deposit(u)
      PROVE  change' + Coins(unspent') + fees' + unrecorded' + InFlight'
               = Coins(Pending') + Total(acc')
  <2>1. /\ u \notin arrived /\ arrived' = arrived \cup {u} /\ unspent' = unspent \cup {u}
        /\ UNCHANGED <<change, utxoRows, acc, fees, unrecorded, pc, payFor>>
    BY <1>3 DEF Deposit, db, ghosts, batch
  <2>2. InFlight' = InFlight
    BY <2>1 DEF InFlight, ToSend, Total
  <2>3. u \notin unspent /\ unspent \in SUBSET Utxos /\ Pending \in SUBSET Utxos /\ u \notin Pending
    BY <1>0, <2>1 DEF TypeOK, Pending
  <2>4. Coins(unspent') = Amount[u] + Coins(unspent) /\ Amount[u] \in Nat
    BY <2>1, <2>3, CoinsAdd
  <2>5. ~Processed(u)
    BY <2>1 DEF SumsInv, ProcessedArrived
  <2>6. Pending' = Pending \cup {u}
    BY <2>1, <2>5 DEF Pending, Processed
  <2>7. Coins(Pending') = Amount[u] + Coins(Pending)
    BY <2>3, <2>6, CoinsAdd
  <2>8. change + (Amount[u] + Coins(unspent)) + fees + unrecorded + InFlight
          = (Amount[u] + Coins(Pending)) + Total(acc)
    BY <1>a, <1>b, <2>4
  <2> QED
    BY <2>1, <2>2, <2>4, <2>7, <2>8
<1>4. CASE BumpFee
  <2>1. /\ UNCHANGED <<arrived, unspent, utxoRows, acc, unrecorded, pc, payFor>>
        /\ change' = change - Satoshi /\ fees' = fees + Satoshi /\ Satoshi \in Nat
    BY <1>4, AmountsAssumption DEF BumpFee, db, batch
  <2>2. InFlight' = InFlight /\ Pending' = Pending
    BY <2>1 DEF InFlight, ToSend, Total, Pending, Processed
  <2> QED
    BY <1>a, <1>b, <2>1, <2>2
<1>5. CASE NothingToSend
  <2>1. /\ UNCHANGED <<arrived, unspent, change, utxoRows, acc, fees, unrecorded, payFor>>
        /\ pc = "send" /\ pc' = "update" /\ ~AnyToSend
    BY <1>5 DEF NothingToSend, node, db, batch, ghosts
  <2>2. ToSend = 0 /\ ToSend' = ToSend
    <3>1. IsFiniteSet(Address) /\ \A k \in Address : payFor[k] = 0
      BY <1>0, <2>1, SetsAssumption DEF AnyToSend, TypeOK
    <3>2. SumFunctionOnSet(payFor, Address) = 0
      BY <3>1, SumZero
    <3> QED
      BY <2>1, <3>2 DEF ToSend, Total
  <2>3. InFlight = 0 /\ InFlight' = 0 /\ Pending' = Pending
    BY <2>1, <2>2 DEF InFlight, Pending, Processed
  <2> QED
    BY <1>a, <2>1, <2>3
<1>6. CASE SendMany
  <2>1. PICK S \in SUBSET unspent : Broadcast(S)
    BY <1>6 DEF SendMany
  <2>2. /\ unspent' = unspent \ S /\ change' = change + Coins(S) - ToSend
        /\ UNCHANGED <<arrived, utxoRows, acc, fees, unrecorded, payFor>>
        /\ pc = "send" /\ pc' = "update"
    BY <1>6, <2>1 DEF SendMany, Broadcast, db, batch
  <2>3. InFlight = 0 /\ InFlight' = ToSend /\ Pending' = Pending
    BY <2>2 DEF InFlight, ToSend, Total, Pending, Processed
  <2>4. unspent \in SUBSET Utxos /\ S \in SUBSET Utxos /\ unspent \ S \in SUBSET Utxos
    BY <1>0 DEF TypeOK
  <2>5. Coins(unspent) = Coins(S) + Coins(unspent')
    BY <2>2, <2>4, FiniteCoins, SumSplit DEF Coins
  <2>6. Coins(S) \in Nat /\ Coins(unspent') \in Nat
    BY <2>2, <2>4, FiniteCoins
  <2> QED
    BY <1>a, <1>b, <2>2, <2>3, <2>5, <2>6
<1>7. CASE UpdateThresholdStatus
  <2>1. /\ UNCHANGED <<arrived, unspent, change, fees, unrecorded, payFor>>
        /\ pc = "update" /\ pc' = "save"
        /\ utxoRows' = [utxoRows EXCEPT ![TxOf[cur]] = @ + 1]
    BY <1>7 DEF UpdateThresholdStatus, node, batch
  <2>2. cur \in Pending /\ Coins(Pending) = Amount[cur] + Coins(Pending \ {cur})
    BY <2>1, PendingCoins
  <2>3. Pending' = Pending \ {cur}
    <3>1. \A u \in Utxos : TxOf[u] \in TxIds /\ utxoRows[TxOf[u]] \in Nat
      BY <1>0 DEF TypeOK, TxIds
    <3>2. utxoRows \in [TxIds -> Nat] /\ arrived \subseteq Utxos /\ cur \in Utxos
      BY <1>0, <2>1 DEF TypeOK
    <3>3. \A u \in Utxos : Processed(u)' <=> Processed(u) \/ u = cur
      BY <2>1, <3>1, <3>2 DEF Processed, OneOutputPerTransaction
    <3> QED
      BY <2>1, <3>2, <3>3 DEF Pending
  <2>4. InFlight = ToSend /\ InFlight' = 0
    BY <2>1 DEF InFlight
  <2>5. Total(acc') + ToSend = Total(acc) + Amount[cur]
    BY <1>7, UpdateBalances
  <2>6. Total(acc') \in Nat /\ Coins(Pending') \in Nat /\ Amount[cur] \in Nat
    <3>1. Total(acc') \in Nat
      <4>1. IsFiniteSet(Address) /\ \A k \in Address : acc'[k] \in Nat
        BY <1>0, SetsAssumption DEF TypeOK
      <4> QED
        BY <4>1, SumNat DEF Total
    <3>a. Pending' \in SUBSET Utxos
      BY <1>0, <2>3 DEF Pending, TypeOK
    <3>b. Coins(Pending') \in Nat
      BY <3>a, FiniteCoins
    <3>2. Amount[cur] \in Nat
      BY <1>0, <2>1, AmountsAssumption DEF TypeOK
    <3> QED
      BY <3>1, <3>b, <3>2
  <2> DEFINE new  == Amount[cur]
             rest == Coins(Pending \ {cur})
             sent == ToSend
             owed == Total(acc)
             left == Total(acc')
             held == Coins(unspent)
  <2>7. change + held + fees + unrecorded + sent = (new + rest) + owed
    BY <1>a, <2>2, <2>4
  <2>8. left + sent = owed + new
    BY <2>5
  <2>9. /\ change \in Nat /\ held \in Nat /\ fees \in Nat /\ unrecorded \in Nat /\ sent \in Nat
        /\ new \in Nat /\ rest \in Nat /\ owed \in Nat /\ left \in Nat
    BY <1>b, <2>3, <2>6
  <2> HIDE DEF new, rest, sent, owed, left, held
  <2>10. change + held + fees + unrecorded + 0 = rest + left
    BY <2>7, <2>8, <2>9
  <2> QED
    BY <2>1, <2>3, <2>4, <2>10 DEF rest, left, held
<1>8. CASE UNCHANGED vars
  BY <1>2, <1>8 DEF vars, node, db, batch, ghosts
<1>9. CASE Environment \/ SkipFarm
  BY <1>2, <1>3, <1>4, <1>8, <1>9 DEF Environment, RegisterPayoutAddress, VerifyCollection,
                    SkipFarm, node, db, batch, ghosts
<1>10. CASE Progress
  BY <1>1, <1>5, <1>6, <1>7, <1>10
  DEF Progress, ListUnspent, FinishFarm, SkipTx, Distribute, DistributionRefused,
      FilterAddress, FilterStep, BalanceTooLow, SaveStatistics, Return, node, db, ghosts
<1>11. CASE EndUnrecorded
  <2>1. /\ UNCHANGED <<arrived, unspent, change, utxoRows, acc, fees>>
        /\ unrecorded' = unrecorded + InFlight /\ pc' = "idle"
    BY <1>11 DEF EndUnrecorded, Return, node, db
  <2>2. InFlight' = 0 /\ Pending' = Pending
    BY <2>1 DEF InFlight, Pending, Processed
  <2> QED
    BY <1>a, <1>b, <2>1, <2>2
<1>12. CASE SendReplyLost
  <2>1. PICK S \in SUBSET unspent : Broadcast(S)
    BY <1>12 DEF SendReplyLost
  <2>2. /\ unspent' = unspent \ S /\ change' = change + Coins(S) - ToSend
        /\ UNCHANGED <<arrived, utxoRows, acc, fees>> /\ unrecorded' = unrecorded + ToSend
        /\ pc = "send" /\ pc' = "idle"
    BY <1>12, <2>1 DEF SendReplyLost, Broadcast, Return, db
  <2>3. InFlight = 0 /\ InFlight' = 0 /\ Pending' = Pending
    BY <2>2 DEF InFlight, Pending, Processed
  <2>4. unspent \in SUBSET Utxos /\ S \in SUBSET Utxos /\ unspent \ S \in SUBSET Utxos
    BY <1>0 DEF TypeOK
  <2>5. Coins(unspent) = Coins(S) + Coins(unspent')
    BY <2>2, <2>4, FiniteCoins, SumSplit DEF Coins
  <2>6. Coins(S) \in Nat /\ Coins(unspent') \in Nat
    BY <2>2, <2>4, FiniteCoins
  <2> QED
    BY <1>a, <1>b, <2>2, <2>3, <2>5, <2>6
<1>13. CASE Failure
  BY <1>1, <1>11, <1>12, <1>13
  DEF Failure, ComputeFails, FilterFails, SendRejected, UpdateFails, SaveFails, Crash,
      Return, node, db, ghosts
<1> QED
  BY <1>8, <1>9, <1>10, <1>13 DEF Next

LEMMA SolvencyInit == Init => Solvency
<1> SUFFICES ASSUME Init PROVE Solvency
  OBVIOUS
<1>1. Coins({}) = 0
  BY SumEmpty DEF Coins
<1>2. Total(Zero) = 0
  <2>1. IsFiniteSet(Address) /\ \A k \in Address : Zero[k] = 0
    BY SetsAssumption DEF Zero
  <2> QED
    BY <2>1, SumZero DEF Total
<1>3. {u \in arrived : ~Processed(u)} = {}
  BY DEF Init
<1> QED
  BY <1>1, <1>2, <1>3 DEF Init, Solvency, Balance, InFlight

(* If no two keys of one distribution are paid at one address, and the     *)
(* pool never pays twice in one transaction: whatever fails, the wallet of *)
(* every farm holds, to the unit, what it owes, short of the fees of the   *)
(* retry service and the payments whose record was lost.                   *)
THEOREM BooksAgree ==
  ASSUME PaidApart, OneOutputPerTransaction
  PROVE  Spec => []Solvency
<1>1. SumsInv /\ [Next]_vars => SumsInv'
  BY SumsStep
<1>2. SumsInv /\ Solvency /\ [Next]_vars => Solvency'
  BY SolvencyStep
<1> QED
  BY <1>1, <1>2, SumsInit, SolvencyInit, PTL DEF Spec

(* Under the same conditions, the balance check refuses a distribution for *)
(* no other reason than these fees and payments.                           *)
THEOREM OnlyFeesMissing ==
  ASSUME PaidApart, OneOutputPerTransaction
  PROVE  Spec => []BalanceSuffices
<1>1. SumsInv /\ [Next]_vars => SumsInv'
  BY SumsStep
<1>2. SumsInv /\ Solvency /\ [Next]_vars => Solvency'
  BY SolvencyStep
<1>3. SumsInv /\ Solvency => BalanceSuffices
  <2> SUFFICES ASSUME SumsInv, Solvency, pc = "send"
               PROVE  Distributed <= Balance + fees + unrecorded
    BY DEF BalanceSuffices
  <2>1. TypeOK
    BY DEF SumsInv, RowInv
  <2>2. /\ Distributed = SumFunctionOnSet(acc, touched) + Amount[cur]
        /\ SumFunctionOnSet(acc, touched) \in Nat /\ Amount[cur] \in Nat
    BY BatchTotal
  <2>3. SumFunctionOnSet(acc, touched) <= Total(acc)
    <3>1. IsFiniteSet(Address) /\ touched \in SUBSET Address /\ \A k \in Address : acc[k] \in Nat
      BY <2>1, SetsAssumption DEF TypeOK
    <3> QED
      BY <3>1, SumSubset DEF Total
  <2>4. /\ Coins(Pending) = Amount[cur] + Coins(Pending \ {cur}) /\ Total(acc) \in Nat
    BY PendingCoins
  <2>5. Coins(Pending \ {cur}) \in Nat
    BY <2>1, FiniteCoins DEF TypeOK, Pending
  <2>6. Balance + fees + unrecorded + 0 = Coins(Pending) + Total(acc)
    BY DEF Solvency, Pending, InFlight
  <2>7. Balance \in Nat /\ fees \in Nat /\ unrecorded \in Nat
    BY <2>1, PendingCoins DEF TypeOK, Balance
  <2> QED
    BY <2>2, <2>3, <2>4, <2>5, <2>6, <2>7
<1> QED
  BY <1>1, <1>2, <1>3, SumsInit, SolvencyInit, PTL DEF Spec
=============================================================================
