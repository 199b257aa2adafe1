------------------------- MODULE FarmPaymentsProofs -------------------------
(***************************************************************************)
(* Proofs about FarmPayments, for every farm, every distribution and every *)
(* set of faults.                                                          *)
(***************************************************************************)
EXTENDS FarmPayments, SumProofs, TLAPS

(* RoundFloor(8) keeps less than a satoshi (pay_support.go:213, 221).      *)
LEMMA Remainder ==
  ASSUME NEW x \in Nat
  PROVE  x % Satoshi \in Nat /\ x % Satoshi <= x /\ x % Satoshi < Satoshi
BY AmountsAssumption, SMT

(* What one iteration of filterByPaymentThreshold computes for a key.      *)
LEMMA FilterTypes ==
  ASSUME TypeOK, NEW a \in Keys
  PROVE  /\ Accumulated(a) \in Nat
         /\ Kept(a) \in Nat
         /\ Sent(a) \in Nat
         /\ Kept(a) + Sent(a) = Accumulated(a)
         /\ Zeroed(a) \subseteq Address
         /\ Entry(a) \in Address
<1>1. a \in Address
  BY DEF Address
<1>2. Redirected(a) => payout[a] \in Address
  BY DEF Redirected, TypeOK
<1>3. Accumulated(a) \in Nat
  BY <1>1, <1>2 DEF Accumulated, TypeOK
<1>4. Dust(a) \in Nat /\ Dust(a) <= Accumulated(a)
  BY <1>3, Remainder DEF Dust
<1>5. Kept(a) \in Nat /\ Sent(a) \in Nat /\ Kept(a) + Sent(a) = Accumulated(a)
  BY <1>3, <1>4 DEF Kept, Sent
<1> QED
  BY <1>1, <1>2, <1>3, <1>5 DEF Zeroed, Entry, Target

-----------------------------------------------------------------------------
LEMMA TypeInit == Init => TypeOK
BY AmountsAssumption, FaultsAssumption, SetsAssumption
   DEF Init, TypeOK, Zero, TxIds

(* The return of processFarm, on any path.                                 *)
LEMMA TypeReturn ==
  ASSUME TypeOK, Return,
         UNCHANGED <<node, utxoRows, acc, history, hashes, cudos>>,
         hasRow' \in SUBSET Keys,
         sends' \in [Utxos -> Nat], lost' \in [Utxos -> Nat], paid' \in [Address -> Nat],
         UNCHANGED <<start, rewound, credited, fees>>, unrecorded' \in Nat
  PROVE  TypeOK'
BY DEF TypeOK, Return, ClearBatch, Zero, node, cudos

(* The effect of sendmany on the wallet.                                   *)
LEMMA TypeBroadcast ==
  ASSUME TypeOK, NEW S \in SUBSET unspent, Broadcast(S), cur \in Utxos
  PROVE  /\ arrived' \in SUBSET Utxos /\ unspent' \in SUBSET arrived'
         /\ change' \in Nat
         /\ sends' \in [Utxos -> Nat] /\ paid' \in [Address -> Nat]
         /\ start' \in [Utxos -> Nat] /\ rewound' \in SUBSET Utxos
        /\ credited' \in [Address -> Nat] /\ fees' \in Nat
BY DEF TypeOK, Broadcast

(* What is sent is an amount.                                              *)
LEMMA SendNat == TypeOK => ToSend \in Nat /\ InFlight \in Nat
<1> SUFFICES ASSUME TypeOK PROVE ToSend \in Nat
  BY DEF InFlight
<1>1. IsFiniteSet(Address) /\ \A k \in Address : payFor[k] \in Nat
  BY SetsAssumption DEF TypeOK
<1> QED
  BY <1>1, SumNat DEF ToSend, Total

(* A call that ends without a record of its payment.                       *)
LEMMA TypeUnrecorded == TypeOK /\ EndUnrecorded => TypeOK'
<1> SUFFICES ASSUME TypeOK, EndUnrecorded PROVE TypeOK'
  OBVIOUS
<1>1. lost' \in [Utxos -> Nat] /\ unrecorded' \in Nat
  BY SendNat DEF TypeOK, EndUnrecorded
<1> QED
  BY <1>1, TypeReturn DEF EndUnrecorded, db, TypeOK

LEMMA TypeStep == TypeOK /\ [Next]_vars => TypeOK'
<1> SUFFICES ASSUME TypeOK, [Next]_vars PROVE TypeOK'
  OBVIOUS
<1>1. CASE UNCHANGED vars
  BY <1>1 DEF TypeOK, vars, node, db, cudos, batch, ghosts
<1>2. ASSUME NEW u \in Utxos, Deposit(u) PROVE TypeOK'
  BY <1>2 DEF TypeOK, Deposit, db, cudos, batch, ghosts
<1>3. ASSUME NEW o \in Owners, NEW b \in PayoutChoices[o], RegisterPayoutAddress(o, b)
      PROVE  TypeOK'
  <2>1. b \in Address
    BY SetsAssumption
  <2> QED
    BY <1>3, <2>1 DEF TypeOK, RegisterPayoutAddress, node, db, batch, ghosts
<1>4. CASE VerifyCollection
  BY <1>4 DEF TypeOK, VerifyCollection, node, db, batch, ghosts
<1>5. CASE ListUnspent
  <2>1. lastPayment' \in Nat
    BY <1>5, AmountsAssumption DEF ListUnspent, PaymentTimes
  <2> QED
    BY <1>5, <2>1 DEF TypeOK, ListUnspent, node, db, cudos, batch, ghosts
<1>6. CASE SkipFarm
  BY <1>6, <1>1 DEF SkipFarm
<1>7. CASE FinishFarm
  BY <1>7, TypeReturn DEF FinishFarm, db, ghosts, TypeOK
<1>8. ASSUME NEW u \in Utxos, SkipTx(u) PROVE TypeOK'
  BY <1>8 DEF TypeOK, SkipTx, node, db, cudos, batch, ghosts
<1>9. ASSUME NEW u \in Utxos, NEW d \in Shares, Distribute(u, d) PROVE TypeOK'
  <2>1. d \in [Address -> Nat]
    BY SharesAssumption
  <2>2. u # None
    BY SetsAssumption
  <2> QED
    BY <1>9, <2>1, <2>2 DEF TypeOK, Distribute, node, db, cudos, ghosts
<1>10. ASSUME NEW u \in Utxos, NEW d \in Shares, DistributionRefused(u, d) PROVE TypeOK'
  BY <1>10, TypeReturn DEF DistributionRefused, db, ghosts, TypeOK
<1>11. ASSUME NEW a \in Keys, FilterAddress(a) PROVE TypeOK'
  <2>1. /\ Kept(a) \in Nat /\ Sent(a) \in Nat
        /\ Zeroed(a) \subseteq Address /\ Entry(a) \in Address
    BY FilterTypes
  <2>2. a \in Address
    BY DEF Address
  <2>3. /\ toUpdate' \in [Address -> Nat]
        /\ payFor' \in [Address -> Nat]
        /\ slot' \in [Address -> Keys \cup {None}]
    BY <1>11, <2>1 DEF FilterAddress, FilterStep, TypeOK
  <2> QED
    BY <1>11, <2>1, <2>2, <2>3
    DEF FilterAddress, FilterStep, TypeOK, node, cudos, ghosts
<1>12. CASE BalanceTooLow
  BY <1>12, TypeReturn DEF BalanceTooLow, db, ghosts, TypeOK
<1>13. CASE NothingToSend
  BY <1>13 DEF TypeOK, NothingToSend, node, db, cudos, batch, ghosts
<1>14. CASE SendMany
  <2>1. cur \in Utxos
    BY <1>14 DEF SendMany, TypeOK
  <2>2. PICK S \in SUBSET unspent : Broadcast(S)
    BY <1>14 DEF SendMany
  <2> QED
    BY <1>14, <2>1, <2>2, TypeBroadcast DEF SendMany, TypeOK, db, cudos, batch
<1>15. CASE UpdateThresholdStatus
  <2>1. cur \in Utxos
    BY <1>15 DEF UpdateThresholdStatus, TypeOK
  <2>2. utxoRows' \in [TxIds -> Nat]
    BY <1>15, <2>1 DEF UpdateThresholdStatus, TypeOK, TxIds
  <2>3. acc' \in [Address -> Nat] /\ credited' \in [Address -> Nat]
    BY <1>15 DEF UpdateThresholdStatus, TypeOK
  <2> QED
    BY <1>15, <2>2, <2>3 DEF UpdateThresholdStatus, TypeOK, node, cudos, batch
<1>16. CASE SaveStatistics
  <2>1. cur \in Utxos
    BY <1>16 DEF SaveStatistics, TypeOK
  <2>2. lastPayment' \in Nat
    BY <1>16, <2>1, AmountsAssumption DEF SaveStatistics
  <2> QED
    BY <1>16, <2>1, <2>2
    DEF SaveStatistics, ClearBatch, Zero, TypeOK, node, cudos, ghosts
<1>17. CASE ComputeFails
  BY <1>17, TypeReturn DEF ComputeFails, db, ghosts, TypeOK
<1>18. ASSUME NEW a \in Keys, FilterFails(a) PROVE TypeOK'
  <2>1. hasRow' \in SUBSET Keys
    BY <1>18 DEF FilterFails, TypeOK
  <2> QED
    BY <1>18, <2>1, TypeReturn DEF FilterFails, ghosts, TypeOK
<1>19. CASE SendRejected
  BY <1>19, TypeReturn DEF SendRejected, db, ghosts, TypeOK
<1>20. CASE SendReplyLost
  <2>1. cur \in Utxos
    BY <1>20 DEF SendReplyLost, TypeOK
  <2>2. PICK S \in SUBSET unspent : Broadcast(S)
    BY <1>20 DEF SendReplyLost
  <2>3. unrecorded' \in Nat
    BY <1>20, SendNat DEF SendReplyLost, TypeOK
  <2> QED
    BY <1>20, <2>1, <2>2, <2>3, TypeBroadcast
    DEF SendReplyLost, Return, ClearBatch, Zero, TypeOK, db, cudos
<1>21. CASE UpdateFails
  BY <1>21, TypeUnrecorded DEF UpdateFails
<1>22. CASE SaveFails
  BY <1>22, TypeReturn DEF SaveFails, db, ghosts, TypeOK
<1>23. CASE Crash
  BY <1>23, TypeUnrecorded DEF Crash
<1>24. CASE BumpFee
  BY <1>24, AmountsAssumption DEF TypeOK, BumpFee, db, cudos, batch
<1> QED
  BY <1>1, <1>2, <1>3, <1>4, <1>5, <1>6, <1>7, <1>8, <1>9, <1>10, <1>11, <1>12,
     <1>13, <1>14, <1>15, <1>16, <1>17, <1>18, <1>19, <1>20, <1>21, <1>22, <1>23,
     <1>24
  DEF Next, Environment, Progress, Failure

(* Every variable keeps its type.                                          *)
THEOREM TypeCorrect == Spec => []TypeOK
BY TypeInit, TypeStep, PTL DEF Spec

-----------------------------------------------------------------------------
(* The books of the running batch.  A key that the loop has visited is     *)
(* debited exactly what is put into the payment on its behalf; a key that  *)
(* it has not visited, or that gets nothing, is not touched.               *)

Idle == pc \in {"idle", "farm"} =>
          touched = {} /\ payFor = Zero /\ slot = [a \in Address |-> None]

(* An entry of the payment is under the key itself or one of the BTC       *)
(* addresses the key may be paid at.                                       *)
SlotInv ==
  \A t \in Address : slot[t] # None =>
    t = slot[t] \/ (slot[t] \in Owners /\ t \in PayoutChoices[slot[t]])

Visited(k) == dest[k] > 0 /\ k \notin remaining

Books(k) ==
  IF Visited(k)
  THEN k \in touched \cap hasRow /\ toUpdate[k] + payFor[k] = acc[k] + dest[k]
  ELSE k \notin touched /\ payFor[k] = 0

BatchInv ==
  pc \in {"filter", "send", "update"} =>
    /\ \A k \in remaining : dest[k] > 0
    /\ pc # "filter" => remaining = {}
    /\ \A k \in Keys : Books(k)

(* An address that no distribution names accumulates nothing.              *)
OnlyKeysAccumulate == \A b \in Address \ Keys : acc[b] = 0

BooksInv == TypeOK /\ Idle /\ SlotInv /\ BatchInv /\ OnlyKeysAccumulate

(* With no shared payout address, the entry that a key overwrites is its   *)
(* own.                                                                    *)
LEMMA EntryIsOwn ==
  ASSUME NoSharedPayout, TypeOK, SlotInv, NEW a \in Keys
  PROVE  /\ slot[Entry(a)] \in {a, None}
         /\ Entry(a) = a \/ (a \in Owners /\ Entry(a) \in PayoutChoices[a])
         /\ Zeroed(a) \cap Keys = {}
<1>1. Redirected(a) => a \in Owners /\ payout[a] \in PayoutChoices[a]
  BY DEF Redirected, TypeOK
<1>2. Entry(a) = a \/ (a \in Owners /\ Entry(a) \in PayoutChoices[a])
  BY <1>1 DEF Entry, Target
<1>3. Zeroed(a) \cap Keys = {}
  BY <1>1 DEF Zeroed, NoSharedPayout
<1>4. Entry(a) \in Address
  BY FilterTypes
<1>5. slot[Entry(a)] \in Keys \cup {None}
  BY <1>4 DEF TypeOK
<1>6. CASE Entry(a) = a
  <2>1. \A o \in Owners : a \notin PayoutChoices[o]
    BY DEF NoSharedPayout
  <2> QED
    BY <1>2, <1>3, <1>4, <1>5, <1>6, <2>1 DEF SlotInv
<1>7. CASE a \in Owners /\ Entry(a) \in PayoutChoices[a]
  <2>1. Entry(a) \notin Keys
    BY <1>7 DEF NoSharedPayout
  <2>2. \A o \in Owners \ {a} : Entry(a) \notin PayoutChoices[o]
    BY <1>7 DEF NoSharedPayout
  <2> QED
    BY <1>2, <1>3, <1>4, <1>5, <1>7, <2>1, <2>2 DEF SlotInv
<1> QED
  BY <1>2, <1>6, <1>7

(* A step that returns, or that changes nothing the books speak of.        *)
LEMMA BooksReturn ==
  ASSUME BooksInv, Return, TypeOK', UNCHANGED acc
  PROVE  BooksInv'
BY DEF BooksInv, Idle, SlotInv, BatchInv, OnlyKeysAccumulate, Return, ClearBatch, Zero

LEMMA BooksUnchanged ==
  ASSUME BooksInv, TypeOK', UNCHANGED <<acc, hasRow, batch>>,
         \/ pc' = pc
         \/ pc = "send" /\ pc' = "update"
  PROVE  BooksInv'
<1>1. Idle'
  BY DEF BooksInv, Idle, batch, TypeOK, Zero
<1>2. SlotInv'
  BY DEF BooksInv, SlotInv, batch
<1>3. \A k \in Keys : Books(k) => Books(k)'
  BY DEF Books, Visited, batch
<1>4. BatchInv'
  BY <1>3 DEF BooksInv, BatchInv, batch
<1> QED
  BY <1>1, <1>2, <1>4 DEF BooksInv, OnlyKeysAccumulate

LEMMA BooksFilter ==
  ASSUME NoSharedPayout, BooksInv, TypeOK', NEW a \in Keys, FilterAddress(a)
  PROVE  BooksInv'
<1> USE DEF FilterAddress, FilterStep
<1>1. a \in Address /\ a # None
  BY SetsAssumption DEF Address
<1>2. /\ slot[Entry(a)] \in {a, None}
      /\ Entry(a) = a \/ (a \in Owners /\ Entry(a) \in PayoutChoices[a])
      /\ Zeroed(a) \cap Keys = {}
  BY EntryIsOwn DEF BooksInv
<1>3. Kept(a) \in Nat /\ Sent(a) \in Nat /\ Kept(a) + Sent(a) = Accumulated(a)
  BY FilterTypes DEF BooksInv
<1>4. Accumulated(a) = acc[a] + dest[a]
  <2>1. Redirected(a) => payout[a] \in Address \ Keys
    BY DEF Redirected, BooksInv, TypeOK, NoSharedPayout
  <2>2. Redirected(a) => acc[payout[a]] = 0
    BY <2>1 DEF BooksInv, OnlyKeysAccumulate
  <2> QED
    BY <1>1, <2>2 DEF Accumulated, BooksInv, TypeOK
<1>5. SlotInv'
  BY <1>2 DEF BooksInv, SlotInv, TypeOK
<1>6. Books(a)'
  <2>1. a \notin remaining' /\ dest[a] > 0 /\ dest' = dest /\ acc' = acc
    BY DEF BooksInv, BatchInv
  <2>2. a \in touched' /\ a \in hasRow'
    OBVIOUS
  <2>3. toUpdate'[a] = Kept(a) /\ payFor'[a] = Sent(a)
    BY <1>1
  <2> QED
    BY <1>3, <1>4, <2>1, <2>2, <2>3 DEF Books, Visited
<1>7. ASSUME NEW k \in Keys, k # a PROVE Books(k)'
  <2>1. k \in Address
    BY DEF Address
  <2>2. k \notin Zeroed(a)
    BY <1>2
  <2>3. toUpdate'[k] = toUpdate[k]
    BY <1>7, <2>1, <2>2
  <2>4. payFor'[k] = payFor[k]
    BY <1>2, <1>7, <2>1, SetsAssumption
  <2>5. /\ (k \in touched') <=> (k \in touched)
        /\ (k \in hasRow') <=> (k \in hasRow)
        /\ (k \in remaining') <=> (k \in remaining)
        /\ dest' = dest /\ acc' = acc
    BY <1>7, <2>2
  <2>6. Books(k)
    BY DEF BooksInv, BatchInv
  <2> QED
    BY <2>3, <2>4, <2>5, <2>6 DEF Books, Visited
<1>8. BatchInv'
  <2>1. \A k \in remaining' : dest'[k] > 0
    BY DEF BooksInv, BatchInv
  <2>2. pc' # "filter" => remaining' = {}
    OBVIOUS
  <2> QED
    BY <1>6, <1>7, <2>1, <2>2 DEF BatchInv
<1> QED
  BY <1>5, <1>8 DEF BooksInv, Idle, OnlyKeysAccumulate

LEMMA BooksInit == Init => BooksInv
BY TypeInit DEF BooksInv, Init, Idle, SlotInv, BatchInv, OnlyKeysAccumulate, Zero

LEMMA BooksStep ==
  ASSUME NoSharedPayout
  PROVE  BooksInv /\ [Next]_vars => BooksInv'
<1> SUFFICES ASSUME BooksInv, [Next]_vars PROVE BooksInv'
  OBVIOUS
<1>0. TypeOK'
  BY TypeStep DEF BooksInv
<1>1. CASE UNCHANGED vars
  BY <1>0, <1>1, BooksUnchanged DEF vars, db, batch
<1>2. ASSUME NEW u \in Utxos, Deposit(u) PROVE BooksInv'
  BY <1>0, <1>2, BooksUnchanged DEF Deposit, db
<1>3. ASSUME NEW o \in Owners, NEW b \in PayoutChoices[o], RegisterPayoutAddress(o, b)
      PROVE  BooksInv'
  BY <1>0, <1>3, BooksUnchanged DEF RegisterPayoutAddress, db
<1>4. CASE VerifyCollection
  BY <1>0, <1>4, BooksUnchanged DEF VerifyCollection, db
<1>5. CASE ListUnspent
  BY <1>0, <1>5 DEF ListUnspent, db, batch, BooksInv, Idle, SlotInv, BatchInv,
                    OnlyKeysAccumulate
<1>6. CASE SkipFarm
  BY <1>6, <1>1 DEF SkipFarm
<1>7. CASE FinishFarm
  BY <1>0, <1>7, BooksReturn DEF FinishFarm, db
<1>8. ASSUME NEW u \in Utxos, SkipTx(u) PROVE BooksInv'
  BY <1>0, <1>8, BooksUnchanged DEF SkipTx, db
<1>9. ASSUME NEW u \in Utxos, NEW d \in Shares, Distribute(u, d) PROVE BooksInv'
  <2>1. touched = {} /\ payFor = Zero
    BY <1>9 DEF Distribute, BooksInv, Idle
  <2>2. \A k \in Keys : k \in Address /\ d[k] \in Nat
    BY SharesAssumption DEF Address
  <2>3. BatchInv'
    BY <1>9, <2>1, <2>2 DEF Distribute, BatchInv, Books, Visited, Zero
  <2> QED
    BY <1>0, <1>9, <2>3 DEF Distribute, BooksInv, Idle, SlotInv, OnlyKeysAccumulate, db
<1>10. ASSUME NEW u \in Utxos, NEW d \in Shares, DistributionRefused(u, d) PROVE BooksInv'
  BY <1>0, <1>10, BooksReturn DEF DistributionRefused, db
<1>11. ASSUME NEW a \in Keys, FilterAddress(a) PROVE BooksInv'
  BY <1>0, <1>11, BooksFilter
<1>12. CASE BalanceTooLow
  BY <1>0, <1>12, BooksReturn DEF BalanceTooLow, db
<1>13. CASE NothingToSend
  BY <1>0, <1>13, BooksUnchanged DEF NothingToSend, db
<1>14. CASE SendMany
  BY <1>0, <1>14, BooksUnchanged DEF SendMany, db
<1>15. CASE UpdateThresholdStatus
  <2>1. OnlyKeysAccumulate'
    BY <1>15 DEF UpdateThresholdStatus, BooksInv, OnlyKeysAccumulate, TypeOK
  <2> QED
    BY <1>0, <1>15, <2>1 DEF UpdateThresholdStatus, BooksInv, Idle, SlotInv, BatchInv, batch
<1>16. CASE SaveStatistics
  BY <1>0, <1>16 DEF SaveStatistics, ClearBatch, BooksInv, Idle, SlotInv, BatchInv,
                     OnlyKeysAccumulate, Zero
<1>17. CASE ComputeFails
  BY <1>0, <1>17, BooksReturn DEF ComputeFails, db
<1>18. ASSUME NEW a \in Keys, FilterFails(a) PROVE BooksInv'
  BY <1>0, <1>18, BooksReturn DEF FilterFails
<1>19. CASE SendRejected
  BY <1>0, <1>19, BooksReturn DEF SendRejected, db
<1>20. CASE SendReplyLost
  BY <1>0, <1>20, BooksReturn DEF SendReplyLost, db
<1>21. CASE UpdateFails
  BY <1>0, <1>21, BooksReturn DEF UpdateFails, EndUnrecorded, db
<1>22. CASE SaveFails
  BY <1>0, <1>22, BooksReturn DEF SaveFails, db
<1>23. CASE Crash
  BY <1>0, <1>23, BooksReturn DEF Crash, EndUnrecorded, db
<1>24. CASE BumpFee
  BY <1>0, <1>24, BooksUnchanged DEF BumpFee, db
<1> QED
  BY <1>1, <1>2, <1>3, <1>4, <1>5, <1>6, <1>7, <1>8, <1>9, <1>10, <1>11, <1>12,
     <1>13, <1>14, <1>15, <1>16, <1>17, <1>18, <1>19, <1>20, <1>21, <1>22, <1>23,
     <1>24
  DEF Next, Environment, Progress, Failure

-----------------------------------------------------------------------------
(* What was sent and what is accumulated cover what was credited, and      *)
(* after sendmany also the payment that is not yet written down.           *)
Covered(k) ==
  paid[k] + acc[k] >= credited[k] + (IF pc = "update" THEN payFor[k] ELSE 0)

RewardInv == BooksInv /\ \A k \in Keys : Covered(k)

LEMMA RewardInit == Init => RewardInv
BY BooksInit DEF RewardInv, Covered, Init, Zero, Address

(* Steps that leave the amounts alone keep the cover, unless they enter    *)
(* the window after sendmany.                                              *)
LEMMA CoverUnchanged ==
  ASSUME RewardInv, UNCHANGED <<paid, acc, credited>>,
         \/ pc' # "update"
         \/ pc' = pc /\ UNCHANGED payFor
  PROVE  \A k \in Keys : Covered(k)'
<1> SUFFICES ASSUME NEW k \in Keys PROVE Covered(k)'
  OBVIOUS
<1>1. k \in Address
  BY DEF Address
<1>2. paid[k] \in Nat /\ acc[k] \in Nat /\ credited[k] \in Nat /\ payFor[k] \in Nat
  BY <1>1 DEF RewardInv, BooksInv, TypeOK
<1> QED
  BY <1>2 DEF RewardInv, Covered

LEMMA RewardStep ==
  ASSUME NoSharedPayout
  PROVE  RewardInv /\ [Next]_vars => RewardInv'
<1> SUFFICES ASSUME RewardInv, [Next]_vars PROVE \A k \in Keys : Covered(k)'
  BY BooksStep DEF RewardInv
<1>a. \A k \in Keys : /\ k \in Address
                      /\ paid[k] \in Nat /\ acc[k] \in Nat /\ credited[k] \in Nat
                      /\ payFor[k] \in Nat /\ dest[k] \in Nat /\ toUpdate[k] \in Nat
  BY DEF RewardInv, BooksInv, TypeOK, Address
<1>1. CASE UNCHANGED vars
  BY <1>1, CoverUnchanged DEF vars, db, batch, ghosts
<1>2. CASE Environment
  BY <1>2, CoverUnchanged
  DEF Environment, Deposit, RegisterPayoutAddress, VerifyCollection, BumpFee, db, batch, ghosts
<1>3. CASE SkipFarm
  BY <1>3, <1>1 DEF SkipFarm
<1>4. CASE ListUnspent \/ FinishFarm \/ (\E u \in Utxos : SkipTx(u))
  BY <1>4, CoverUnchanged DEF ListUnspent, FinishFarm, SkipTx, Return, db, ghosts
<1>5. ASSUME NEW u \in Utxos, NEW d \in Shares,
             Distribute(u, d) \/ DistributionRefused(u, d)
      PROVE  \A k \in Keys : Covered(k)'
  BY <1>5, CoverUnchanged DEF Distribute, DistributionRefused, Return, db, ghosts
<1>6. ASSUME NEW a \in Keys, FilterAddress(a) PROVE \A k \in Keys : Covered(k)'
  BY <1>6, CoverUnchanged DEF FilterAddress, FilterStep, ghosts
<1>7. CASE BalanceTooLow
  BY <1>7, CoverUnchanged DEF BalanceTooLow, Return, db, ghosts
<1>8. CASE NothingToSend \/ SendMany
  <2> SUFFICES ASSUME NEW k \in Keys PROVE Covered(k)'
    OBVIOUS
  <2>1. Covered(k) /\ pc = "send" /\ pc' = "update" /\ UNCHANGED <<acc, credited, payFor>>
    BY <1>8 DEF RewardInv, NothingToSend, SendMany, Broadcast, db, batch, ghosts
  <2>2. CASE SendMany
    <3>1. paid'[k] = paid[k] + payFor[k]
      BY <2>2, <1>a DEF SendMany, Broadcast
    <3> QED
      BY <1>a, <2>1, <3>1 DEF Covered
  <2>3. CASE NothingToSend
    <3>1. ~AnyToSend /\ paid' = paid
      BY <2>3 DEF NothingToSend, ghosts
    <3>2. payFor[k] = 0
      BY <1>a, <3>1 DEF AnyToSend
    <3> QED
      BY <1>a, <2>1, <3>1, <3>2 DEF Covered
  <2> QED
    BY <1>8, <2>2, <2>3
<1>9. CASE UpdateThresholdStatus
  <2> SUFFICES ASSUME NEW k \in Keys PROVE Covered(k)'
    OBVIOUS
  <2>1. Covered(k) /\ pc = "update" /\ pc' = "save" /\ paid' = paid
    BY <1>9 DEF RewardInv, UpdateThresholdStatus
  <2>2. credited'[k] = credited[k] + dest[k]
    BY <1>9, <1>a DEF UpdateThresholdStatus
  <2>3. acc'[k] = IF k \in touched \cap hasRow THEN toUpdate[k] ELSE acc[k]
    BY <1>9, <1>a DEF UpdateThresholdStatus
  <2>4. acc'[k] + payFor[k] = acc[k] + dest[k]
    <3>1. Books(k)
      BY <2>1 DEF RewardInv, BooksInv, BatchInv
    <3>2. k \notin remaining
      BY <2>1 DEF RewardInv, BooksInv, BatchInv
    <3> QED
      BY <1>a, <2>3, <3>1, <3>2 DEF Books, Visited
  <2> QED
    BY <1>a, <2>1, <2>2, <2>3, <2>4 DEF Covered
<1>10. CASE SaveStatistics
  BY <1>10, CoverUnchanged DEF SaveStatistics, ghosts
<1>11. CASE ComputeFails \/ SendRejected \/ UpdateFails \/ SaveFails \/ Crash
  BY <1>11, CoverUnchanged
  DEF ComputeFails, SendRejected, UpdateFails, EndUnrecorded, SaveFails, Crash, Return, db, ghosts
<1>12. ASSUME NEW a \in Keys, FilterFails(a) PROVE \A k \in Keys : Covered(k)'
  BY <1>12, CoverUnchanged DEF FilterFails, Return, ghosts
<1>13. CASE SendReplyLost
  <2> SUFFICES ASSUME NEW k \in Keys PROVE Covered(k)'
    OBVIOUS
  <2>1. Covered(k) /\ pc = "send" /\ pc' = "idle" /\ UNCHANGED <<acc, credited>>
    BY <1>13 DEF RewardInv, SendReplyLost, Broadcast, Return, db
  <2>2. paid'[k] = paid[k] + payFor[k]
    BY <1>13, <1>a DEF SendReplyLost, Broadcast
  <2> QED
    BY <1>a, <2>1, <2>2 DEF Covered
<1> QED
  BY <1>1, <1>2, <1>3, <1>4, <1>5, <1>6, <1>7, <1>8, <1>9, <1>10, <1>11, <1>12, <1>13
  DEF Next, Progress, Failure

LEMMA RewardImplies == RewardInv => NoRewardLost
<1> SUFFICES ASSUME RewardInv, NEW K \in Groups
             PROVE  SumFunctionOnSet(paid, K) + SumFunctionOnSet(acc, K)
                      >= SumFunctionOnSet(credited, K)
  BY DEF NoRewardLost
<1>1. IsFiniteSet(K) /\ K \subseteq Keys
  BY SetsAssumption, FS_Subset DEF Groups, Address
<1>2. \A k \in K : /\ paid[k] \in Nat /\ acc[k] \in Nat /\ credited[k] \in Nat
                   /\ paid[k] + acc[k] >= credited[k]
  <2> TAKE k \in K
  <2>1. /\ paid[k] \in Nat /\ acc[k] \in Nat /\ credited[k] \in Nat /\ payFor[k] \in Nat
    BY <1>1 DEF RewardInv, BooksInv, TypeOK, Address
  <2> QED
    BY <1>1, <2>1 DEF RewardInv, Covered
<1> DEFINE given == [k \in K |-> paid[k] + acc[k]]
<1>3. SumFunctionOnSet(given, K) = SumFunctionOnSet(paid, K) + SumFunctionOnSet(acc, K)
  BY <1>1, <1>2, SumPlus
<1>4. SumFunctionOnSet(credited, K) <= SumFunctionOnSet(given, K)
  BY <1>1, <1>2, SumLeq
<1>5. /\ SumFunctionOnSet(paid, K) \in Nat /\ SumFunctionOnSet(acc, K) \in Nat
      /\ SumFunctionOnSet(credited, K) \in Nat
  BY <1>1, <1>2, SumNat
<1> QED
  BY <1>3, <1>4, <1>5

(* With no shared payout address, no failure and no crash loses a reward.  *)
THEOREM RewardsSafe ==
  ASSUME NoSharedPayout
  PROVE  Spec => []NoRewardLost
<1>1. RewardInv /\ [Next]_vars => RewardInv'
  BY RewardStep
<1> QED
  BY <1>1, RewardInit, RewardImplies, PTL DEF Spec

-----------------------------------------------------------------------------
(* No update misses its row: the loop inserts the row of a key before it   *)
(* puts the key into the update, and it zeroes other addresses only.       *)
LEMMA RowStep == TypeOK /\ NoUpdateWithoutRow /\ [Next]_vars => NoUpdateWithoutRow'
<1> SUFFICES ASSUME TypeOK, NoUpdateWithoutRow, [Next]_vars PROVE NoUpdateWithoutRow'
  OBVIOUS
<1>1. CASE UNCHANGED <<touched, toUpdate, hasRow>>
  BY <1>1 DEF NoUpdateWithoutRow
<1>2. CASE Return \/ SaveStatistics
  BY <1>2 DEF NoUpdateWithoutRow, Return, SaveStatistics, ClearBatch
<1>3. ASSUME NEW a \in Keys, FilterAddress(a) PROVE NoUpdateWithoutRow'
  <2> SUFFICES ASSUME NEW k \in touched', toUpdate'[k] > 0 PROVE k \in hasRow'
    BY DEF NoUpdateWithoutRow
  <2>1. a \in hasRow' /\ hasRow \subseteq hasRow'
    BY <1>3 DEF FilterAddress, FilterStep
  <2>2. CASE k = a
    BY <2>1, <2>2
  <2>3. CASE k # a
    <3>1. k \in Address
      BY <1>3, FilterTypes DEF FilterAddress, FilterStep, TypeOK, Address
    <3>2. k \notin Zeroed(a) /\ toUpdate'[k] = toUpdate[k]
      BY <1>3, <2>3, <3>1 DEF FilterAddress, FilterStep
    <3>3. k \in touched
      BY <1>3, <2>3, <3>2 DEF FilterAddress, FilterStep
    <3> QED
      BY <2>1, <3>2, <3>3 DEF NoUpdateWithoutRow
  <2> QED
    BY <2>2, <2>3
<1>4. CASE UNCHANGED vars
  BY <1>1, <1>4 DEF vars, db, batch
<1>5. CASE Environment \/ SkipFarm
  BY <1>1, <1>5 DEF Environment, Deposit, RegisterPayoutAddress, VerifyCollection, BumpFee,
                    SkipFarm, vars, db, batch
<1>6. CASE Progress
  BY <1>1, <1>2, <1>3, <1>6
  DEF Progress, ListUnspent, FinishFarm, SkipTx, Distribute, DistributionRefused,
      BalanceTooLow, NothingToSend, SendMany, UpdateThresholdStatus, db, batch
<1>7. CASE Failure
  BY <1>2, <1>7 DEF Failure, ComputeFails, FilterFails, SendRejected, SendReplyLost,
                    UpdateFails, EndUnrecorded, SaveFails, Crash
<1> QED
  BY <1>4, <1>5, <1>6, <1>7 DEF Next

THEOREM UpdatesFindTheirRows == Spec => []NoUpdateWithoutRow
<1>1. Init => NoUpdateWithoutRow
  BY DEF Init, NoUpdateWithoutRow
<1> QED
  BY <1>1, TypeInit, TypeStep, RowStep, PTL DEF Spec

-----------------------------------------------------------------------------
(* The outputs a call still has to process have no row yet.                *)
RowInv ==
  /\ TypeOK
  /\ OneRowPerTransaction
  /\ \A u \in todo : utxoRows[TxOf[u]] = 0
  /\ pc \in {"filter", "send", "update"} => utxoRows[TxOf[cur]] = 0 /\ cur \notin todo
  /\ pc = "save" => utxoRows[TxOf[cur]] > 0

LEMMA RowInvInit == Init => RowInv
BY TypeInit DEF RowInv, Init, OneRowPerTransaction

LEMMA RowInvReturn ==
  ASSUME RowInv, Return, TypeOK', UNCHANGED utxoRows
  PROVE  RowInv'
BY DEF RowInv, Return, OneRowPerTransaction

LEMMA RowInvStep ==
  ASSUME OneOutputPerTransaction
  PROVE  RowInv /\ [Next]_vars => RowInv'
<1> SUFFICES ASSUME RowInv, [Next]_vars PROVE RowInv'
  OBVIOUS
<1>0. TypeOK'
  BY TypeStep DEF RowInv
<1>1. CASE UNCHANGED <<utxoRows, pc, todo, cur>>
  BY <1>0, <1>1 DEF RowInv, OneRowPerTransaction
<1>2. CASE Return /\ UNCHANGED utxoRows
  BY <1>0, <1>2, RowInvReturn
<1>3. CASE ListUnspent
  BY <1>0, <1>3 DEF ListUnspent, RowInv, OneRowPerTransaction, Processed, TypeOK, TxIds, db
<1>4. ASSUME NEW u \in Utxos, SkipTx(u) PROVE RowInv'
  BY <1>0, <1>4 DEF SkipTx, RowInv, OneRowPerTransaction, db
<1>5. ASSUME NEW u \in Utxos, NEW d \in Shares, Distribute(u, d) PROVE RowInv'
  BY <1>0, <1>5 DEF Distribute, RowInv, OneRowPerTransaction, db
<1>6. ASSUME NEW a \in Keys, FilterAddress(a) PROVE RowInv'
  BY <1>0, <1>6 DEF FilterAddress, FilterStep, RowInv, OneRowPerTransaction
<1>7. CASE NothingToSend \/ SendMany
  BY <1>0, <1>7 DEF NothingToSend, SendMany, RowInv, OneRowPerTransaction, db
<1>8. CASE UpdateThresholdStatus
  <2>1. /\ cur \in Utxos /\ cur \notin todo /\ utxoRows[TxOf[cur]] = 0
        /\ utxoRows' = [utxoRows EXCEPT ![TxOf[cur]] = @ + 1]
        /\ pc' = "save" /\ UNCHANGED <<todo, cur>>
    BY <1>8 DEF UpdateThresholdStatus, RowInv, TypeOK
  <2>2. OneRowPerTransaction'
    BY <2>1 DEF RowInv, OneRowPerTransaction, TypeOK
  <2>3. \A u \in todo : TxOf[u] # TxOf[cur]
    BY <2>1 DEF OneOutputPerTransaction, RowInv, TypeOK
  <2>4. TxOf[cur] \in TxIds /\ \A u \in todo : TxOf[u] \in TxIds
    BY <2>1 DEF TxIds, RowInv, TypeOK
  <2>5. utxoRows'[TxOf[cur]] = 1
    BY <2>1, <2>4 DEF RowInv, TypeOK
  <2>6. \A u \in todo' : utxoRows'[TxOf[u]] = 0
    BY <2>1, <2>3, <2>4 DEF RowInv, TypeOK
  <2> QED
    BY <1>0, <2>1, <2>2, <2>5, <2>6 DEF RowInv
<1>9. CASE SaveStatistics
  BY <1>0, <1>9 DEF SaveStatistics, RowInv, OneRowPerTransaction
<1>10. CASE UNCHANGED vars
  BY <1>1, <1>10 DEF vars, db
<1>11. CASE Environment \/ SkipFarm
  BY <1>1, <1>11 DEF Environment, Deposit, RegisterPayoutAddress, VerifyCollection, BumpFee,
                     SkipFarm, vars, db
<1>12. CASE Progress
  BY <1>2, <1>3, <1>4, <1>5, <1>6, <1>7, <1>8, <1>9, <1>12
  DEF Progress, FinishFarm, DistributionRefused, BalanceTooLow, db
<1>13. CASE Failure
  BY <1>2, <1>13 DEF Failure, ComputeFails, FilterFails, SendRejected, SendReplyLost,
                     UpdateFails, EndUnrecorded, SaveFails, Crash, db
<1> QED
  BY <1>10, <1>11, <1>12, <1>13 DEF Next

(* Whatever fails, a transaction gets at most one row, if the pool never   *)
(* pays the farm twice in one transaction.                                 *)
THEOREM RowsUnique ==
  ASSUME OneOutputPerTransaction
  PROVE  Spec => []OneRowPerTransaction
<1>1. RowInv /\ [Next]_vars => RowInv'
  BY RowInvStep
<1>2. RowInv => OneRowPerTransaction
  BY DEF RowInv
<1> QED
  BY <1>1, <1>2, RowInvInit, PTL DEF Spec

-----------------------------------------------------------------------------
(* Rows are never taken back, and only UpdateThresholdStatus adds one.     *)
LEMMA ProcessedForever ==
  ASSUME TypeOK, [Next]_vars
  PROVE  \/ utxoRows' = utxoRows
         \/ UpdateThresholdStatus /\ \A u \in Utxos : Processed(u)' <=> Processed(u) \/ TxOf[u] = TxOf[cur]
<1>1. CASE UpdateThresholdStatus
  <2>1. /\ utxoRows' = [utxoRows EXCEPT ![TxOf[cur]] = @ + 1]
        /\ utxoRows \in [TxIds -> Nat] /\ cur \in Utxos
    BY <1>1 DEF UpdateThresholdStatus, TypeOK
  <2>2. \A u \in Utxos : TxOf[u] \in TxIds /\ utxoRows[TxOf[u]] \in Nat
    BY <2>1 DEF TxIds
  <2> QED
    BY <1>1, <2>1, <2>2 DEF Processed
<1>2. CASE Environment \/ SkipFarm \/ UNCHANGED vars
  BY <1>2 DEF Environment, Deposit, RegisterPayoutAddress, VerifyCollection, BumpFee,
              SkipFarm, vars, db
<1>3. CASE Progress /\ ~UpdateThresholdStatus
  BY <1>3 DEF Progress, ListUnspent, FinishFarm, SkipTx, Distribute, DistributionRefused,
      FilterAddress, FilterStep, BalanceTooLow, NothingToSend, SendMany, SaveStatistics, db
<1>4. CASE Failure
  BY <1>4 DEF Failure, ComputeFails, FilterFails, SendRejected, SendReplyLost,
              UpdateFails, EndUnrecorded, SaveFails, Crash, db
<1> QED
  BY <1>1, <1>2, <1>3, <1>4 DEF Next

-----------------------------------------------------------------------------
(* The output whose statistics are being saved is processed already.       *)
HistoryInv ==
  /\ TypeOK
  /\ HistoryOnlyOfProcessed
  /\ pc = "save" => Processed(cur)

LEMMA HistoryStep == HistoryInv /\ [Next]_vars => HistoryInv'
<1> SUFFICES ASSUME HistoryInv, [Next]_vars PROVE HistoryInv'
  OBVIOUS
<1>0. TypeOK' /\ TypeOK
  BY TypeStep DEF HistoryInv
<1>1. \A u \in Utxos : Processed(u) => Processed(u)'
  BY <1>0, ProcessedForever DEF Processed
<1>2. CASE UNCHANGED history /\ (pc' # "save" \/ UNCHANGED <<pc, cur>>)
  <2>1. history \in SUBSET Utxos /\ (pc = "save" => cur \in Utxos)
    BY <1>0 DEF TypeOK
  <2> QED
    BY <1>0, <1>1, <1>2, <2>1 DEF HistoryInv, HistoryOnlyOfProcessed
<1>3. CASE UpdateThresholdStatus
  <2>1. cur \in Utxos /\ cur' = cur /\ history' = history /\ history \in SUBSET Utxos
    BY <1>0, <1>3 DEF UpdateThresholdStatus, TypeOK
  <2>2. utxoRows'[TxOf[cur]] > 0
    <3>1. TxOf[cur] \in TxIds /\ utxoRows \in [TxIds -> Nat]
      BY <1>0, <2>1 DEF TypeOK, TxIds
    <3>2. utxoRows' = [utxoRows EXCEPT ![TxOf[cur]] = @ + 1]
      BY <1>3 DEF UpdateThresholdStatus
    <3> QED
      BY <3>1, <3>2
  <2> QED
    BY <1>0, <1>1, <2>1, <2>2 DEF HistoryInv, HistoryOnlyOfProcessed, Processed
<1>4. CASE SaveStatistics
  <2>1. cur \in Utxos /\ history \in SUBSET Utxos /\ history' = history \cup {cur} /\ pc' = "farm"
    BY <1>0, <1>4 DEF SaveStatistics, TypeOK
  <2> QED
    BY <1>0, <1>1, <1>4, <2>1 DEF SaveStatistics, HistoryInv, HistoryOnlyOfProcessed
<1>5. CASE Environment \/ SkipFarm \/ UNCHANGED vars
  BY <1>2, <1>5 DEF Environment, Deposit, RegisterPayoutAddress, VerifyCollection, BumpFee,
                    SkipFarm, vars, db
<1>6. CASE Progress
  BY <1>2, <1>3, <1>4, <1>6
  DEF Progress, ListUnspent, FinishFarm, SkipTx, Distribute, DistributionRefused,
      FilterAddress, FilterStep, BalanceTooLow, NothingToSend, SendMany, Return, db
<1>7. CASE Failure
  BY <1>2, <1>7
  DEF Failure, ComputeFails, FilterFails, SendRejected, SendReplyLost, UpdateFails,
      EndUnrecorded, SaveFails, Crash, Return, db
<1> QED
  BY <1>5, <1>6, <1>7 DEF Next

(* Whatever fails, statistics are only saved of deposits that are marked   *)
(* as processed (pay.go:653, 659).                                         *)
THEOREM HistoryOfProcessed == Spec => []HistoryOnlyOfProcessed
<1>1. Init => HistoryInv
  BY TypeInit DEF Init, HistoryInv, HistoryOnlyOfProcessed
<1>2. HistoryInv => HistoryOnlyOfProcessed
  BY DEF HistoryInv
<1> QED
  BY <1>1, <1>2, HistoryStep, PTL DEF Spec

-----------------------------------------------------------------------------
(* A payment that was broadcast is allowed for: by a call that was lost,   *)
(* by the row of its output, or by the record that is about to be written. *)
Unsent(u) ==
  u \in todo \/ (u = cur /\ (pc \in {"filter", "send"} \/ (pc = "update" /\ ~AnyToSend)))

Allowed(u) ==
  IF ~Unsent(u) /\ (Processed(u) \/ (u = cur /\ pc = "update")) THEN 1 ELSE 0

PaidInv ==
  /\ TypeOK
  /\ cur \notin todo
  /\ \A u \in Utxos : sends[u] <= lost[u] + Allowed(u)

(* Steps after which everybody is allowed at least as much.                *)
LEMMA PaidMore ==
  ASSUME PaidInv, TypeOK', UNCHANGED <<sends, lost>>, cur' \notin todo',
         \A u \in Utxos : Allowed(u) = 1 => Allowed(u)' = 1
  PROVE  PaidInv'
<1> SUFFICES ASSUME NEW u \in Utxos PROVE sends'[u] <= lost'[u] + Allowed(u)'
  BY DEF PaidInv
<1>1. sends[u] \in Nat /\ lost[u] \in Nat /\ sends[u] <= lost[u] + Allowed(u)
  BY DEF PaidInv, TypeOK
<1>2. Allowed(u) \in {0, 1} /\ Allowed(u)' \in {0, 1}
  BY DEF Allowed
<1> QED
  BY <1>1, <1>2

LEMMA PaidStep == PaidInv /\ [Next]_vars => PaidInv'
<1> SUFFICES ASSUME PaidInv, [Next]_vars PROVE PaidInv'
  OBVIOUS
<1>0. TypeOK /\ TypeOK' /\ cur \notin todo /\ None \notin Utxos
  BY TypeStep, SetsAssumption DEF PaidInv
<1>1. \A u \in Utxos : Processed(u) => Processed(u)'
  BY <1>0, ProcessedForever DEF Processed
<1>2. CASE UNCHANGED <<sends, lost, todo, cur, pc, payFor>>
  BY <1>0, <1>1, <1>2, PaidMore DEF Allowed, Unsent, AnyToSend
<1>3. CASE Return /\ UNCHANGED <<sends, lost>> /\ (pc = "update" => ~AnyToSend)
  BY <1>0, <1>1, <1>3, PaidMore DEF Return, Allowed, Unsent
<1>4. CASE ListUnspent
  <2>1. /\ pc = "idle" /\ pc' = "farm" /\ cur = None /\ cur' = None /\ UNCHANGED <<sends, lost>>
        /\ todo' \subseteq Utxos /\ \A u \in todo' : ~Processed(u)
    BY <1>0, <1>4 DEF ListUnspent, TypeOK
  <2> QED
    BY <1>0, <1>1, <2>1, PaidMore DEF Allowed, Unsent
<1>5. ASSUME NEW u \in Utxos, SkipTx(u) PROVE PaidInv'
  <2>1. UNCHANGED <<sends, lost, cur, pc, payFor>> /\ todo' = todo \ {u}
    BY <1>5 DEF SkipTx, batch
  <2> QED
    BY <1>0, <1>1, <2>1, PaidMore DEF Allowed, Unsent, AnyToSend
<1>6. ASSUME NEW u \in Utxos, NEW d \in Shares, Distribute(u, d) PROVE PaidInv'
  <2>1. /\ UNCHANGED <<sends, lost>> /\ pc = "farm" /\ pc' = "filter"
        /\ u \in todo /\ todo' = todo \ {u} /\ cur' = u /\ cur = None
    BY <1>0, <1>6 DEF Distribute, ghosts, TypeOK
  <2> QED
    BY <1>0, <1>1, <2>1, PaidMore DEF Allowed, Unsent
<1>7. ASSUME NEW a \in Keys, FilterAddress(a) PROVE PaidInv'
  <2>1. UNCHANGED <<sends, lost, todo, cur>> /\ pc = "filter" /\ pc' \in {"filter", "send"}
    BY <1>7 DEF FilterAddress, FilterStep, ghosts
  <2> QED
    BY <1>0, <1>1, <2>1, PaidMore DEF Allowed, Unsent
<1>8. CASE NothingToSend
  <2>1. /\ UNCHANGED <<sends, lost, todo, cur, payFor>> /\ pc = "send" /\ pc' = "update"
        /\ ~AnyToSend
    BY <1>8 DEF NothingToSend, ghosts, batch
  <2> QED
    BY <1>0, <1>1, <2>1, PaidMore DEF Allowed, Unsent, AnyToSend
<1>9. CASE SendMany
  <2>1. /\ sends' = [sends EXCEPT ![cur] = @ + 1]
        /\ UNCHANGED <<lost, todo, cur, payFor, utxoRows>>
        /\ pc = "send" /\ pc' = "update" /\ AnyToSend /\ cur \in Utxos
    BY <1>0, <1>9 DEF SendMany, Broadcast, db, batch, TypeOK
  <2> SUFFICES ASSUME NEW u \in Utxos PROVE sends'[u] <= lost'[u] + Allowed(u)'
    BY <1>0, <2>1 DEF PaidInv
  <2>2. sends[u] \in Nat /\ lost[u] \in Nat /\ sends[u] <= lost[u] + Allowed(u)
    BY DEF PaidInv, TypeOK
  <2>3. CASE u = cur
    <3>1. Allowed(u) = 0 /\ Allowed(u)' = 1
      BY <1>0, <2>1, <2>3 DEF Allowed, Unsent, AnyToSend
    <3>2. sends'[u] = sends[u] + 1
      BY <2>1, <2>3 DEF PaidInv, TypeOK
    <3> QED
      BY <2>1, <2>2, <3>1, <3>2
  <2>4. CASE u # cur
    <3>1. Allowed(u)' = Allowed(u) /\ sends'[u] = sends[u]
      BY <1>0, <2>1, <2>4 DEF Allowed, Unsent, Processed, PaidInv, TypeOK
    <3> QED
      BY <2>1, <2>2, <3>1
  <2> QED
    BY <2>3, <2>4
<1>10. CASE SendReplyLost
  <2>1. /\ sends' = [sends EXCEPT ![cur] = @ + 1] /\ lost' = [lost EXCEPT ![cur] = @ + 1]
        /\ utxoRows' = utxoRows /\ pc = "send" /\ pc' = "idle" /\ todo' = {} /\ cur' = None
    BY <1>10 DEF SendReplyLost, Broadcast, Return, db
  <2> SUFFICES ASSUME NEW u \in Utxos PROVE sends'[u] <= lost'[u] + Allowed(u)'
    BY <1>0, <2>1 DEF PaidInv
  <2>2. sends[u] \in Nat /\ lost[u] \in Nat /\ sends[u] <= lost[u] + Allowed(u)
    BY DEF PaidInv, TypeOK
  <2>3. Allowed(u) = 1 => Allowed(u)' = 1
    BY <1>0, <2>1 DEF Allowed, Unsent, Processed
  <2>4. Allowed(u) \in {0, 1} /\ Allowed(u)' \in {0, 1}
    BY DEF Allowed
  <2>5. sends'[u] - sends[u] = lost'[u] - lost[u]
    BY <2>1, <2>2 DEF PaidInv, TypeOK
  <2>6. sends'[u] \in Nat /\ lost'[u] \in Nat
    BY <1>0 DEF TypeOK
  <2> QED
    BY <2>2, <2>3, <2>4, <2>5, <2>6
<1>11. CASE EndUnrecorded /\ pc = "update" /\ AnyToSend
  <2>1. /\ sends' = sends /\ lost' = [lost EXCEPT ![cur] = @ + 1]
        /\ utxoRows' = utxoRows /\ pc' = "idle" /\ todo' = {} /\ cur' = None
    BY <1>11 DEF EndUnrecorded, Return, db
  <2> SUFFICES ASSUME NEW u \in Utxos PROVE sends'[u] <= lost'[u] + Allowed(u)'
    BY <1>0, <2>1 DEF PaidInv
  <2>2. sends[u] \in Nat /\ lost[u] \in Nat /\ sends[u] <= lost[u] + Allowed(u)
    BY DEF PaidInv, TypeOK
  <2>3. Allowed(u) \in {0, 1} /\ Allowed(u)' \in {0, 1}
    BY DEF Allowed
  <2>4. CASE u = cur
    <3>1. lost'[u] = lost[u] + 1
      BY <2>1, <2>4 DEF PaidInv, TypeOK
    <3> QED
      BY <2>1, <2>2, <2>3, <3>1
  <2>5. CASE u # cur
    <3>1. lost'[u] = lost[u]
      BY <2>1, <2>5 DEF PaidInv, TypeOK
    <3>2. Allowed(u) = 1 => Allowed(u)' = 1
      BY <1>0, <2>1, <2>5 DEF Allowed, Unsent, Processed
    <3> QED
      BY <2>1, <2>2, <2>3, <3>1, <3>2
  <2> QED
    BY <2>4, <2>5
<1>12. CASE EndUnrecorded /\ ~(pc = "update" /\ AnyToSend)
  BY <1>3, <1>12 DEF EndUnrecorded
<1>13. CASE UpdateThresholdStatus
  <2>1. UNCHANGED <<sends, lost, todo, cur>> /\ pc = "update" /\ pc' = "save" /\ cur \in Utxos
    BY <1>0, <1>13 DEF UpdateThresholdStatus, TypeOK
  <2>2. Processed(cur)'
    BY <1>0, <1>13, <2>1 DEF UpdateThresholdStatus, Processed, TypeOK, TxIds
  <2> QED
    BY <1>0, <1>1, <2>1, <2>2, PaidMore DEF Allowed, Unsent
<1>14. CASE SaveStatistics
  <2>1. /\ UNCHANGED <<sends, lost, todo>> /\ pc = "save" /\ pc' = "farm" /\ cur' = None
        /\ todo \subseteq Utxos
    BY <1>0, <1>14 DEF SaveStatistics, TypeOK
  <2> QED
    BY <1>0, <1>1, <2>1, PaidMore DEF Allowed, Unsent
<1>15. CASE Environment \/ SkipFarm \/ UNCHANGED vars
  BY <1>2, <1>15 DEF Environment, Deposit, RegisterPayoutAddress, VerifyCollection, BumpFee,
                     SkipFarm, vars, batch, ghosts
<1>16. CASE Progress
  BY <1>3, <1>4, <1>5, <1>6, <1>7, <1>8, <1>9, <1>13, <1>14, <1>16
  DEF Progress, FinishFarm, DistributionRefused, BalanceTooLow, ghosts
<1>17. CASE Failure
  BY <1>3, <1>10, <1>11, <1>12, <1>17
  DEF Failure, ComputeFails, FilterFails, SendRejected, UpdateFails, SaveFails, Crash, ghosts
<1> QED
  BY <1>15, <1>16, <1>17 DEF Next

LEMMA PaidInit == Init => PaidInv
<1> SUFFICES ASSUME Init PROVE \A u \in Utxos : sends[u] <= lost[u] + Allowed(u)
  BY TypeInit DEF Init, PaidInv
<1>1. \A u \in Utxos : sends[u] = 0 /\ lost[u] = 0
  BY DEF Init
<1> QED
  BY <1>1 DEF Allowed

(* Whatever fails, wherever the process stops and however many outputs a   *)
(* transaction has: a deposit is paid again only for a call that ended     *)
(* between sendmany and the record of it, and never once it is marked.     *)
THEOREM PaidOnce == Spec => []PaidAgainOnlyIfLost
<1>1. PaidInv => PaidAgainOnlyIfLost
  <2> SUFFICES ASSUME PaidInv, NEW u \in Utxos
               PROVE  sends[u] <= lost[u] + (IF Processed(u) \/ (u = cur /\ pc = "update") THEN 1 ELSE 0)
    BY DEF PaidAgainOnlyIfLost
  <2>1. sends[u] \in Nat /\ lost[u] \in Nat /\ sends[u] <= lost[u] + Allowed(u)
    BY DEF PaidInv, TypeOK
  <2> QED
    BY <2>1 DEF Allowed
<1> QED
  BY <1>1, PaidInit, PaidStep, PTL DEF Spec

-----------------------------------------------------------------------------
(* The periods.  An output that is yet to be processed has an empty one.   *)
Ahead(u) == u \in todo \/ (u = cur /\ pc \in {"filter", "send", "update"})

Fresh == \A u \in Utxos : ~Processed(u) \/ Ahead(u) => start[u] = Time[u]

(* A start is that of the farm, a payment, or the 0 of a skipped output.   *)
Origin == lastPayment \in {0, FarmStart} \cup PaymentTimes

(* Where the period of the next output of the call will start.             *)
NextStart == IF pc = "save" /\ lastPayment < Time[cur] THEN Time[cur] ELSE lastPayment

AfterPayments ==
  \A u \in Utxos \ rewound : Ahead(u) => \A t \in PaymentTimes : t <= NextStart

PeriodInv ==
  /\ PaidInv /\ HistoryInv
  /\ Fresh /\ Origin /\ AfterPayments
  /\ PeriodsCoverTime /\ PeriodsDisjoint

(* What is claimed of a step beyond the invariants it starts with.         *)
PeriodConjuncts == Fresh /\ Origin /\ AfterPayments /\ PeriodsCoverTime /\ PeriodsDisjoint

(* Steps that process nothing and carry no start forward.                  *)
LEMMA PeriodUnchanged ==
  ASSUME PeriodInv, UNCHANGED <<utxoRows, start>>, rewound \subseteq rewound',
         \/ lastPayment' = lastPayment /\ NextStart' = NextStart
         \/ lastPayment' = 0 /\ \A u \in Utxos \ rewound' : ~Ahead(u)',
         \A u \in Utxos : Ahead(u)' => Ahead(u)
  PROVE  PeriodConjuncts'
<1>1. UNCHANGED PaymentTimes /\ \A u \in Utxos : Processed(u)' <=> Processed(u)
  BY DEF PaymentTimes, Processed
<1>2. Fresh' /\ Origin'
  BY <1>1 DEF PeriodInv, Fresh, Origin
<1>3. AfterPayments'
  BY <1>1 DEF PeriodInv, AfterPayments
<1>4. PeriodsCoverTime' /\ PeriodsDisjoint'
  BY <1>1 DEF PeriodInv, PeriodsCoverTime, PeriodsDisjoint, Period
<1> QED
  BY <1>2, <1>3, <1>4 DEF PeriodConjuncts

LEMMA PeriodListed == PeriodInv /\ ListUnspent => PeriodConjuncts'
<1> SUFFICES ASSUME PeriodInv, ListUnspent PROVE PeriodConjuncts'
  OBVIOUS
<1>1. TypeOK /\ None \notin Utxos
  BY SetsAssumption DEF PeriodInv, PaidInv
<1>2. /\ UNCHANGED <<utxoRows, start, cur>> /\ pc = "idle" /\ pc' = "farm" /\ cur = None
      /\ rewound' = rewound \ todo' /\ todo' \subseteq Utxos
      /\ \A u \in todo' : ~Processed(u)
      /\ IsLastTimestamp(lastPayment') /\ lastPayment' \in PaymentTimes \cup {FarmStart}
  BY <1>1 DEF ListUnspent, db, TypeOK
<1>3. UNCHANGED PaymentTimes /\ \A u \in Utxos : Processed(u)' <=> Processed(u)
  BY <1>2 DEF PaymentTimes, Processed
<1>4. \A u \in Utxos : Ahead(u)' <=> u \in todo'
  BY <1>1, <1>2 DEF Ahead
<1>5. Fresh' /\ Origin'
  BY <1>2, <1>3, <1>4 DEF PeriodInv, Fresh, Origin
<1>6. AfterPayments'
  <2>1. \A t \in PaymentTimes : t <= lastPayment'
    BY <1>2 DEF IsLastTimestamp
  <2> QED
    BY <1>2, <1>3, <2>1 DEF AfterPayments, NextStart
<1>7. \A u \in Utxos : Period(u)' = Period(u)
  BY <1>2 DEF Period
<1>8. PeriodsCoverTime'
  BY <1>3, <1>7 DEF PeriodInv, PeriodsCoverTime
<1>9. PeriodsDisjoint'
  <2>1. \A u \in todo' : Period(u) = {}
    <3> SUFFICES ASSUME NEW u \in todo' PROVE Period(u) = {}
      OBVIOUS
    <3>1. start[u] = Time[u] /\ Time[u] \in Nat
      BY <1>2, AmountsAssumption DEF PeriodInv, Fresh
    <3> QED
      BY <3>1 DEF Period
  <2> QED
    BY <1>2, <1>7, <2>1 DEF PeriodInv, PeriodsDisjoint
<1> QED
  BY <1>5, <1>6, <1>8, <1>9 DEF PeriodConjuncts

LEMMA PeriodUpdated == PeriodInv /\ UpdateThresholdStatus /\ TypeOK' => PeriodConjuncts'
<1> SUFFICES ASSUME PeriodInv, UpdateThresholdStatus, TypeOK' PROVE PeriodConjuncts'
  OBVIOUS
<1>1. TypeOK /\ cur \in Utxos /\ cur \notin todo
  BY DEF PeriodInv, PaidInv, UpdateThresholdStatus, TypeOK
<1>2. /\ start' = [start EXCEPT ![cur] = lastPayment] /\ start \in [Utxos -> Nat]
      /\ pc = "update" /\ pc' = "save" /\ UNCHANGED <<todo, cur, lastPayment, rewound>>
      /\ lastPayment \in Nat
  BY <1>1 DEF UpdateThresholdStatus, TypeOK
<1>3. \A u \in Utxos : Processed(u)' <=> Processed(u) \/ TxOf[u] = TxOf[cur]
  <2>1. /\ utxoRows' = [utxoRows EXCEPT ![TxOf[cur]] = @ + 1]
        /\ utxoRows \in [TxIds -> Nat]
    BY <1>1 DEF UpdateThresholdStatus, TypeOK
  <2>2. \A u \in Utxos : TxOf[u] \in TxIds /\ utxoRows[TxOf[u]] \in Nat
    BY <2>1 DEF TxIds
  <2> QED
    BY <1>1, <2>1, <2>2 DEF Processed
<1>4. \A u \in Utxos : Time[u] \in Nat /\ (TxOf[u] = TxOf[cur] => Time[u] = Time[cur])
  BY <1>1, AmountsAssumption
<1>5. PaymentTimes' = PaymentTimes \cup {Time[cur]}
  BY <1>1, <1>3, <1>4 DEF PaymentTimes
<1>6. \A u \in Utxos : Ahead(u)' <=> u \in todo
  BY <1>2 DEF Ahead
<1>7. Fresh'
  <2> SUFFICES ASSUME NEW u \in Utxos, ~Processed(u)' \/ Ahead(u)' PROVE start'[u] = Time[u]
    BY DEF Fresh
  <2>1. u # cur /\ (~Processed(u) \/ Ahead(u))
    BY <1>1, <1>3, <1>6 DEF Ahead
  <2> QED
    BY <1>2, <2>1 DEF PeriodInv, Fresh
<1>8. Origin'
  BY <1>2, <1>5 DEF PeriodInv, Origin
<1>9. AfterPayments'
  <2> SUFFICES ASSUME NEW u \in Utxos \ rewound, u \in todo, NEW t \in PaymentTimes'
               PROVE  t <= NextStart'
    BY <1>2, <1>6 DEF AfterPayments
  <2>1. t \in PaymentTimes => t <= lastPayment
    BY <1>2 DEF PeriodInv, AfterPayments, Ahead, NextStart
  <2>2. t \in Nat /\ Time[cur] \in Nat
    BY <1>1, <1>4, <1>5 DEF PaymentTimes
  <2> QED
    BY <1>2, <1>5, <2>1, <2>2 DEF NextStart
<1>10. Period(cur) = {} /\ Period(cur)' = lastPayment .. (Time[cur] - 1)
  <2>1. start[cur] = Time[cur]
    BY <1>1, <1>2 DEF PeriodInv, Fresh, Ahead
  <2> QED
    BY <1>1, <1>2, <1>4, <2>1 DEF Period
<1>11. \A v \in Utxos : v # cur => Period(v)' = Period(v)
  BY <1>1, <1>2 DEF Period
<1>12. PeriodsCoverTime'
  <2> SUFFICES ASSUME NEW u \in Utxos, Processed(u)', NEW s \in FarmStart .. (Time[u] - 1)
               PROVE  \E v \in Utxos : s \in Period(v)'
    BY DEF PeriodsCoverTime
  <2>0. s \in Int /\ FarmStart \in Nat /\ FarmStart <= s /\ s <= Time[u] - 1
    BY <1>4, AmountsAssumption
  <2>1. ASSUME NEW w \in Utxos, Processed(w), s <= Time[w] - 1
        PROVE  \E v \in Utxos : s \in Period(v)'
    <3>1. s \in FarmStart .. (Time[w] - 1)
      BY <1>4, <2>0, <2>1
    <3>2. PICK v \in Utxos : s \in Period(v)
      BY <2>1, <3>1 DEF PeriodInv, PeriodsCoverTime
    <3> QED
      BY <1>10, <1>11, <3>2
  <2>2. CASE Processed(u)
    BY <2>0, <2>1, <2>2
  <2>3. CASE ~Processed(u)
    <3>1. Time[u] = Time[cur]
      BY <1>3, <1>4, <2>3
    <3>2. CASE lastPayment <= s
      <4>1. s \in Period(cur)'
        BY <1>1, <1>2, <1>4, <1>10, <2>0, <3>1, <3>2
      <4> QED
        BY <1>1, <1>2, <4>1
    <3>3. CASE s < lastPayment
      <4>1. lastPayment \in PaymentTimes
        BY <1>2, <2>0, <3>3 DEF PeriodInv, Origin
      <4>2. PICK w \in Utxos : Processed(w) /\ lastPayment = Time[w]
        BY <4>1 DEF PaymentTimes
      <4> QED
        BY <1>4, <2>0, <2>1, <3>3, <4>2
    <3> QED
      BY <1>2, <2>0, <3>2, <3>3
  <2> QED
    BY <2>2, <2>3
<1>13. PeriodsDisjoint'
  <2>1. ASSUME NEW v \in Utxos \ rewound, v # cur, cur \notin rewound
        PROVE  Period(v) \cap Period(cur)' = {}
    <3>1. start[v] \in Nat /\ Time[v] \in Nat
      BY <1>2, <1>4
    <3>2. CASE Processed(v)
      <4>1. Time[v] <= lastPayment
        BY <1>1, <1>2, <2>1, <3>2 DEF PeriodInv, AfterPayments, PaymentTimes, Ahead, NextStart
      <4> QED
        BY <1>1, <1>2, <1>4, <1>10, <3>1, <4>1 DEF Period
    <3>3. CASE ~Processed(v)
      <4>1. start[v] = Time[v]
        BY <3>3 DEF PeriodInv, Fresh
      <4> QED
        BY <3>1, <4>1 DEF Period
    <3> QED
      BY <3>2, <3>3
  <2>2. \A u, v \in Utxos \ rewound : u # v => Period(u) \cap Period(v) = {}
    BY DEF PeriodInv, PeriodsDisjoint
  <2> SUFFICES ASSUME NEW u \in Utxos \ rewound, NEW v \in Utxos \ rewound, u # v
               PROVE  Period(u)' \cap Period(v)' = {}
    BY <1>2 DEF PeriodsDisjoint
  <2> QED
    BY <1>2, <1>11, <2>1, <2>2
<1> QED
  BY <1>7, <1>8, <1>9, <1>12, <1>13 DEF PeriodConjuncts

LEMMA PeriodSaved == PeriodInv /\ SaveStatistics => PeriodConjuncts'
<1> SUFFICES ASSUME PeriodInv, SaveStatistics PROVE PeriodConjuncts'
  OBVIOUS
<1>1. TypeOK /\ cur \in Utxos /\ None \notin Utxos
  BY SetsAssumption DEF PeriodInv, PaidInv, SaveStatistics, TypeOK
<1>2. /\ UNCHANGED <<utxoRows, start, todo>> /\ pc = "save" /\ pc' = "farm" /\ cur' = None
      /\ lastPayment' = Time[cur] /\ lastPayment \in Nat /\ Time[cur] \in Nat
      /\ rewound' = IF Time[cur] < lastPayment THEN rewound \cup todo ELSE rewound
  BY <1>1, AmountsAssumption DEF SaveStatistics, TypeOK
<1>3. UNCHANGED PaymentTimes /\ \A u \in Utxos : Processed(u)' <=> Processed(u)
  BY <1>2 DEF PaymentTimes, Processed
<1>4. \A u \in Utxos : Ahead(u)' <=> u \in todo
  BY <1>1, <1>2 DEF Ahead
<1>5. Fresh'
  BY <1>2, <1>3, <1>4 DEF PeriodInv, Fresh, Ahead
<1>6. Origin'
  BY <1>1, <1>2, <1>3 DEF PeriodInv, HistoryInv, Origin, PaymentTimes
<1>7. AfterPayments'
  <2> SUFFICES ASSUME NEW u \in Utxos \ rewound', u \in todo, NEW t \in PaymentTimes
               PROVE  t <= Time[cur]
    BY <1>2, <1>3, <1>4 DEF AfterPayments, NextStart
  <2>1. ~(Time[cur] < lastPayment) /\ u \notin rewound
    BY <1>2
  <2>2. t <= NextStart
    BY <2>1 DEF PeriodInv, AfterPayments, Ahead
  <2> QED
    BY <1>2, <2>1, <2>2 DEF NextStart
<1>8. PeriodsCoverTime' /\ PeriodsDisjoint'
  BY <1>2, <1>3 DEF PeriodInv, PeriodsCoverTime, PeriodsDisjoint, Period
<1> QED
  BY <1>5, <1>6, <1>7, <1>8 DEF PeriodConjuncts

LEMMA PeriodStep == PeriodInv /\ [Next]_vars => PeriodInv'
<1> SUFFICES ASSUME PeriodInv, [Next]_vars PROVE PeriodConjuncts'
  BY PaidStep, HistoryStep DEF PeriodInv, PeriodConjuncts
<1>0. TypeOK /\ TypeOK' /\ None \notin Utxos
  BY TypeStep, SetsAssumption DEF PeriodInv, PaidInv
<1>1. CASE UNCHANGED <<utxoRows, start, rewound, pc, todo, cur, lastPayment>>
  BY <1>1, PeriodUnchanged DEF Ahead, NextStart
<1>2. CASE Return /\ UNCHANGED <<utxoRows, start, rewound>>
  <2>1. \A u \in Utxos : ~Ahead(u)'
    BY <1>2 DEF Return, Ahead
  <2> QED
    BY <1>2, <2>1, PeriodUnchanged DEF Return
<1>3. CASE /\ UNCHANGED <<utxoRows, start, rewound, todo, cur, lastPayment>>
           /\ pc \in {"filter", "send"} /\ pc' \in {"filter", "send", "update"}
  BY <1>3, PeriodUnchanged DEF Ahead, NextStart
<1>4. ASSUME NEW u \in Utxos, SkipTx(u) PROVE PeriodConjuncts'
  <2>1. /\ UNCHANGED <<utxoRows, start, cur, pc>> /\ todo' = todo \ {u} /\ pc = "farm"
        /\ lastPayment' = 0 /\ rewound' = rewound \cup todo'
    BY <1>4 DEF SkipTx, db
  <2>2. \A v \in Utxos : Ahead(v)' <=> v \in todo'
    BY <2>1 DEF Ahead
  <2>3. \A v \in Utxos : Ahead(v)' => Ahead(v) /\ v \in rewound'
    BY <2>1, <2>2 DEF Ahead
  <2> QED
    BY <2>1, <2>3, PeriodUnchanged
<1>5. ASSUME NEW u \in Utxos, NEW d \in Shares, Distribute(u, d) PROVE PeriodConjuncts'
  <2>1. /\ UNCHANGED <<utxoRows, start, rewound, lastPayment>>
        /\ u \in todo /\ todo' = todo \ {u} /\ cur' = u /\ pc = "farm" /\ pc' = "filter"
    BY <1>5 DEF Distribute, db, ghosts
  <2> QED
    BY <2>1, PeriodUnchanged DEF Ahead, NextStart
<1>6. CASE Environment \/ SkipFarm \/ UNCHANGED vars
  BY <1>1, <1>6 DEF Environment, Deposit, RegisterPayoutAddress, VerifyCollection, BumpFee,
                    SkipFarm, vars, db, ghosts
<1>7. CASE Progress
  BY <1>0, <1>2, <1>3, <1>4, <1>5, <1>7, PeriodListed, PeriodUpdated, PeriodSaved
  DEF Progress, FinishFarm, DistributionRefused, FilterAddress, FilterStep, BalanceTooLow,
      NothingToSend, SendMany, Broadcast, db, ghosts
<1>8. CASE Failure
  BY <1>2, <1>8
  DEF Failure, ComputeFails, FilterFails, SendRejected, SendReplyLost, Broadcast,
      UpdateFails, EndUnrecorded, SaveFails, Crash, db, ghosts
<1> QED
  BY <1>6, <1>7, <1>8 DEF Next

LEMMA PeriodInit == Init => PeriodInv
<1> SUFFICES ASSUME Init PROVE PeriodInv
  OBVIOUS
<1>1. \A u \in Utxos : ~Processed(u)
  BY DEF Init, Processed, TxIds
<1>2. PaidInv /\ HistoryInv
  BY TypeInit, PaidInit DEF Init, HistoryInv, HistoryOnlyOfProcessed
<1>3. Fresh /\ Origin
  BY DEF Init, Fresh, Origin
<1>4. PaymentTimes = {}
  BY <1>1 DEF PaymentTimes
<1>5. AfterPayments /\ PeriodsCoverTime
  BY <1>1, <1>4 DEF AfterPayments, PeriodsCoverTime
<1>6. \A u \in Utxos : Period(u) = {}
  BY AmountsAssumption DEF Init, Period
<1> QED
  BY <1>2, <1>3, <1>5, <1>6 DEF PeriodInv, PeriodsDisjoint

(* In whatever order outputs are listed, skipped and processed, and        *)
(* whatever fails, the periods of the processed ones leave out no second.  *)
THEOREM NoTimeLeftOut == Spec => []PeriodsCoverTime
<1>1. PeriodInv => PeriodsCoverTime
  BY DEF PeriodInv
<1> QED
  BY <1>1, PeriodInit, PeriodStep, PTL DEF Spec

(* And they only overlap where the start of a call had gone back.          *)
THEOREM NoTimeTwice == Spec => []PeriodsDisjoint
<1>1. PeriodInv => PeriodsDisjoint
  BY DEF PeriodInv
<1> QED
  BY <1>1, PeriodInit, PeriodStep, PTL DEF Spec
=============================================================================
