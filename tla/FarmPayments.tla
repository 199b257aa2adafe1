---------------------------- MODULE FarmPayments ----------------------------
(***************************************************************************)
(* The payment of the rewards of one farm: PayService.Execute down to the  *)
(* Bitcoin node and the database (services/pay.go, pay_support.go,         *)
(* sql_db/).  The mining pool deposits coins at the farm's address; for    *)
(* every deposit the service computes a distribution, adds what each       *)
(* destination had accumulated, sends what has reached the threshold with  *)
(* one sendmany, marks the deposit as processed together with the new      *)
(* accumulated amounts (one database transaction), and saves the           *)
(* statistics (a second one).  Nothing ties the three steps together: any  *)
(* of them can fail, and the process can stop between them.                *)
(*                                                                         *)
(* Amounts are integers in a unit of which a satoshi holds Satoshi, so     *)
(* that RoundFloor(8) is a real rounding.  What the reward calculator      *)
(* computes is abstracted to a choice among Shares.                        *)
(***************************************************************************)
EXTENDS Integers, FiniteSets, Functions

CONSTANTS
  Utxos,          \* outputs the pool sends to AddressForReceivingRewardsFromPool
  TxOf,           \* the transaction of each output
  Amount,         \* its amount
  Time,           \* the time of its transaction (txRawResult.Time)
  FarmStart,      \* farm.FarmStartTime
  Expiry,         \* the latest expiration date of the farm's NFTs
  Shares,         \* distributions the calculator may produce
  Direct,         \* BTC addresses paid directly: fees, maintenance, leftover
  Owners,         \* cudos1... addresses of NFT owners
  PayoutChoices,  \* BTC addresses each owner may register as payout address
  Threshold,      \* GlobalPayoutThresholdInBTC
  Satoshi,        \* units in one satoshi
  Faults,         \* the kinds of failure that may happen
  MaxBumps,       \* the retry service raises fees so many times
  Spaced,         \* TRUE: the pool pays again only after the last deposit was processed
  Verified0,      \* TRUE: the farm has a verified collection from the start
  None            \* "no address" and "no transaction"

FaultKinds == {"compute",    \* a read or the calculation fails before anything is written
               "filter",     \* a read or an insert fails in filterByPaymentThreshold
               "reject",     \* the balance cannot be read, or sendmany is not executed
               "lostReply",  \* sendmany is executed and its reply never arrives
               "update",     \* UpdateThresholdStatus is rolled back
               "save",       \* SaveStatistics is rolled back
               "crash"}      \* the process stops

Keys    == Direct \cup Owners                        \* what a distribution names
Address == Keys \cup UNION {PayoutChoices[o] : o \in Owners}
TxIds   == {TxOf[u] : u \in Utxos}

ASSUME SetsAssumption ==
  /\ IsFiniteSet(Utxos)
  /\ IsFiniteSet(Address)
  /\ Direct \cap Owners = {}
  /\ None \notin Address \cup Utxos
  /\ PayoutChoices \in [Owners -> SUBSET Address]
  /\ \A o \in Owners : PayoutChoices[o] \cap Owners = {}

ASSUME AmountsAssumption ==
  /\ Amount \in [Utxos -> Nat \ {0}]
  /\ Time \in [Utxos -> Nat \ {0}]
  /\ \A u, v \in Utxos : TxOf[u] = TxOf[v] => Time[u] = Time[v]
  /\ FarmStart \in Nat \ {0}
  /\ Expiry \in Nat
  /\ Satoshi \in Nat \ {0}
  /\ Threshold \in Nat
  /\ Threshold >= Satoshi
  /\ MaxBumps \in Nat

ASSUME SharesAssumption == Shares \subseteq [Address -> Nat] /\
                           \A d \in Shares : \A a \in Address \ Keys : d[a] = 0

ASSUME FaultsAssumption == Faults \subseteq FaultKinds /\ Spaced \in BOOLEAN /\ Verified0 \in BOOLEAN

VARIABLES
  \* the Bitcoin node: what the farm's wallet holds
  arrived,      \* outputs the pool has sent so far
  unspent,      \* those of them that are still unspent
  change,       \* the sum of the wallet's change outputs
  \* the database
  utxoRows,     \* number of rows per transaction in utxo_transactions
  acc,          \* threshold_amounts: what each address has accumulated
  hasRow,       \* the addresses with a row in threshold_amounts
  history,      \* outputs whose payout statistics are saved
  hashes,       \* those of them with a payment, whose hash is saved as Pending
  \* the Cudos chain
  payout,       \* the BTC address registered for each owner
  verified,     \* some collection of the farm is verified
  \* the locals of one call of processFarm
  pc,
  todo,         \* unspentTxsForFarm not yet processed
  cur,          \* unspentTxForFarm
  lastPayment,  \* lastPaymentTimestamp
  dest,         \* destinationAddressesWithAmountBtcDecimal
  remaining,    \* its keys the loop of filterByPaymentThreshold has not visited
  touched,      \* the keys of addressesWithThresholdToUpdateBtcDecimal
  toUpdate,     \* its values
  slot,         \* addressesToSend: for each address the key whose amount it holds
  payFor,       \* and for each key the amount that is to be sent on its behalf
  \* history variables, read by the environment and the properties only
  sends,        \* how often a payment was broadcast for an output
  lost,         \* how often the call ended before such a payment was recorded
  start,        \* where the period began an output was processed for: before
                \* that its own time, an empty period
  rewound,      \* outputs of a call whose lastPaymentTimestamp has gone back
  paid,         \* what was sent on behalf of each key
  credited,     \* the rewards of the deposits that are marked as processed
  fees,         \* the sum of what bumpfee took from the wallet
  unrecorded    \* the sum of the payments whose record was lost

node    == <<arrived, unspent, change>>
db      == <<utxoRows, acc, hasRow, history, hashes>>
cudos   == <<payout, verified>>
batch   == <<dest, remaining, touched, toUpdate, slot, payFor>>
ghosts  == <<sends, lost, start, rewound, paid, credited, fees, unrecorded>>
vars    == <<node, db, cudos, pc, todo, cur, lastPayment, batch, ghosts>>

-----------------------------------------------------------------------------
Zero       == [a \in Address |-> 0]
Total(f)   == SumFunctionOnSet(f, Address)
Coins(S)   == SumFunctionOnSet(Amount, S)

(* GetBalance("*"): everything in the wallet, change included. *)
Balance == change + Coins(unspent)

(* isTransactionProcessed: looked up by transaction, not by output. *)
Processed(u) == utxoRows[TxOf[u]] > 0

PaymentTimes == {Time[u] : u \in {v \in Utxos : Processed(v)}}

(* Mutant: the earliest payment instead of the latest (ORDER BY ... ASC).   *)
IsLastTimestamp_Earliest(t) ==
  IF PaymentTimes = {} THEN t = FarmStart
  ELSE t \in PaymentTimes /\ \A s \in PaymentTimes : t <= s

(* getLastUTXOTransactionTimestamp: the latest payment_timestamp of the    *)
(* farm, or the start of the farm.                                         *)
IsLastTimestamp(t) ==
  IF PaymentTimes = {} THEN t = FarmStart
  ELSE t \in PaymentTimes /\ \A s \in PaymentTimes : s <= t

Init ==
  /\ arrived = {} /\ unspent = {} /\ change = 0
  /\ utxoRows = [t \in TxIds |-> 0]
  /\ acc = Zero /\ hasRow = {} /\ history = {} /\ hashes = {}
  /\ payout = [o \in Owners |-> None] /\ verified = Verified0
  /\ pc = "idle" /\ todo = {} /\ cur = None /\ lastPayment = 0
  /\ dest = Zero /\ remaining = {} /\ touched = {} /\ toUpdate = Zero
  /\ slot = [a \in Address |-> None] /\ payFor = Zero
  /\ sends = [u \in Utxos |-> 0] /\ lost = [u \in Utxos |-> 0]
  /\ start = Time /\ rewound = {}
  /\ paid = Zero /\ credited = Zero /\ fees = 0 /\ unrecorded = 0

-----------------------------------------------------------------------------
(* The environment. *)

(* The pool pays the farm; transaction times follow the order of arrival. *)
Deposit(u) ==
  /\ u \notin arrived
  /\ \A v \in arrived : Time[v] <= Time[u]
  /\ Spaced => \A v \in arrived : Processed(v)
  /\ arrived' = arrived \cup {u}
  /\ unspent' = unspent \cup {u}
  /\ UNCHANGED <<change, db, cudos, pc, todo, cur, lastPayment, batch, ghosts>>

(* An owner registers a payout address, or another one later. *)
RegisterPayoutAddress(o, b) ==
  /\ payout[o] # b
  /\ payout' = [payout EXCEPT ![o] = b]
  /\ UNCHANGED <<node, db, verified, pc, todo, cur, lastPayment, batch, ghosts>>

VerifyCollection ==
  /\ ~verified
  /\ verified' = TRUE
  /\ UNCHANGED <<node, db, payout, pc, todo, cur, lastPayment, batch, ghosts>>

(* The retry service replaces a payment it knows of by one with a higher   *)
(* fee, which the node takes from the change.  It excludes this service    *)
(* (Workers); nobody writes the fee into the books of the farm.            *)
BumpFee ==
  /\ pc = "idle"
  /\ hashes # {}
  /\ fees < MaxBumps * Satoshi
  /\ change >= Satoshi
  /\ change' = change - Satoshi
  /\ fees' = fees + Satoshi
  /\ UNCHANGED <<arrived, unspent, db, cudos, pc, todo, cur, lastPayment, batch,
                 sends, lost, start, rewound, paid, credited, unrecorded>>

-----------------------------------------------------------------------------
(* The locals of a call that returns, with or without an error.            *)
ClearBatch ==
  /\ dest' = Zero /\ remaining' = {} /\ touched' = {} /\ toUpdate' = Zero
  /\ slot' = [a \in Address |-> None] /\ payFor' = Zero

(* processFarm returns; Execute logs the error, if any, and goes on.       *)
Return ==
  /\ pc' = "idle" /\ todo' = {} /\ cur' = None /\ lastPayment' = 0
  /\ ClearBatch

(* GetUTXOTransaction fails when a listed transaction has two rows.        *)
ListingFails == \E u \in unspent : utxoRows[TxOf[u]] > 1

(* Mutant: transactions that are already processed are not filtered out.   *)
ListUnspent_Unfiltered ==
  /\ pc = "idle"
  /\ ~ListingFails
  /\ unspent # {}
  /\ pc' = "farm"
  /\ todo' = unspent
  /\ rewound' = rewound \ todo'
  /\ \E t \in PaymentTimes \cup {FarmStart} : IsLastTimestamp(t) /\ lastPayment' = t
  /\ UNCHANGED <<node, db, cudos, cur, batch, sends, lost, start, paid, credited, fees,
                 unrecorded>>

(* getUnspentTxsForFarm: change outputs and processed transactions are     *)
(* filtered out; the order of what is left is the node's.                  *)
ListUnspent ==
  LET listed == {u \in unspent : ~Processed(u)} IN
  /\ pc = "idle"
  /\ ~ListingFails
  /\ listed # {}
  /\ pc' = "farm"
  /\ todo' = listed
  /\ rewound' = rewound \ todo'
  /\ \E t \in PaymentTimes \cup {FarmStart} : IsLastTimestamp(t) /\ lastPayment' = t
  /\ UNCHANGED <<node, db, cudos, cur, batch, sends, lost, start, paid, credited, fees,
                 unrecorded>>

(* Nothing is listed, or the listing fails: the farm is left until the     *)
(* next tick.                                                              *)
SkipFarm ==
  /\ pc = "idle"
  /\ ListingFails \/ \A u \in unspent : Processed(u)
  /\ UNCHANGED vars

FinishFarm ==
  /\ pc = "farm" /\ todo = {}
  /\ Return
  /\ UNCHANGED <<node, db, cudos, ghosts>>

(* The early returns of processFarmUnspentTx with (0, nil): there is no    *)
(* verified collection, or every NFT expired before the period.  The zero  *)
(* becomes the last payment timestamp of the next output.                  *)
SkipTx(u) ==
  /\ pc = "farm" /\ u \in todo
  /\ ~verified \/ lastPayment > Expiry
  /\ todo' = todo \ {u}
  /\ lastPayment' = 0
  /\ rewound' = rewound \cup todo'
  /\ UNCHANGED <<node, db, cudos, pc, cur, batch, sends, lost, start, paid, credited, fees,
                 unrecorded>>

(* checkTotalAmountToDistribute accepts a distribution that adds up to the *)
(* amount received.                                                        *)
Complete(u) == {d \in Shares : Total(d) = Amount[u]}

(* processFarmUnspentTx up to filterByPaymentThreshold: a distribution is  *)
(* computed, checked, and zero rewards are removed.                        *)
Distribute(u, d) ==
  /\ pc = "farm" /\ u \in todo
  /\ verified /\ lastPayment <= Expiry
  /\ d \in Complete(u)
  /\ pc' = "filter"
  /\ todo' = todo \ {u}
  /\ cur' = u
  /\ dest' = d
  /\ remaining' = {a \in Keys : d[a] > 0}
  /\ UNCHANGED <<node, db, cudos, lastPayment, touched, toUpdate, slot, payFor, ghosts>>

DistributionRefused(u, d) ==
  /\ pc = "farm" /\ u \in todo
  /\ verified /\ lastPayment <= Expiry
  /\ d \notin Complete(u)
  /\ Return
  /\ UNCHANGED <<node, db, cudos, ghosts>>

ComputeFails ==
  /\ "compute" \in Faults
  /\ pc = "farm" /\ todo # {}
  /\ Return
  /\ UNCHANGED <<node, db, cudos, ghosts>>

-----------------------------------------------------------------------------
(* One iteration of filterByPaymentThreshold, for key a.                   *)

Redirected(a) == a \in Owners /\ payout[a] # None

Target(a) == IF Redirected(a) THEN payout[a] ELSE a

Accumulated(a) ==
  acc[a] + (IF Redirected(a) THEN acc[payout[a]] ELSE 0) + dest[a]

(* Mutant: only the new reward is compared with the threshold.             *)
Reached_NewOnly(a) == dest[a] >= Threshold /\ Target(a) \notin Owners

Reached(a) == Accumulated(a) >= Threshold /\ Target(a) \notin Owners

(* The entry of addressesToSend that key a writes.                         *)
Entry(a) == IF Reached(a) THEN Target(a) ELSE a

(* The iteration, given what is kept for the key, the addresses whose      *)
(* amount is zeroed and the rows inserted.                                 *)
FilterStep(a, kept, sent, zeroed, inserted) ==
  /\ pc = "filter" /\ a \in remaining
  /\ remaining' = remaining \ {a}
  /\ pc' = IF remaining' = {} THEN "send" ELSE "filter"
  /\ hasRow' = hasRow \cup inserted
  /\ touched' = touched \cup {a} \cup zeroed
  /\ toUpdate' = [k \in Address |-> IF k = a THEN kept
                                    ELSE IF k \in zeroed THEN 0 ELSE toUpdate[k]]
  /\ slot' = [slot EXCEPT ![Entry(a)] = a]
  /\ payFor' = [k \in Address |-> IF k = a THEN sent
                                  ELSE IF slot[Entry(a)] = k THEN 0 ELSE payFor[k]]
  /\ UNCHANGED <<node, utxoRows, acc, history, hashes, cudos, todo, cur, lastPayment, dest, ghosts>>

Dust(a)   == Accumulated(a) % Satoshi
Kept(a)   == IF Reached(a) THEN Dust(a) ELSE Accumulated(a)
Sent(a)   == IF Reached(a) THEN Accumulated(a) - Dust(a) ELSE 0
Zeroed(a) == IF Redirected(a) THEN {payout[a]} ELSE {}

(* Mutants: the operands of the subtraction swapped; what is below a       *)
(* satoshi dropped; no row inserted; the amount accumulated for the BTC    *)
(* address added but not zeroed.                                           *)
FilterAddress_Swapped(a) ==
  FilterStep(a, IF Reached(a) THEN -Dust(a) ELSE Accumulated(a), Sent(a), Zeroed(a), {a})
FilterAddress_DustLost(a) ==
  FilterStep(a, IF Reached(a) THEN 0 ELSE Accumulated(a), Sent(a), Zeroed(a), {a})
FilterAddress_NoRow(a)   == FilterStep(a, Kept(a), Sent(a), Zeroed(a), {})
FilterAddress_NoReset(a) == FilterStep(a, Kept(a), Sent(a), {}, {a})

FilterAddress(a) == FilterStep(a, Kept(a), Sent(a), Zeroed(a), {a})

(* An error in the loop; the row for the address, inserted outside any     *)
(* transaction, may already be there.                                      *)
FilterFails(a) ==
  /\ "filter" \in Faults
  /\ pc = "filter" /\ a \in remaining
  /\ hasRow' \in {hasRow, hasRow \cup {a}}
  /\ Return
  /\ UNCHANGED <<node, utxoRows, acc, history, hashes, cudos, ghosts>>

-----------------------------------------------------------------------------
(* The end of sendRewards.                                                 *)

(* The total of convertAmountToBTC, whether it returns anything, and what  *)
(* is compared with the balance.                                           *)
ToSend      == Total(payFor)
AnyToSend   == \E k \in Address : payFor[k] > 0
Distributed == ToSend + SumFunctionOnSet(toUpdate, touched)

(* What was sent and is not recorded yet.                                  *)
InFlight == IF pc = "update" THEN ToSend ELSE 0

(* Mutant: strictly less than.                                             *)
Affordable_Strict == Distributed < Balance

Affordable == Distributed <= Balance

BalanceTooLow ==
  /\ pc = "send"
  /\ ~Affordable
  /\ Return
  /\ UNCHANGED <<node, db, cudos, ghosts>>

NothingToSend ==
  /\ pc = "send"
  /\ Affordable
  /\ ~AnyToSend
  /\ pc' = "update"
  /\ UNCHANGED <<node, db, cudos, todo, cur, lastPayment, batch, ghosts>>

(* The node executes sendmany: the inputs S are its choice, the fee is     *)
(* subtracted from the recipients, the rest comes back as change.          *)
Broadcast(S) ==
  /\ change + Coins(S) - ToSend \in Nat
  /\ unspent' = unspent \ S
  /\ change' = change + Coins(S) - ToSend
  /\ sends' = [sends EXCEPT ![cur] = @ + 1]
  /\ paid' = [k \in Address |-> paid[k] + payFor[k]]
  /\ UNCHANGED <<arrived, start, rewound, credited, fees>>

SendMany ==
  /\ pc = "send"
  /\ Affordable
  /\ AnyToSend
  /\ \E S \in SUBSET unspent : Broadcast(S)
  /\ pc' = "update"
  /\ UNCHANGED <<db, cudos, todo, cur, lastPayment, batch, lost, unrecorded>>

(* GetBalance fails, or sendmany is refused: the wallet is locked again    *)
(* after 60 seconds, the request times out before it reaches the node.     *)
(* (When the balance is too low the call ends alike: BalanceTooLow.)       *)
SendRejected ==
  /\ "reject" \in Faults
  /\ pc = "send"
  /\ Affordable
  /\ Return
  /\ UNCHANGED <<node, db, cudos, ghosts>>

SendReplyLost ==
  /\ "lostReply" \in Faults
  /\ pc = "send"
  /\ Affordable
  /\ AnyToSend
  /\ \E S \in SUBSET unspent : Broadcast(S)
  /\ lost' = [lost EXCEPT ![cur] = @ + 1]
  /\ unrecorded' = unrecorded + ToSend
  /\ Return
  /\ UNCHANGED <<db, cudos>>

(* Mutants: the output is not marked; the amounts are not updated.         *)
UpdateThresholdStatus_NotMarked ==
  /\ pc = "update"
  /\ acc' = [a \in Address |-> IF a \in touched \cap hasRow THEN toUpdate[a] ELSE acc[a]]
  /\ credited' = [a \in Address |-> credited[a] + dest[a]]
  /\ pc' = "save"
  /\ UNCHANGED <<node, utxoRows, hasRow, history, hashes, cudos, todo, cur, lastPayment, batch,
                 sends, lost, start, rewound, paid, fees, unrecorded>>
UpdateThresholdStatus_NotUpdated ==
  /\ pc = "update"
  /\ utxoRows' = [utxoRows EXCEPT ![TxOf[cur]] = @ + 1]
  /\ credited' = [a \in Address |-> credited[a] + dest[a]]
  /\ pc' = "save"
  /\ UNCHANGED <<node, acc, hasRow, history, hashes, cudos, todo, cur, lastPayment, batch,
                 sends, lost, start, rewound, paid, fees, unrecorded>>

(* One transaction: the output is marked as processed and the accumulated  *)
(* amounts are updated.  It is an UPDATE, so an address without a row      *)
(* keeps none.                                                             *)
UpdateThresholdStatus ==
  /\ pc = "update"
  /\ utxoRows' = [utxoRows EXCEPT ![TxOf[cur]] = @ + 1]
  /\ acc' = [a \in Address |-> IF a \in touched \cap hasRow THEN toUpdate[a] ELSE acc[a]]
  /\ credited' = [a \in Address |-> credited[a] + dest[a]]
  /\ start' = [start EXCEPT ![cur] = lastPayment]
  /\ pc' = "save"
  /\ UNCHANGED <<node, hasRow, history, hashes, cudos, todo, cur, lastPayment, batch,
                 sends, lost, rewound, paid, fees, unrecorded>>

(* The call ends; a payment that was broadcast stays unrecorded.           *)
EndUnrecorded ==
  /\ unrecorded' = unrecorded + InFlight
  /\ lost' = IF pc = "update" /\ AnyToSend THEN [lost EXCEPT ![cur] = @ + 1] ELSE lost
  /\ Return
  /\ UNCHANGED <<node, db, cudos, sends, start, rewound, paid, credited, fees>>

(* Mutant: the error is logged and not returned.                           *)
UpdateFails_Ignored ==
  /\ "update" \in Faults
  /\ pc = "update"
  /\ pc' = "save"
  /\ UNCHANGED <<node, db, cudos, todo, cur, lastPayment, batch, ghosts>>

UpdateFails ==
  /\ "update" \in Faults
  /\ pc = "update"
  /\ EndUnrecorded

(* Mutant: the time of the output is not returned as the next start.       *)
SaveStatistics_OldStart ==
  /\ pc = "save"
  /\ history' = history \cup {cur}
  /\ hashes' = IF AnyToSend THEN hashes \cup {cur} ELSE hashes
  /\ pc' = "farm"
  /\ cur' = None
  /\ ClearBatch
  /\ UNCHANGED <<node, utxoRows, acc, hasRow, cudos, todo, lastPayment, ghosts>>

(* The payout history and, when there is a hash, the payment as Pending.   *)
(* processFarmUnspentTx then returns the time of the transaction as the    *)
(* start of the next period.                                               *)
SaveStatistics ==
  /\ pc = "save"
  /\ history' = history \cup {cur}
  /\ hashes' = IF AnyToSend THEN hashes \cup {cur} ELSE hashes
  /\ lastPayment' = Time[cur]
  /\ rewound' = IF Time[cur] < lastPayment THEN rewound \cup todo ELSE rewound
  /\ pc' = "farm"
  /\ cur' = None
  /\ ClearBatch
  /\ UNCHANGED <<node, utxoRows, acc, hasRow, cudos, todo,
                 sends, lost, start, paid, credited, fees, unrecorded>>

SaveFails ==
  /\ "save" \in Faults
  /\ pc = "save"
  /\ Return
  /\ UNCHANGED <<node, db, cudos, ghosts>>

Crash ==
  /\ "crash" \in Faults
  /\ pc # "idle"
  /\ EndUnrecorded

-----------------------------------------------------------------------------
Environment ==
  \/ \E u \in Utxos : Deposit(u)
  \/ \E o \in Owners : \E b \in PayoutChoices[o] : RegisterPayoutAddress(o, b)
  \/ VerifyCollection
  \/ BumpFee

Progress ==
  \/ ListUnspent
  \/ FinishFarm
  \/ \E u \in Utxos : SkipTx(u)
  \/ \E u \in Utxos, d \in Shares : Distribute(u, d) \/ DistributionRefused(u, d)
  \/ \E a \in Keys : FilterAddress(a)
  \/ BalanceTooLow
  \/ NothingToSend
  \/ SendMany
  \/ UpdateThresholdStatus
  \/ SaveStatistics

Failure ==
  \/ ComputeFails
  \/ \E a \in Keys : FilterFails(a)
  \/ SendRejected
  \/ SendReplyLost
  \/ UpdateFails
  \/ SaveFails
  \/ Crash

Next == Environment \/ SkipFarm \/ Progress \/ Failure

Spec == Init /\ [][Next]_vars

(* The worker runs Execute on every tick.  That Execute runs to an end is  *)
(* an assumption: requests over HTTP have timeouts, but the calls of the   *)
(* RPC client and the database have none and are taken to return.          *)
(* Collections get verified.                                               *)
FairSpec == Spec /\ WF_vars(Progress) /\ WF_vars(VerifyCollection)
-----------------------------------------------------------------------------
(* Properties. *)

TypeOK ==
  /\ arrived \in SUBSET Utxos /\ unspent \in SUBSET arrived /\ change \in Nat
  /\ utxoRows \in [TxIds -> Nat]
  /\ acc \in [Address -> Nat] /\ hasRow \in SUBSET Keys
  /\ history \in SUBSET Utxos /\ hashes \in SUBSET history
  /\ payout \in [Owners -> Address \cup {None}]
  /\ \A o \in Owners : payout[o] \in PayoutChoices[o] \cup {None}
  /\ verified \in BOOLEAN
  /\ pc \in {"idle", "farm", "filter", "send", "update", "save"}
  /\ todo \in SUBSET Utxos /\ cur \in Utxos \cup {None} /\ lastPayment \in Nat
  /\ (cur = None) <=> (pc \in {"idle", "farm"})
  /\ dest \in [Address -> Nat] /\ remaining \in SUBSET Keys
  /\ touched \in SUBSET Address /\ toUpdate \in [Address -> Nat]
  /\ slot \in [Address -> Keys \cup {None}] /\ payFor \in [Address -> Nat]
  /\ sends \in [Utxos -> Nat] /\ lost \in [Utxos -> Nat]
  /\ start \in [Utxos -> Nat] /\ rewound \in SUBSET Utxos
  /\ paid \in [Address -> Nat]
  /\ credited \in [Address -> Nat] /\ fees \in Nat /\ unrecorded \in Nat

(* No BTC address is the payout address of two keys.  Nothing in the code  *)
(* enforces it; ImplementsLedger depends on it.                            *)
NoSharedPayout ==
  /\ \A o \in Owners : PayoutChoices[o] \cap Keys = {}
  /\ \A o, p \in Owners : o # p => PayoutChoices[o] \cap PayoutChoices[p] = {}

(* The pool never pays the farm twice in one transaction.                  *)
OneOutputPerTransaction == \A u, v \in Utxos : TxOf[u] = TxOf[v] => u = v

(* Nothing fails between sendmany and the record of what was sent.         *)
RecordsReliably == Faults \cap {"lostReply", "update", "crash"} = {}

(* Keys no other key is paid together with: where one of them may be paid  *)
(* no key outside is.                                                      *)
PaidAt(k) == {k} \cup (IF k \in Owners THEN PayoutChoices[k] ELSE {})
Groups    == {K \in SUBSET Keys : \A k \in K, j \in Keys \ K : PaidAt(k) \cap PaidAt(j) = {}}

(* Whatever fails and wherever the process stops, no destination loses a   *)
(* reward: what it was credited with for processed deposits was sent on    *)
(* its behalf or is still accumulated for it, or for a key that is paid at *)
(* the same address.  It relates three stores written at different times:  *)
(* the chain (sendmany, pay.go:646), the thresholds and the processed      *)
(* outputs (pay.go:653).                                                   *)
NoRewardLost ==
  \A K \in Groups :
    SumFunctionOnSet(paid, K) + SumFunctionOnSet(acc, K) >= SumFunctionOnSet(credited, K)

(* UpdateThresholdStatus only updates rows (write.go:178), so every        *)
(* address whose accumulated amount it must not lose has its row by then,  *)
(* also after failures between the insert (pay_support.go:178) and here.   *)
NoUpdateWithoutRow == \A k \in touched : toUpdate[k] > 0 => k \in hasRow

(* A transaction gets one row in utxo_transactions.  With two of them      *)
(* GetUTXOTransaction fails (read.go:116) and the farm is never paid       *)
(* again.                                                                  *)
OneRowPerTransaction == \A t \in TxIds : utxoRows[t] <= 1

(* Statistics never tell of a payment whose output is still to be paid.    *)
HistoryOnlyOfProcessed == \A u \in history : Processed(u)

(* Whatever fails, the wallet holds exactly the deposits that are not      *)
(* processed and what is accumulated for the destinations, short of the    *)
(* payment in progress, of the payments whose record was lost, which are   *)
(* still owed, and of the fees the retry service paid: nobody takes either *)
(* off the books.                                                          *)
Solvency ==
  Balance + fees + unrecorded + InFlight
    = Coins({u \in arrived : ~Processed(u)}) + Total(acc)

(* The balance check of sendRewards (pay.go:640) refuses a distribution    *)
(* that is due for no other reason than these fees and lost records.       *)
BalanceSuffices == pc = "send" => Distributed <= Balance + fees + unrecorded

(* The rewards of a deposit are sent again only after a call that ended    *)
(* between sendmany and the record of it (pay.go:646-656), once for each   *)
(* such call, and never once it is marked, whatever else fails and however *)
(* often it is tried again.                                                *)
PaidAgainOnlyIfLost ==
  \A u \in Utxos :
    sends[u] <= lost[u] + (IF Processed(u) \/ (u = cur /\ pc = "update") THEN 1 ELSE 0)

(* processFarm processes "each unspent transaction for the farm"           *)
(* (pay.go:71): a deposit that is not processed can still be listed, or is *)
(* in the list of the running call.  It is lost for good when sendmany     *)
(* takes its coin as an input and the call does not get to it.             *)
NoDepositStranded ==
  \A u \in arrived : u \in unspent \/ Processed(u) \/ u \in todo \/ u = cur

(* The seconds whose rewards a processed output was taken to be.           *)
Period(u) == start[u] .. (Time[u] - 1)

(* No second before a processed deposit is left out of the periods of all  *)
(* of them, in whatever order the node lists the outputs, however many a   *)
(* call processes (the start carried over at pay.go:143), whatever is      *)
(* skipped and whatever fails.                                             *)
PeriodsCoverTime ==
  \A u \in Utxos : Processed(u) =>
    FarmStart .. (Time[u] - 1) \subseteq UNION {Period(v) : v \in Utxos}

(* No second is in two periods, unless one of the outputs was processed in *)
(* a call after its start had gone back: behind an output that was skipped *)
(* (pay.go:203, 216 return 0) or listed out of the order of time.          *)
PeriodsDisjoint ==
  \A u, v \in Utxos \ rewound : u # v => Period(u) \cap Period(v) = {}

(* Every deposit is eventually processed if failures stop at some point:   *)
(* Execute starts again from the database and the node at each tick.  A    *)
(* fee that was raised can block the farm at pay.go:640 until the pool     *)
(* pays again; see BalanceSuffices.                                        *)
EventuallyProcessed ==
  <>[][~Failure]_vars /\ [](fees = 0)
    => \A u \in Utxos : (u \in arrived) ~> Processed(u)

(* The service implements the ledger: what the database and the chain say  *)
(* outside the window between sendmany and UpdateThresholdStatus.          *)
PL == INSTANCE PayoutLedger WITH
        Distributions <- [u \in Utxos |-> Complete(u)],
        settled <- {u \in Utxos : Processed(u)},
        owed    <- acc,
        paidOut <- [k \in Address |-> IF pc = "update" THEN paid[k] - payFor[k]
                                                       ELSE paid[k]]
ImplementsLedger == PL!Spec
=============================================================================
