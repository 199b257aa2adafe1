# TLA+ models of aura-pay

aura-pay pays the mining rewards of NFT farms. A mining pool pays each farm in
Bitcoin; the service shares every deposit out among the farm's owner, Cudos and
the owners of the farm's NFTs, and sends the shares through a Bitcoin node. This
directory holds TLA+ models of its core, TLC configurations that check them, and
proofs checked by TLAPS.

Paths without a directory are under
`internal/app/tokenised-infrastructure-rewarder/` (`services/`, `sql_db/`,
`requesters/`, `worker.go`); `main.go` is `cmd/aura-pay/main.go`.

## 1. The system

### Components

| component | code | state it keeps | operations |
|---|---|---|---|
| workers and process | `main.go`, `worker.go` | two goroutines, one context, one mutex, an error count each | connect, wait for the ticker, lock, `Execute`, unlock, count errors, cancel |
| payment service | `pay.go`, `pay_support.go` | none between calls but the load failures per wallet | for each farm: list the unspent outputs; for each of them compute the shares, filter by the threshold, `sendmany`, update the thresholds, save the statistics |
| retry service | `retry.go`, `retry_support.go` | the load failures per wallet | look up the pending payments; complete those in a block, raise the fee of those that wait too long |
| storage | `sql_db/` | `utxo_transactions` (processed deposits), `threshold_amounts` (what each address has accumulated), `statistics_tx_hash_status` (payments and their status), payout statistics | three writing transactions: `UpdateThresholdStatus`, `SaveStatistics`, `SaveRBFTransactionInformation`; single statements for the rest |
| Bitcoin node (external) | `requesters/http.go`, the RPC client | loaded and unlocked wallets, unspent outputs, mempool, chain | `loadwallet`, `walletpassphrase`, `listunspent`, `getbalance`, `sendmany`, `bumpfee`, `walletlock`, `unloadwallet` |
| reward calculator | `calculator.go` | none | pure functions: shares by hash power, fees, shares of owners by time |
| NFT periods | `processNft`, `pay_support.go`, `sql_db/read.go` | none; reads the payout history that the last payments saved | filter expired NFTs, find where an NFT's period starts and ends |
| block borders | `getPeriodBlockBorders` | none | two searches for heights around a period, one request a step |
| transfer and mint history | `GetDenomNftTransferHistory`, `getTxsByEvents`, `GetHasuraCollectionNftMintEvents`, `GetChainNftMintTimestamp` | none | page through two queries of a growing index, filter, look up mints |
| other requests | `requesters/http.go` | none | farms, collections and their verification, payout addresses |
| configuration, email | `infrastructure/` | none | environment, connections, `SendMail` |

The two workers run concurrently but execute their services under one mutex.
They communicate through the database (the payment service inserts the payments
the retry service follows), through the Bitcoin node (wallets, coins) and
through the shared context (either can cancel both).

### What is hard

- A payment is three steps in two systems: `sendmany`, `UpdateThresholdStatus`,
  `SaveStatistics`. Nothing makes them one; each can fail, and `sendmany` can
  succeed and report a failure.
- The node chooses the inputs of a payment among all coins of the wallet, while
  the pool deposits more at any moment.
- Rewards below a threshold are accumulated under two keys, the owner's cudos
  address and the registered Bitcoin address, which the owner may change.
- The requests that spend name no wallet: they act on whatever is loaded.
- A payment is checked, confirmed and replaced in separate steps while miners
  take it, or an older version of it.
- Errors are counted and end the process, which ends with one of the two
  goroutines only.
- An NFT's period is computed from three sources that can disagree: its mint or
  expiry, the payout history (saved after the payment, or not at all), and the
  last processed deposit. Deposits are not processed in the order of their time.
- The chain is searched by height for a period in seconds, page after page,
  while it and its index grow.

The hazards found in the code, each at its line and with the properties that
watch it, are listed in `PROJECT.json`.

### What makes each component correct

- Payment service: no reward is lost; none is paid twice; books and wallet agree
  to the unit; every deposit is processed in the end; every payment is recorded;
  the periods of the deposits cover the time, each second once.
- Retry service: one open row per payment; a final status stays; `Completed`
  means in a block; a bounded number of replacements; a payment that is in a
  block is recorded in the end.
- Workers: mutual exclusion; a service spends from the wallet it works on; no
  wallet stays open; nobody waits forever; a cancelled process ends.
- NFT periods and calculator: every second of an NFT's life is paid for once;
  an NFT gets its part of the hash power for those seconds, and its owners their
  parts for the time it was theirs; the calculator's own checks refuse no
  deposit for good.
- Block borders: what is found encloses the period, with few requests, and the
  search ends.
- Transfer history: nothing in the period is missed or counted twice, and a
  growing index does not keep a search from ending.

## 2. Modules

| module | models |
|---|---|
| `FarmPayments` | the payment service for one farm, with wallet, tables and registered addresses |
| `PayoutLedger` | what it promises: a deposit is settled once and as a whole |
| `NftRewards` | what `FarmPayments` takes as a choice: for which time, and to whom, a deposit's rewards are computed, over several deposits |
| `BlockBorders` | the search for the heights between which transfers are queried |
| `TransferHistory` | the queries for transfers and mints between those heights |
| `Workers` | both workers, mutex, cancellation, wallets of the node |
| `RetryService` | the retry service with the payment rows, the node and the miners |
| `FarmPaymentsProofs`, `LedgerProofs` | theorems about `FarmPayments`: its invariants; what relates it to the ledger, and sums |
| `SumProofs` | lemmas about sums over finite sets and about rounding, for `LedgerProofs` and `NftRewardsProofs` |
| `NftRewardsProofs`, `BlockBordersProofs`, `TransferHistoryProofs`, `WorkersProofs`, `RetryProofs` | theorems about the module in the name |
| `MC...` | small instances for TLC |

The modules meet at these seams.

- `Workers` shows that the two services never execute at the same time, which is
  why `FarmPayments` and `RetryService` are models of one service each,
  interleaved only with the environment. `RetryService` takes a recorded payment
  (`NewPayment`) as its input between two of its calls. A payment without a
  record (a lost reply, a failed save) never gets there.
- What the retry service does to the wallet of `FarmPayments` is the action
  `BumpFee` there: between two calls, a fee leaves the change.
- `NftRewards` computes the distributions of which `FarmPayments` chooses one,
  and leaves out what can go wrong with the sending. `SaveStatistics` failing,
  which is what matters for the next period, is in both.
- `NftRewards` knows the transfers of an NFT; that the code learns them from the
  chain is `TransferHistory`, whose assumption `BordersEnclosePeriod` is what
  `BlockBorders!BordersEnclose` gives for a chain as slow as the estimates, when
  the search finds a start; when it gives up, `BordersGenesis` shows what
  follows.

### FarmPayments

| variables | in the code |
|---|---|
| `arrived`, `unspent`, `change` | the wallet: the pool's deposits and the sum of its change outputs |
| `utxoRows` | rows per hash in `utxo_transactions`; the table has no unique key and is read by hash, so the model counts rows |
| `acc`, `hasRow` | `threshold_amounts`: amounts, and which rows exist (the insert is outside the transaction, the rest are `UPDATE`s) |
| `history`, `hashes` | outputs whose statistics are saved; those of them with a payment, whose hash is saved as pending |
| `payout`, `verified` | the registered addresses; whether some collection is verified |
| `pc`, `todo`, `cur`, `lastPayment` | where `processFarm` is, and its locals |
| `dest`, `remaining`, `touched`, `toUpdate`, `slot`, `payFor` | the maps of `sendRewards` and `filterByPaymentThreshold` |
| `sends`, `lost`, `start`, `rewound`, `paid`, `credited`, `fees`, `unrecorded` | history variables: payments per output, and those of them whose call ended before the record; where the period of a processed output began; outputs of a call whose start has gone back; sums, `unrecorded` being that of the payments in `lost`. Only the environment's bound on `fees` reads one |

The actions follow `processFarm`: `ListUnspent` / `SkipFarm`, then for each
output `SkipTx`, or `Distribute` / `DistributionRefused`; one `FilterAddress`
per key of the map, in any order (Go's order is random); `BalanceTooLow`,
`NothingToSend` or `SendMany`; `UpdateThresholdStatus`; `SaveStatistics`; at the
end `FinishFarm`. Every error return is an action of its own, enabled by a
member of `Faults`: `ComputeFails`, `FilterFails`, `SendRejected`,
`SendReplyLost`, `UpdateFails`, `SaveFails`, `Crash`. The environment
interleaves with all of them: `Deposit`, `RegisterPayoutAddress`,
`VerifyCollection`; `BumpFee` comes between two calls, as the mutex has it.

`slot` and `payFor` are the one map `addressesToSend`: its keys are payout
addresses, so a later key overwrites an earlier one with the same payout
address; `payFor` says on whose behalf the amount in the map is sent.

Abstracted: amounts are integers in a unit of which a satoshi holds `Satoshi`,
so that `RoundFloor(8)` rounds; the shares are any member of `Shares`; an
NFT's expiry is one constant for the farm; the fee of a payment is inside the
amounts sent, since `sendmany` subtracts it from the recipients, while the fee
that `bumpfee` adds is taken from the change.

### NftRewards

| variables | in the code or around it |
|---|---|
| `now`, `title`, `arrival` | the clock; who got each NFT and when, the mint first; the time of each deposit |
| `processed`, `lastPaid`, `saved` | the database: `utxo_transactions`; the last `payout_period_end` of an NFT; whose statistics were saved |
| `pc`, `todo`, `cur`, `prev`, `stats` | where `processFarm` is, `lastPaymentTimestamp` and the statistics being built |
| `times`, `rewound` | history variables: how often each second of each NFT was paid; whether the start of the period went back within a call |

`Pay` is `processFarmUnspentTx` for one deposit. Its parts are the operators of
`calculator.go` and `pay_support.go` under names of their own
(`RewardByPercent`, `PercentByTime`, `MaintenanceFee`, `OwnersInformation`,
`Leftover`, `Candidates`, `PayoutStart`, `PeriodStart`, `PayoutEnd`).
`CannotPay` stands for the errors and the panic the calculation can end in,
`Interrupted` for everything else that fails, `SkipTx` for a deposit with no NFT
to reward. `Histories` is every order in which the transfers of a period may be
sorted; for the one that is taken, what the owners of each NFT get is compared
with its reward (`Accepted`), and what all destinations get with the deposit
(`AddsUp`), as the code does. Time, mints, transfers and deposits interleave with
the steps.

Ratios are the code's: `Ratio(a, b)` rounds to the nearest with one decimal
place more than are kept, and drops it. `Precision` is 10^15 and `Carry` 20 in
the code; the runs have smaller ones. Such a ratio is at most 1 / `Carry` of its
last place too large. Amounts are integers; the code multiplies decimals
exactly, and so does the model if the unit is small enough (in the run it is).
The Cudos fee and the part of the maintenance fee are percentages, rounded down.
Abstracted: the service has its whole knowledge of the chain at
once (the candidates and holders are those at the payment, as BDJuno has them);
the maintenance fee is a constant per second and hash power instead of a farm's
monthly fee; one collection.

### BlockBorders

The variables are those of `getPeriodBlockBorders` (`current`, `checked`, `low`,
`high`, the period) and the chain (`tip`, `time`, `now`), which grows during
the search. Each round of the two loops is an action (`StepBack`, `StepAhead`),
each way out of them another one (`StartFound`, `BeforeGenesis`, `EndFound`,
`AtCurrent`). `spacing` is the least time between blocks of the chain: the
estimates take it to be `BlockTime`, and the chain is slower, as fast, or
faster.

### TransferHistory

`chain` is every transaction with sales or transfers between the borders, in
order; `indexed` and `minted` are what the node's index and BDJuno have of it so
far. A call is `Begin`, `FetchPage` until `FetchLastPage`, for sales and then
for transfers (`pc` is the type searched for), `GetTimes`, and `MintsKnown` or
`MintUnknown`. A page is counted within what the index has when it is
asked for, as Tendermint does (external). `RequestFails` is every error, and the
empty answer of `GetHasuraCollectionNftMintEvents` when the transport fails.
`ChainMints` is the query for a mint that BDJuno lacks: it compares the same
attribute with the NFT and with the collection, and so finds nothing.

### Workers

`pc[w]` follows `worker.Start` (`start`, `delay`, `wait`, `locking`, `error`,
`done`) and, between `Lock` and `Unlock`, the calls on the node (`next`, `load`,
`unlock`, `spend`, `lock`, `unload`). `holder` is the mutex, kept as a set so
that a wrong lock could show. A job is a farm or a pending payment; which are
due is an arbitrary set. The requests follow Bitcoin Core: loading a loaded
wallet fails; a request without a wallet name works only if exactly one wallet
is loaded; unlocking ends after 60 seconds (`UnlockTimeout`, at any moment).
`unloadWallet` and `lockWallet` log their errors and go on, so with the fault
`unload` any wallet may stay open: `leftOpen` has those the node was asked to
unload and did not. A load that fails may have loaded the wallet all the same,
when only the answer was lost (`LoadedUnnoticed`): the service takes it for not
loaded and defers no unload, so that wallet is in `leftOpen` as well. The 15
load failures that make an error are the constant
`LoadFailLimit`.

### RetryService

A payment is a chain of versions: 0 from `sendmany`, then one per replacement.
`latest` is the version the node last broadcast, `mined` the one in a block.
`status` and `retries` are the rows. `Execute` is `Begin` (read the pending
rows), `Check` / `Unknown` for each, `AllChecked`, one `Confirm` per update,
`AllConfirmed`, then for each row that is left `Skip`, `GiveUp`, or `BumpFee`
followed by `SaveRBF`; `Mine` and `DelayOver` happen between any two steps. The
node knows a version that is mined, or the latest one of a payment that is not
(`Known`). The order in which rows are visited is left open.

`NewPayment` happens when the service is not executing. The bound on versions,
`MaxRetries + 1`, is one more than the code should ever need, so that
`BumpsBounded` can fail.

## 3. Runs

| run | module | shows |
|---|---|---|
| `PayFaults` | MCFarmPayments | three deposits, several of them in one call and in any order, outputs skipped because all NFTs are expired, an owner who changes the address, also to one that is paid itself, raised fees, all faults: `TypeOK`, `NoRewardLost`, `NoUpdateWithoutRow`, `OneRowPerTransaction`, `HistoryOnlyOfProcessed`, `PaidAgainOnlyIfLost`, `Solvency`, `BalanceSuffices`, `PeriodsCoverTime`, `PeriodsDisjoint` |
| `PaySpaced` | MCFarmPayments | the pool pays only after the last deposit was processed; a farm verified late; a raised fee: `NoDepositStranded`, `EventuallyProcessed`, `ImplementsLedger` |
| `NftRewards` | MCNftRewards | two NFTs minted, sold and expiring at any time, two deposits in any order, payout histories that are not saved: `TypeOK`, `SecondsPaidOnce`, `RewardForLiveSeconds`, `SharesFollowOwnership`, `EveryDepositPayable` |
| `Borders` | MCBlockBorders | every chain of up to six blocks and every period: `TypeOK`, `BordersEnclose`, `OneRequestPerBorder`, `SearchEnds` |
| `History` | MCTransferHistory | up to three transactions in pages of two, indexes that lag: `TypeOK`, `NothingMissed`, `NothingTwice`, `HistoryKnown` |
| `Work` | MCWorkers | two farms, a payment of each, all faults: `TypeOK`, `MutualExclusion`, `SpendsOwnWallet`, `WalletsClosedWhenFree`, `LockGranted`, `Shutdown` |
| `RetryFaults` | MCRetryService | two payments, all faults: `TypeOK`, `OneOpenRow`, `BumpsBounded`, `CompletedIsMined`, `StatusesFinal`, `KnownIsRecorded` |

The other runs check what a comment or a message of the code says and find that
the code does otherwise; each names it in `PROJECT.json`.

| run | violated | the trace |
|---|---|---|
| `PayStranded` | `NoDepositStranded` | no fault: a deposit that arrives after the listing is spent as an input of the current payment and never listed |
| `PayShared` | `NoRewardLost` | no fault: two owners with one payout address; the first one's reward leaves the books and is not sent |
| `RetryStuck` | `MinedIsRecorded` | a replacement is not saved and then mined; the pending hash is unknown to the node and ends every later call |
| `NftRounding` | `NeverOverspent` | four NFTs of one hash power, each with a ratio rounded up; in the code 77 are enough, since 1/77 becomes 0.012987012987013 |
| `BordersGenesis` | `PeriodSearched` | the first estimate is not positive and the period is over: the heights found are 0 and 0 |

The properties of the passing runs state the conditions under which they hold.
Without them the code does otherwise:

- a payment whose record was lost is paid again, once for each such call, from
  the coins of other deposits (`PaidAgainOnlyIfLost`, `Solvency`);
- a fee that the retry service raised is taken from the change, and nobody takes
  it off the accumulated amounts: a deposit whose distribution reaches all of
  them is refused on every tick, until the pool pays again (`BalanceSuffices`;
  `EventuallyProcessed` supposes `fees = 0`);
- when `SaveStatistics` fails, the output is processed and the hash of its
  payment is nowhere: the retry service never follows it. No property says
  that every payment is known, since it is not;
- two outputs of one transaction in one call give it two rows, after which every
  listing of the farm fails (`OneOutputPerTransaction`, which the instances
  have);
- an output that is skipped returns 0 as the start of the next period, and
  outputs come in the node's order: those that a call processes after its start
  has gone back (`rewound`) may share seconds with others (`PeriodsDisjoint`).
  In `NftRewards` only the payout history then keeps seconds from being paid
  twice, and a payout history that was lost at the same time does not
  (`SecondsPaidOnce`);
- an NFT sold between the end of the period and its payment, with no transfer
  in the period, is paid to the buyer (`SoldSince`);
- of transfers in one second either may be taken for the later one
  (`OneTransferPerSecond`);
- a transfer in the one second of a period without length divides the time of
  its owners by 0 and ends the process, although `calculator.go:20` calls such a
  period valid (`NoTransferAtBorder`);
- an NFT minted after its expiry, as many ratios rounded up as `Carry`, or more
  hash power sold than the farm has make a deposit refused on every tick
  (`MintedInTime`, `FewRoundedUp`, `MintedHash <= FarmHash`);
- a transaction with a sale and a transfer is found by both queries, and one
  with several collections is taken for all of them (`OneType`,
  `OneCollection`);
- a mint that BDJuno never gets keeps the farm from being paid: asking the chain
  for it, as `pay.go:352` announces, compares one attribute with the NFT and
  with the collection and finds none (`HistoryKnown` supposes that BDJuno gets
  to every mint);
- a search that gives up at height 0 may find nothing (`BordersEnclose` excludes
  it by `high > 0`, `BordersGenesis` shows it); on a chain faster than the
  estimates, or from height 0 on, the blocks in the very seconds of the borders
  may be left out;
- a wallet that the node loaded while it reported a failure stays open, as does
  one it did not unload, until the payment service visits its next farm
  (`leftOpen` in `WalletsClosedWhenFree`);
- `main` returns with the payment worker, while the retry worker may have a
  wallet open.

The deadlock check is on but for the run of `Workers`, where the process may
end. The others cannot stop: an idle farm or an empty list is read again.

### Bounds

There are no state constraints; the constants bound every run.

- Deposits: two are enough for one to be in the listing while another is used as
  an input, or for one payment to start from the accumulated amounts of another;
  three add an output that was listed before and one that arrives after.
  A deposit is processed at most once in a run without lost replies; with them,
  an execution of `sendmany` needs coins, so the number of sends is bounded by
  the coins. `change` and the accumulated amounts are bounded by the deposits.
- Amounts: deposits of 7 units with 2 units per satoshi and a threshold of 4
  give shares below the threshold, at it when added up, above it, and with a
  rest below a satoshi.
- Distributions: one that names both owners; one in which an owner has nearly
  everything (`PaySpaced`); one that does not add up, and one that names the
  address an owner may register (`PayFaults`).
- Owners: two, with one or two addresses each; two is what a shared or a changed
  address needs.
- Fees: one or two raised fees (`MaxBumps`) of a satoshi; one is enough for the
  balance to be short, two for shortages to add up.
- Periods: in `PayFaults` the three deposits are in different seconds and the
  NFTs expire with the last, so that all of them may be expired for one that
  comes late in a call; in `PaySpaced`, where every deposit has to be processed,
  no NFT expires, and two deposits are in one second.
- NFTs: two with different hash power, of which one expires within the run; four
  seconds, enough for a mint, a sale and an expiry before, in and after the
  periods of two deposits; two transfers, so that an owner is in the middle or
  two are in one second. With `Precision` 3 and `Carry` 4 the ratio 1/4 is
  rounded up and 3/4 and 1/2 are rounded down. Of 90 units of income 81 are left
  after the fee, a power of three, so that the products with three ratios are
  exact. `NftRounding` has four NFTs of the same hash power, the least number
  for which the ratios add up to more than one.
- Blocks: six, with at least one, two or three seconds in between against
  estimates of two, so that the chain is faster, as fast, or slower; seven
  seconds, so that estimates fall before the first block, past the last and in
  between. Every period with borders in these seconds, reversed ones too.
- Transactions: three in pages of two give a full page, a last page with one,
  and a total that grows between them; four blocks, of which two are borders
  and one is before the period; contents with either type, two events, both
  types, and two collections.
- Workers: two farms, since a wrong wallet needs another one; `MaxErrors` and
  `LoadFailLimit` are 2 so that a count is below, at and past its limit.
- Payments: two, so that one can block the other; one replacement each, so that
  the limit is reached.

`NftRewards` uses the symmetry of the two people and of the two deposits,
`NftRounding` that of its NFTs, which no constant tells apart; their properties
are invariants or about one step. The other runs use none: their constants
differ in amounts, addresses and wallets, or liveness is checked.

### Fairness

- `FarmPayments!FairSpec`: weak fairness of `Progress`. The worker calls
  `Execute` on every tick, and an error of a farm only ends this farm's turn
  (`pay.go:47-58`). That `Execute` runs to an end is an assumption: requests over
  HTTP have timeouts, while the RPC client and the database have none, and their
  calls are taken to return.
  Weak fairness of `VerifyCollection`: collections get verified. Nothing is
  assumed of deposits, failures or addresses. `EventuallyProcessed` is claimed
  if failures stop at some point, since one that recurs forever can keep a
  deposit from being processed, and if no fee is raised.
- `BlockBorders!FairSpec`: weak fairness of `Search`: requests have a timeout of
  ten seconds, and the loop goes on when one is answered. Nothing is assumed of
  the chain.
- `TransferHistory!FairSpec`: weak fairness of `Progress`, since the worker calls
  again on every tick, and of `Index`: the indexes get to what is on the chain.
  That BDJuno gets to every mint is an assumption about it. `HistoryKnown` is
  claimed if requests stop failing at some point, the search for a mint excepted.
- `Workers!FairSpec`: weak fairness of each worker's steps and of the ticker;
  strong fairness of `SeeCancelled`, because a `select` with two ready cases
  chooses at random; strong fairness of `Lock`, because `sync.Mutex` hands the
  mutex to a waiter that starves; weak fairness of `Spend`, one of a farm's
  finitely many payments. Here too the calls within `Execute` are taken to
  return.
- `RetryService!FairSpec`: weak fairness of `Progress`. Mining is not fair: a
  payment may stay in the mempool forever.
  `KnownIsRecorded` further supposes that every replacement is recorded and no
  replaced version is mined; `RetryStuck` shows why.

## 4. Proofs

TLAPS checks the following for every value of the constants, under the
assumptions that the modules state about them.

| theorem | property | further assumptions |
|---|---|---|
| `FarmPaymentsProofs!TypeCorrect` | `TypeOK` | |
| `FarmPaymentsProofs!RewardsSafe` | `NoRewardLost` | no two keys are paid at one address |
| `FarmPaymentsProofs!UpdatesFindTheirRows` | `NoUpdateWithoutRow` | |
| `FarmPaymentsProofs!RowsUnique` | `OneRowPerTransaction` | one deposit per transaction |
| `FarmPaymentsProofs!PaidOnce` | `PaidAgainOnlyIfLost` | |
| `FarmPaymentsProofs!NoTimeLeftOut` | `PeriodsCoverTime` | |
| `FarmPaymentsProofs!NoTimeTwice` | `PeriodsDisjoint` | |
| `LedgerProofs!LedgerImplemented` | `ImplementsLedger` | no two keys are paid at one address, one deposit per transaction, nothing fails between `sendmany` and its record |
| `FarmPaymentsProofs!HistoryOfProcessed` | `HistoryOnlyOfProcessed` | |
| `LedgerProofs!BooksAgree` | `Solvency` | no distribution names two keys that may be paid at one address, one deposit per transaction |
| `LedgerProofs!OnlyFeesMissing` | `BalanceSuffices` | the same |
| `NftRewardsProofs!TypeCorrect` | `TypeOK` | |
| `NftRewardsProofs!PaidExactlyOnce` | `SecondsPaidOnce` | |
| `NftRewardsProofs!DepositsPayable` | `EveryDepositPayable` | |
| `NftRewardsProofs!RewardsForLiveSeconds` | `RewardForLiveSeconds` | |
| `NftRewardsProofs!OwnersPaidForTheirTime` | `SharesFollowOwnership` | |
| `BlockBordersProofs!TypeCorrect` | `TypeOK` | |
| `BlockBordersProofs!PeriodEnclosed` | `BordersEnclose` | |
| `BlockBordersProofs!RequestsFew` | `OneRequestPerBorder` | |
| `TransferHistoryProofs!TypeCorrect` | `TypeOK` | |
| `TransferHistoryProofs!HistoryComplete` | `NothingMissed` | |
| `TransferHistoryProofs!HistoryOnce` | `NothingTwice` | |
| `WorkersProofs!TypeCorrect` | `TypeOK` | |
| `WorkersProofs!Exclusion` | `MutualExclusion` | |
| `WorkersProofs!OwnWalletSpent` | `SpendsOwnWallet` | |
| `WorkersProofs!WalletsClosed` | `WalletsClosedWhenFree` | |
| `RetryProofs!RowsTyped` | `TypeOK` | |
| `RetryProofs!ChainOfRows` | `OneOpenRow` | |
| `RetryProofs!BumpsLimited` | `BumpsBounded` | |
| `RetryProofs!FinalStatuses` | `StatusesFinal` | |
| `RetryProofs!CompletedMined` | `CompletedIsMined` | |

The conditions that a property states itself (saved histories, deposits in
order, transfers at no border, few ratios rounded up) are in section 3 and not
repeated here.

The arguments:

- *Rewards.* `NoRewardLost` only changes at `SendMany` and
  `UpdateThresholdStatus`, far from where the amounts were computed. `BooksInv`
  carries the loop of `filterByPaymentThreshold` there: for every key visited,
  what is kept and what is to be sent add up to what was accumulated and the new
  share (`Books`, per key), the entry of the map belongs to the key (`SlotInv`),
  and nothing accumulates under an address that is only a payout address
  (`OnlyKeysAccumulate`), so that zeroing it loses nothing. With it
  `Covered`, the invariant `paid + acc >= credited` of each key with the pending
  payment added, is inductive; `NoRewardLost` is the sum over the keys that are paid
  together. The assumption on shared addresses is needed exactly for `SlotInv`;
  `PayShared` is the run without it.
- *Rows.* The loop gives every key it visits its row before the amount goes into
  `toUpdate`, and no action deletes a row. For `utxo_transactions`, `RowInv`:
  the outputs a call has still to process have no row, so that the one that
  `UpdateThresholdStatus` adds is the first.
- *Paid once.* `PaidInv`: an output was sent no more often than calls were lost,
  and once more if it has a row or the payment is about to be recorded; an output
  that the call has still to send (`Unsent`) has no such allowance, also when an
  earlier output of the same transaction got the row.
- *History.* `HistoryInv` adds to its property that the output being saved is
  processed.
- *Periods of deposits.* The start of a call is the last payment, a payment of the
  same call, or 0 (`Origin`); every payment up to it has its seconds covered, so
  that one more period leaves no gap. `AfterPayments`: a call that did not go
  back starts its next output after every payment (`NextStart`), so that its
  period meets no earlier one. `Fresh` keeps the periods of outputs that are not
  processed empty.
- *Ledger.* `LedgerInv` adds the contents of the batch, key by key, at each
  `pc`. `UpdateThresholdStatus` then is a `Settle` of the ledger with the keys
  that were sent to, and every other step leaves the ledger as it is.
- *Sums.* The community modules define a sum as a fold, which chooses the next
  element. `SumProofs` shows that the fold is a function on the subsets of a
  finite set and that the choice does not matter (`SumRemove`), by induction in a
  form without an operator as a parameter: a set of subsets that holds every set
  whose proper subsets it holds is all of them (`SetInduction`). From there on
  sums are changed at one element (`SumExcept`), compared, scaled and telescoped.
- *Books.* `Solvency` relates four sums. `SumsInv` says where the loop of
  `filterByPaymentThreshold` is in them: what the destinations were given so far
  adds up to what is kept and what is sent (`Balanced`), over the keys that were
  visited (`SeenOnly`), and what is accumulated has a row (`AccumulatedInRows`).
  Each step then moves the same amount out of one sum and into another, a
  failure between `sendmany` and the record the payment into `unrecorded`.
  A distribution that would pay two keys at one address breaks exactly this.
- *Seconds.* Two things keep a second from being paid twice: the payout history
  and the last payment. `PaidBefore` says where a second that was paid lies,
  before a processed deposit and, if all histories were saved, before the last
  payout; `Forward` says that a call that did not go back starts after every
  payment. Either is enough for `NotTwice`. `NoGap` is the converse: the start of
  a period is a payment, the mint or the start of the farm (`Origins`), so that
  a second that is live and not paid lies after all of them.
- *Rewards of NFTs.* `Lives` says that the last payout of an NFT lies between
  its mint and its expiry. With `NoGap` it follows that the period of an NFT
  starts where that of the deposit does, or with its mint (`StartsWithPeriod`),
  so that no period is reversed and `PercentByTime` takes the part of the live
  seconds, which gives `RewardsForLiveSeconds`. `RatioBounds` says how a ratio is
  rounded: up by at most one `Carry`-th of its last place. Of a whole that is
  split into parts, fewer than `Carry` of which are rounded up, what was gained
  is less than one unit of that place, and so nothing, the sum of the ratios
  being an integer (`PartsOfWhole`). The parts of the hash power then do not
  exceed the deposit (`PartsFit`, `NothingOverspent`).
- *Owners.* The owners of an NFT are in the order of their times
  (`TitleSorted`), a history names every transfer of the period once and in order
  (`HistoryOrder`), so that the holdings follow one another from the start of
  the period (`InLine`) and their lengths telescope to it (`Telescope`). The
  times of owners that come from a history without ties are theirs
  (`HoldingsOwned`), and no later transfer takes a second away that has passed:
  `Shares` holds from the payment until the statistics are saved. `PartsOfWhole`
  for their times gives that no owners are given more than the NFT's reward, and
  not less than is tolerated (`OwnersAccepted`). What the rounding left goes to
  the last one, so the owners' rewards add up to that of the NFT and those of all
  destinations to the deposit, to the unit (`PaymentsAddUp`). With
  `NothingOverspent` that is `DepositsPayable`.
- *Borders.* `Chain`: blocks n heights apart are at least n spacings apart in
  time. `LowFound` and `HighFound` say of each loop at which height it is, what
  `checked` has to do with the time of that block, and on which side of the
  period it ended; `HighAlone` says it of the second loop when the first one gave
  up. That the estimate goes back far enough is
  `(x \div b + 1) * b > x` (`Quotient`).
- *History.* `Paged`: what was fetched are matches of a rank below the next page
  (`Rank`), so that a page never repeats one and the number fetched is the size
  of the set; a search that has as many as there are has them all
  (`Searched`), however the index grew. `Returned` ties the result to them.
- *Workers.* `MutexInv`: a worker that executes holds the mutex, and at most one
  holds it. `OwnWallet`: after a successful load, the wallet worked on is loaded
  or the node has lost all that is unlocked. `ClosedInv`: every loaded wallet is
  the one of a worker between loading and unloading, or one of `leftOpen`.
- *Retry.* `ChainInv` describes the rows of a payment by the position of its
  open row, and what a running call holds (`LocalsInv`): rows in `toRetry` and
  `cur` are pending, and no row is in two lists. `CountInv` ties the retry count
  of a row to its version, which bounds the replacements. `MinedInv`: what is in
  `toConfirm` is in the chain, and what is in the chain stays there.

Every inductive invariant was first checked with TLC on the instances above.

Only model-checked: liveness (`EventuallyProcessed`, `LockGranted`, `Shutdown`,
`KnownIsRecorded`, `SearchEnds`, `HistoryKnown`), which the prover does not
treat, and `NoDepositStranded`, which says little beyond the pool's waiting when
the pool waits. Every other safety property of the passing runs is a theorem.

One attempt at a proof corrected the models. `RewardForLiveSeconds` was an
invariant about the statistics at hand; the candidates are counted when the
calculation begins, so that an NFT minted before the statistics are saved made
the formula give another share. On the instance both shares were rounded to the
same amount. It is now a property of the step that pays.

## 5. Not modelled

- The parsing of chain, Hasura and node replies, and times that do not parse
  (`convertTimeToTimestamp` has a panic for a time without a fraction of a
  second); the requests for farms and collections, beyond that they fail.
- Configuration, logging, the wording and the throttling of emails; the
  allocation statistics per collection, which nothing reads back.
- Several farms in one payment model: farms share no wallet, and thresholds and
  deposits are kept per farm; how they share the node is in `Workers`.
- Chain reorganisations: deposits and payments that are in a block stay there.
- Real time between the processes: ticks, the retry delay and timeouts may come
  at any moment. (The seconds of `NftRewards` and `BlockBorders` are the times
  the code computes with.)
- The mock service, the price client and the manual bumpfee test.

## 6. Plan

Done, in the order of importance:

1. `FarmPayments`, `PayoutLedger` and their runs: the money.
2. `Workers`: that the services may be modelled one at a time.
3. `RetryService`: the payments after `sendmany`.
4. Proofs of type correctness, the safety invariants and the ledger.
5. `NftRewards`: the calculator and the periods of NFTs over several deposits.
6. `BlockBorders`, and with it `TransferHistory`.
7. The fees of the retry service on the wallet of the payment service.
8. Proofs about deposits, periods, borders and the history.
9. Sums: the books to the unit, and what NFTs and their owners get.
10. Ratios that are rounded up, replies of the node that are lost, the periods of
    several outputs in a call, and books that balance whatever fails.

Left:

11. Several collections in `NftRewards`, with the shares of a farm that is
    filled by more than one.
12. The distributions of `NftRewards` as the `Shares` of `FarmPayments`, so that
    a refused calculation and a payment that fails meet in one run.
