----------------------------- MODULE NftRewards -----------------------------
(***************************************************************************)
(* For which time, and to whom, the NFTs of a farm are rewarded            *)
(* (services/pay.go, pay_support.go, calculator.go).  A deposit pays for   *)
(* the time since the last one.  Its reward is split over the NFTs by hash *)
(* power, each NFT's part is reduced to the time it was minted and not     *)
(* expired, a maintenance fee is taken, and the rest is split over the     *)
(* owners by the time each of them had it.  Where an NFT's period starts   *)
(* is read from the payout history, which is written after the payment,    *)
(* or may not be written at all.                                           *)
(*                                                                         *)
(* Time is in seconds; the second s is the time from s to s + 1.  Ratios   *)
(* are rounded as the code rounds them, and may be rounded up.  Amounts    *)
(* are integers; if the unit is as fine as the code's decimals are, their  *)
(* products with ratios are exact.  That sendmany and the update of the    *)
(* thresholds may fail on their own is left to FarmPayments.               *)
(***************************************************************************)
EXTENDS Integers, Sequences, FiniteSets, Functions

CONSTANTS
  Nfts,           \* the NFTs of the farm's verified collections
  People,         \* the addresses on the Cudos chain that hold them
  Deposits,       \* transactions of the pool to the farm
  Hash,           \* HashRateOwned of each NFT
  Expiry,         \* ExpirationDate of each NFT
  FarmHash,       \* farm.TotalHashPower
  FarmStart,      \* farm.FarmStartTime
  Income,         \* the amount of a deposit
  CudosFee,       \* CUDOFeeOnAllBTC, in percent
  FeePerHash,     \* the maintenance fee for one second and one unit of hash power
  CudosPart,      \* CUDOMaintenanceFeePercent
  Precision,      \* 10^15: a ratio is kept to 15 decimal places
  Carry,          \* 20: a ratio is rounded up if 1 / Carry of the last is missing
  Tolerance,      \* an NFT's owners may be given so much less than its reward
  MaxTime,        \* the clock stops here
  MaxTransfers,   \* the NFTs change hands so many times
  None            \* no deposit

ASSUME RewardsAssumption ==
  /\ IsFiniteSet(Nfts) /\ Hash \in [Nfts -> Nat \ {0}] /\ Expiry \in [Nfts -> Nat]
  /\ FarmHash \in Nat \ {0} /\ FarmStart \in Nat \ {0}
  /\ Income \in Nat /\ FeePerHash \in Nat /\ CudosFee \in 0..100 /\ CudosPart \in 0..100
  /\ Precision \in Nat \ {0} /\ Carry \in Nat \ {0, 1} /\ Tolerance \in Nat
  /\ MaxTime \in Nat /\ MaxTransfers \in Nat
  /\ None \notin Deposits

VARIABLES
  now,
  \* the Cudos chain: who got the NFT, and when; the first one minted it
  title,
  \* the Bitcoin chain: the time of each deposit, 0 before it is made
  arrival,
  \* the database
  processed,      \* deposits with a row in utxo_transactions
  lastPaid,       \* the last payout_period_end in the history of each NFT, or 0
  saved,          \* deposits whose statistics are saved
  \* the locals of processFarm
  pc, todo, cur,
  prev,           \* lastPaymentTimestamp
  stats,          \* statistics: the NFTs paid, their periods, amounts and owners
  \* history variables, read by no action
  times,          \* how often each second of each NFT was paid
  rewound         \* lastPaymentTimestamp went back in time in a call

env    == <<now, title, arrival>>
db     == <<processed, lastPaid, saved>>
ghosts == <<times, rewound>>
vars   == <<env, db, pc, todo, cur, prev, stats, ghosts>>

Seconds == FarmStart..MaxTime

Earlier(a, b) == IF a <= b THEN a ELSE b
Later(a, b)   == IF a <= b THEN b ELSE a

Minted(n)  == title[n] # <<>>
MintOf(n)  == title[n][1].time
Holder(n)  == title[n][Len(title[n])].owner
Arrived(d) == arrival[d] # 0

Init ==
  /\ now = FarmStart
  /\ title = [n \in Nfts |-> <<>>] /\ arrival = [d \in Deposits |-> 0]
  /\ processed = {} /\ lastPaid = [n \in Nfts |-> 0] /\ saved = {}
  /\ pc = "idle" /\ todo = {} /\ cur = None /\ prev = 0 /\ stats = <<>>
  /\ times = [n \in Nfts |-> [s \in Seconds |-> 0]] /\ rewound = FALSE

-----------------------------------------------------------------------------
(* The environment: time, the Cudos chain and the pool.                    *)

Tick ==
  /\ now < MaxTime
  /\ now' = now + 1
  /\ UNCHANGED <<title, arrival, db, pc, todo, cur, prev, stats, ghosts>>

Mint(n, p) ==
  /\ ~Minted(n)
  /\ title' = [title EXCEPT ![n] = <<[owner |-> p, time |-> now]>>]
  /\ UNCHANGED <<now, arrival, db, pc, todo, cur, prev, stats, ghosts>>

Transfers == {x \in Nfts \X (2..MaxTransfers + 1) : x[2] <= Len(title[x[1]])}

(* A sale on the marketplace, or a transfer.                               *)
Transfer(n, p) ==
  /\ Minted(n) /\ p # Holder(n)
  /\ Cardinality(Transfers) < MaxTransfers
  /\ title' = [title EXCEPT ![n] = Append(@, [owner |-> p, time |-> now])]
  /\ UNCHANGED <<now, arrival, db, pc, todo, cur, prev, stats, ghosts>>

Deposit(d) ==
  /\ ~Arrived(d)
  /\ arrival' = [arrival EXCEPT ![d] = now]
  /\ UNCHANGED <<now, title, db, pc, todo, cur, prev, stats, ghosts>>

-----------------------------------------------------------------------------
(* calculator.go *)

(* Mutant: the ratio is not rounded down to 15 places but to the nearest.  *)
Ratio_Nearest(a, b) == (2 * Precision * a + b) \div (2 * b)

(* a / b, in units of 1 / Precision: Div rounds to the nearest with one    *)
(* decimal place more than RoundDown leaves.                               *)
Ratio(a, b) == (Carry * Precision * a + b) \div (Carry * b)

Part(reward, a, b) == (reward * Ratio(a, b)) \div Precision

RewardByPercent(available, actual, reward) ==
  IF available <= 0 \/ actual <= 0 \/ reward <= 0 THEN 0
  ELSE Part(reward, actual, available)

PercentByTime(from, to, nftStart, nftEnd, reward) ==
  IF nftStart <= from /\ nftEnd >= to THEN reward
  ELSE IF nftEnd <= from \/ nftStart >= to THEN 0
  ELSE Part(reward, nftEnd - nftStart, to - from)

MaintenanceFee(n, from, to, reward) == Earlier(FeePerHash * Hash[n] * (to - from), reward)

(* The transfers in a period, sorted by time.  Those in the same second    *)
(* are in no order: sales come before transfers, and the sort is unstable. *)
Histories(n, from, to) ==
  LET I == {i \in 2..Len(title[n]) : title[n][i].time \in from..to} IN
  {h \in [1..Cardinality(I) -> I] :
     \A j, k \in DOMAIN h : j < k => /\ h[j] # h[k]
                                     /\ title[n][h[j]].time <= title[n][h[k]].time}

(* Mutant: the time before the first transfer is not its seller's.         *)
Holdings_NoSeller(n, from, h) ==
  LET got == [i \in DOMAIN h |-> title[n][h[i]]] IN
  IF h = <<>> THEN <<[owner |-> Holder(n), time |-> from]>> ELSE got

(* Who had the NFT from when: its holder of today if it was not            *)
(* transferred, else the seller of the first transfer and all its buyers.  *)
Holdings(n, from, h) ==
  LET got == [i \in DOMAIN h |-> title[n][h[i]]] IN
  IF h = <<>> THEN <<[owner |-> Holder(n), time |-> from]>>
  ELSE IF from < got[1].time
       THEN <<[owner |-> title[n][h[1] - 1].owner, time |-> from]>> \o got
       ELSE got

(* The owner i of the list g had the NFT up to this time.                  *)
Upto(g, i, to) == IF i = Len(g) THEN to ELSE g[i + 1].time

(* By the time of each owner, unless there was no transfer.                *)
OwnerParts(n, from, to, h, reward) ==
  LET g == Holdings(n, from, h) IN
  [i \in DOMAIN g |-> IF h = <<>> THEN reward
                      ELSE Part(reward, Upto(g, i, to) - g[i].time, to - from)]

NotGiven(n, from, to, h, reward) == reward - SumFunction(OwnerParts(n, from, to, h, reward))

(* Mutant: what the rounding left is nobody's.                             *)
OwnersInformation_Rounded(n, from, to, h, reward) ==
  LET g == Holdings(n, from, h) IN
  [i \in DOMAIN g |->
     [owner |-> g[i].owner, from |-> g[i].time, to |-> Upto(g, i, to),
      reward |-> OwnerParts(n, from, to, h, reward)[i]]]

(* The last owner gets what the rounding left.                             *)
OwnersInformation(n, from, to, h, reward) ==
  LET g     == Holdings(n, from, h)
      parts == OwnerParts(n, from, to, h, reward)
      rest  == NotGiven(n, from, to, h, reward)
  IN [i \in DOMAIN g |->
        [owner |-> g[i].owner, from |-> g[i].time, to |-> Upto(g, i, to),
         reward |-> parts[i] + IF i = Len(g) THEN Later(rest, 0) ELSE 0]]

-----------------------------------------------------------------------------
(* The payment of a deposit made at time t.                                *)

AfterFee == Income - (Income * CudosFee) \div 100

(* filterExpiredBeforePeriodNFTs: BDJuno lists all the NFTs that are       *)
(* minted by now, also those minted after the period.                      *)
Candidates == {n \in Nfts : Minted(n) /\ prev <= Expiry[n]}

MintedHash == SumFunctionOnSet(Hash, Candidates)
ForOwners  == RewardByPercent(FarmHash, MintedHash, AfterFee)
Unsold     == IF FarmHash > MintedHash THEN AfterFee - ForOwners ELSE 0

(* Mutant: the payout history is not looked at.                            *)
PayoutStart_Mint(n) == MintOf(n)

(* findCurrentPayoutPeriod.                                                *)
PayoutStart(n)  == IF lastPaid[n] # 0 THEN lastPaid[n] ELSE MintOf(n)
PayoutEnd(n, t) == Earlier(Expiry[n], t)

(* Mutant: the start of the NFT's period may lie before the last payment.  *)
PeriodStart_Unclamped(n) == PayoutStart(n)

PeriodStart(n)  == Later(PayoutStart(n), prev)

(* Mutant: an NFT minted after the period is not skipped.                  *)
Due_All(t) == Candidates

Due(t) == {n \in Candidates : PayoutStart(n) <= t}

Reward(n, t) ==
  PercentByTime(prev, t, PayoutStart(n), PayoutEnd(n, t),
                RewardByPercent(MintedHash, Hash[n], ForOwners))

Fee(n, t) == MaintenanceFee(n, PeriodStart(n), PayoutEnd(n, t), Reward(n, t))

Leftover(t) == ForOwners - SumFunctionOnSet([n \in Nfts |-> IF n \in Due(t) THEN Reward(n, t) ELSE 0], Nfts)

(* The period of an NFT may not be negative, and the NFTs may not get more *)
(* than there is for them.                                                 *)
Refused(t) ==
  \/ \E n \in Due(t) : PeriodStart(n) > PayoutEnd(n, t)
  \/ Leftover(t) < 0

(* A transfer in a period of no length: the time of every owner is divided *)
(* by the length of the period, and the process ends.                      *)
Panics(t) ==
  \E n \in Due(t) :
    /\ PeriodStart(n) = PayoutEnd(n, t)
    /\ Histories(n, PeriodStart(n), PayoutEnd(n, t)) # {<<>>}

(* The orders in which the transfers of the NFTs may be taken.             *)
Orders(t) ==
  {h \in [Due(t) -> UNION {Histories(n, PeriodStart(n), PayoutEnd(n, t)) : n \in Due(t)}] :
     \A n \in Due(t) : h[n] \in Histories(n, PeriodStart(n), PayoutEnd(n, t))}

(* processNft, for every NFT that is due.                                  *)
Statistics(t, h) ==
  [n \in Due(t) |->
     LET s == PeriodStart(n)
         e == PayoutEnd(n, t)
         c == (Fee(n, t) * CudosPart) \div 100
     IN [start |-> s, end |-> e, fee |-> Fee(n, t) - c, cudos |-> c,
         reward |-> Reward(n, t) - Fee(n, t),
         owners |-> OwnersInformation(n, s, e, h[n], Reward(n, t) - Fee(n, t))]]

(* The owners of an NFT are not given more than its reward, and not much   *)
(* less.                                                                   *)
Accepted(t, h) ==
  \A n \in Due(t) :
    NotGiven(n, PeriodStart(n), PayoutEnd(n, t), h[n], Reward(n, t) - Fee(n, t)) \in 0..Tolerance

(* What the destinations get: Cudos, the farm's owner for what is not      *)
(* sold, for the maintenance and for what is left over, and the NFTs'      *)
(* owners.                                                                 *)
Distributed(t, p) ==
  LET OfOwners(o) == SumFunction([i \in DOMAIN o |-> o[i].reward])
  IN (Income - AfterFee) + Unsold + Leftover(t)
       + SumFunction([n \in DOMAIN p |-> p[n].fee + p[n].cudos + OfOwners(p[n].owners)])

(* checkTotalAmountToDistribute: everything must be distributed.           *)
AddsUp(t, p) == Distributed(t, p) = Income

Payable(t, h) == Accepted(t, h) /\ AddsUp(t, Statistics(t, h))

-----------------------------------------------------------------------------
(* processFarm *)

Unprocessed == {d \in Deposits \ processed : Arrived(d)}

PaymentTimes == {arrival[d] : d \in processed}

(* getLastUTXOTransactionTimestamp. *)
IsLastTimestamp(t) ==
  IF PaymentTimes = {} THEN t = FarmStart
  ELSE t \in PaymentTimes /\ \A s \in PaymentTimes : s <= t

ListUnspent ==
  /\ pc = "idle"
  /\ Unprocessed # {}
  /\ pc' = "farm"
  /\ todo' = Unprocessed
  /\ \E t \in PaymentTimes \cup {FarmStart} : IsLastTimestamp(t) /\ prev' = t
  /\ UNCHANGED <<env, db, cur, stats, ghosts>>

NothingUnspent == pc = "idle" /\ Unprocessed = {} /\ UNCHANGED vars

(* Mutant: the deposit of the last call is not forgotten.                  *)
Return_KeepsDeposit ==
  pc' = "idle" /\ todo' = {} /\ cur' = cur /\ prev' = 0 /\ stats' = <<>>

Return == pc' = "idle" /\ todo' = {} /\ cur' = None /\ prev' = 0 /\ stats' = <<>>

(* All NFTs are expired, or none is minted: the deposit is skipped and the *)
(* start of the next period is 0.                                          *)
SkipTx(d) ==
  /\ pc = "farm" /\ d \in todo
  /\ Candidates = {}
  /\ todo' = todo \ {d}
  /\ prev' = 0
  /\ rewound' = TRUE
  /\ UNCHANGED <<env, db, pc, cur, stats, times>>

(* processFarmUnspentTx up to UpdateThresholdStatus: the deposit is        *)
(* distributed, sent, and marked as processed.                             *)
Pay(d) ==
  LET t == arrival[d] IN
  /\ pc = "farm" /\ d \in todo
  /\ Candidates # {} /\ ~Refused(t) /\ ~Panics(t)
  /\ \E h \in Orders(t) : Payable(t, h) /\ stats' = Statistics(t, h)
  /\ times' = [n \in Nfts |-> [s \in Seconds |->
                 IF n \in Due(t) /\ PeriodStart(n) <= s /\ s < PayoutEnd(n, t)
                 THEN times[n][s] + 1 ELSE times[n][s]]]
  /\ processed' = processed \cup {d}
  /\ pc' = "save"
  /\ todo' = todo \ {d}
  /\ cur' = d
  /\ UNCHANGED <<env, lastPaid, saved, prev, rewound>>

(* The error ends the call, the panic the process; both start again.       *)
CannotPay(d) ==
  LET t == arrival[d] IN
  /\ pc = "farm" /\ d \in todo
  /\ Candidates # {}
  /\ ~Refused(t) /\ ~Panics(t) => \E h \in Orders(t) : ~Payable(t, h)
  /\ Return
  /\ UNCHANGED <<env, db, ghosts>>

(* The payout history; the end of the period is the start of the next.     *)
SaveStatistics ==
  /\ pc = "save"
  /\ saved' = saved \cup {cur}
  /\ lastPaid' = [n \in Nfts |-> IF n \in DOMAIN stats THEN Later(lastPaid[n], stats[n].end)
                                 ELSE lastPaid[n]]
  /\ prev' = arrival[cur]
  /\ pc' = "farm" /\ cur' = None /\ stats' = <<>>
  /\ rewound' = (rewound \/ arrival[cur] < prev)
  /\ UNCHANGED <<env, processed, todo, times>>

(* A request or the transaction of SaveStatistics fails, or the process    *)
(* stops.                                                                  *)
Interrupted ==
  /\ pc # "idle"
  /\ Return
  /\ UNCHANGED <<env, db, ghosts>>

FinishFarm ==
  /\ pc = "farm" /\ todo = {}
  /\ Return
  /\ UNCHANGED <<env, db, ghosts>>

Environment ==
  \/ Tick
  \/ \E n \in Nfts, p \in People : Mint(n, p) \/ Transfer(n, p)
  \/ \E d \in Deposits : Deposit(d)

Next ==
  \/ Environment
  \/ ListUnspent \/ NothingUnspent \/ FinishFarm
  \/ \E d \in Deposits : SkipTx(d) \/ Pay(d) \/ CannotPay(d)
  \/ SaveStatistics
  \/ Interrupted

Spec == Init /\ [][Next]_vars
-----------------------------------------------------------------------------
(* Properties. *)

TypeOK ==
  /\ now \in Nat
  /\ title \in [Nfts -> Seq([owner : People, time : Nat])]
  /\ arrival \in [Deposits -> Nat]
  /\ processed \in SUBSET Deposits /\ saved \in SUBSET processed
  /\ lastPaid \in [Nfts -> Nat]
  /\ pc \in {"idle", "farm", "save"}
  /\ todo \in SUBSET Unprocessed /\ cur \in Deposits \cup {None}
  /\ (cur # None <=> pc = "save") /\ (pc = "save" => cur \in processed)
  /\ prev \in Nat /\ times \in [Nfts -> [Seconds -> Nat]] /\ rewound \in BOOLEAN
  /\ DOMAIN stats \in SUBSET Nfts
  /\ pc # "save" => stats = <<>>
  /\ \A n \in DOMAIN stats : stats[n].start \in Nat /\ stats[n].end \in Nat

(* The statistics of every payment were saved, those of the current one    *)
(* excepted.                                                               *)
AllSaved == processed \ saved \subseteq {cur}

(* The period of the deposit starts with the last one that was processed.  *)
InOrder(d) == prev <= arrival[d] /\ \A c \in processed \ {d} : arrival[c] <= prev

LiveSeconds(n, from, to) ==
  {s \in from..to - 1 : Minted(n) /\ MintOf(n) <= s /\ s < Expiry[n]}

(* Every second in which an NFT is live is paid for exactly once, up to    *)
(* the last deposit that was processed.  That holds also when the payout   *)
(* history of a payment was lost: the last payment is the earliest start   *)
(* of a period (pay.go:488), as long as no call went back in time.         *)
SecondsPaidOnce ==
  AllSaved \/ ~rewound => \A n \in Nfts : \A s \in Seconds :
    /\ times[n][s] <= 1
    /\ \A d \in processed : s \in LiveSeconds(n, FarmStart, arrival[d]) => times[n][s] = 1

(* What an NFT gets of the deposit d is its part of the hash power for the *)
(* seconds of the period in which it was live, and no NFT that was live is *)
(* left out.                                                               *)
PaidForLiveSeconds(d) ==
  LET t    == arrival[d]
      hash == SumFunctionOnSet(Hash, {n \in Nfts : Minted(n) /\ prev <= Expiry[n]})
      all  == RewardByPercent(FarmHash, hash, AfterFee)
  IN \A n \in Nfts :
       LET live == Cardinality(LiveSeconds(n, prev, t))
           got  == stats'[n].reward + stats'[n].fee + stats'[n].cudos
       IN /\ live > 0 => n \in DOMAIN stats'
          /\ n \in DOMAIN stats' =>
               got = Part(RewardByPercent(hash, Hash[n], all), live, t - prev)

(* Every payment is made that way when deposits are processed in order and *)
(* the payout history is complete ("only the part of the reward after the  *)
(* mint is considered for the NFT", pay.go:450).  The hash power is that   *)
(* of the NFTs minted by the payment: one that is minted before the        *)
(* statistics are saved does not count.                                    *)
RewardForLiveSeconds ==
  [][\A d \in processed' \ processed :
       AllSaved /\ InOrder(d) /\ 0 < prev /\ prev < arrival[d] => PaidForLiveSeconds(d)]_vars

(* The last one who got the NFT up to the second s.                        *)
OwnerAt(n, s) ==
  LET I == {i \in DOMAIN title[n] : title[n][i].time <= s} IN
  title[n][CHOOSE i \in I : \A j \in I : j <= i].owner

OneTransferPerSecond(n) ==
  \A i, j \in 2..Len(title[n]) : title[n][i].time = title[n][j].time => i = j

(* The NFT changed hands after the period and before its payment.  Its     *)
(* holder of today is then taken for the owner of the whole period if      *)
(* there was no transfer in it (calculator.go:37), which is not true.      *)
SoldSince(n, t) == \E i \in 2..Len(title[n]) : title[n][i].time > t

(* "each nft owner for the time period with the time he owned it"          *)
(* (calculator.go:12): every owner is paid for seconds in which the NFT    *)
(* was his, no more than their part with a ratio that may be 1 / Carry of  *)
(* the last place too large, and together they get the reward.             *)
SharesFollowOwnership ==
  pc = "save" =>
    \A n \in DOMAIN stats :
      LET p == stats[n]
          o == p.owners
      IN OneTransferPerSecond(n) /\ ~SoldSince(n, p.end) =>
           /\ \A i \in DOMAIN o : \A s \in o[i].from..o[i].to - 1 : OwnerAt(n, s) = o[i].owner
           /\ SumFunctionOnSet([i \in DOMAIN o |-> o[i].to - o[i].from], DOMAIN o)
                = p.end - p.start
           /\ SumFunctionOnSet([i \in DOMAIN o |-> o[i].reward], DOMAIN o) = p.reward
           /\ \A i \in 1..Len(o) - 1 :
                Carry * Precision * (p.end - p.start) * o[i].reward
                  <= p.reward * (Carry * Precision * (o[i].to - o[i].from) + (p.end - p.start))

(* No transfer in the second of a deposit, of a mint or of an expiry.      *)
NoTransferAtBorder ==
  \A n \in Nfts : \A i \in 2..Len(title[n]) :
    title[n][i].time \notin {arrival[d] : d \in Deposits} \cup {MintOf(n), Expiry[n]}

(* No NFT is minted after it has expired.                                  *)
MintedInTime == \A n \in Nfts : Minted(n) => MintOf(n) <= Expiry[n]

(* Fewer than Carry ratios are rounded up when a reward is split, over the *)
(* NFTs and over the owners of one of them, and those who are given less   *)
(* are not given less than is tolerated.                                   *)
RoundedUp(a, b) == b * Ratio(a, b) > Precision * a

FewRoundedUp ==
  /\ Cardinality({n \in Candidates : RoundedUp(Hash[n], MintedHash)}) < Carry
  /\ \A n \in Nfts : Len(title[n]) < Carry
  /\ Carry * (Income + Precision) <= Tolerance * Precision

(* What the code counts on: a complete payout history, no transfer that    *)
(* may belong to either of two periods, NFTs that do not expire before     *)
(* they are minted, and no more sold than there is.                        *)
Regular == AllSaved /\ NoTransferAtBorder /\ MintedInTime /\ MintedHash <= FarmHash

(* A deposit that is not skipped can be paid: the checks on the            *)
(* calculation (calculator.go:21, 95, 108, 244, 259) refuse none, in       *)
(* whatever order the transfers are taken, when deposits are processed in  *)
(* order, the payout history is complete, no NFT was minted too late, few  *)
(* ratios are rounded up, and the farm has sold no more hash power than it *)
(* has (nothing checks that, calculator.go:175).                           *)
EveryDepositPayable ==
  pc = "farm" /\ Regular /\ FewRoundedUp =>
    \A d \in todo : InOrder(d) =>
      LET t == arrival[d] IN
      ~Refused(t) /\ ~Panics(t) /\ \A h \in Orders(t) : Payable(t, h)

(* What the NFTs get is not more than there is for their owners: the       *)
(* inaccuracies of the calculation leave something to be returned          *)
(* (calculator.go:231-234).  It does not hold: as many ratios as Carry may *)
(* be rounded up.                                                          *)
NeverOverspent ==
  pc = "farm" /\ Regular =>
    \A d \in todo : InOrder(d) /\ prev < arrival[d] => Leftover(arrival[d]) >= 0
=============================================================================
