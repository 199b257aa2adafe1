-------------------------- MODULE NftRewardsProofs --------------------------
(***************************************************************************)
(* For which time the NFTs are paid, how much, and to whom, whatever the   *)
(* farm, its NFTs and the deposits are, and wherever the service is        *)
(* interrupted.                                                            *)
(*                                                                         *)
(* Every second of every NFT is paid for exactly once.  A second that was  *)
(* paid lies before a processed deposit and, while no payout history is    *)
(* lost, before the last payout of the NFT: a period that starts after one *)
(* or the other pays no second again.  A second that was not paid is not   *)
(* before any of them: the periods leave no gap.                           *)
(*                                                                         *)
(* Hence the period of an NFT starts with that of the deposit or with its  *)
(* mint, while deposits come in order and no payout history is lost, and   *)
(* what the NFT gets is the part of the deposit for its live seconds.  If  *)
(* few of the ratios are rounded up, the parts of the hash power add up to *)
(* no more than the deposit.  The owners of an NFT follow one another      *)
(* through the period, so that their times add up to it, and the last one  *)
(* gets what the rounding left.                                            *)
(***************************************************************************)
EXTENDS NftRewards, SequenceTheorems, SumProofs, TLAPS

(* Everything that happened lies in the past.                              *)
Past ==
  /\ FarmStart <= now
  /\ \A d \in Deposits : arrival[d] <= now
  /\ \A d \in processed : Arrived(d)

(* The start of the period is that of the farm, a payment, or 0, and no    *)
(* payout period ends after the payments.                                  *)
Origins ==
  /\ pc # "idle" => prev \in {0, FarmStart} \cup PaymentTimes
  /\ \A n \in Nfts : lastPaid[n] # 0 => \E c \in processed : lastPaid[n] <= arrival[c]
  /\ pc = "save" =>
       /\ cur \notin saved
       /\ \A n \in DOMAIN stats : stats[n].end <= arrival[cur]

(* A call that did not go back in time starts after every payment.         *)
Forward == ~rewound /\ pc # "idle" => \A c \in processed \ {cur} : arrival[c] <= prev

(* Where the seconds that were paid lie.                                   *)
PaidBefore ==
  \A n \in Nfts : \A s \in Seconds : times[n][s] > 0 =>
    /\ \E c \in processed : s < arrival[c]
    /\ AllSaved => s < lastPaid[n] \/ (n \in DOMAIN stats /\ s < stats[n].end)

NotTwice ==
  AllSaved \/ ~rewound => \A n \in Nfts : \A s \in Seconds : times[n][s] <= 1

NoGap ==
  \A n \in Nfts : \A s \in Seconds : \A d \in processed :
    s \in LiveSeconds(n, FarmStart, arrival[d]) => times[n][s] > 0

IInv == TypeOK /\ Past /\ Origins /\ Forward /\ PaidBefore /\ NotTwice /\ NoGap

-----------------------------------------------------------------------------
LEMMA InvInit == Init => IInv
<1> SUFFICES ASSUME Init PROVE IInv
  OBVIOUS
<1> USE RewardsAssumption DEF Init
<1>1. TypeOK
  <2>1. <<>> \in Seq([owner : People, time : Nat]) /\ DOMAIN <<>> = {}
    OBVIOUS
  <2>2. title \in [Nfts -> Seq([owner : People, time : Nat])]
    BY <2>1
  <2>3. times \in [Nfts -> [Seconds -> Nat]] /\ now \in Nat
    OBVIOUS
  <2> QED
    BY <2>1, <2>2, <2>3 DEF TypeOK, Unprocessed
<1>2. Past /\ Origins /\ Forward
  BY DEF Past, Origins, Forward, Arrived
<1>3. PaidBefore /\ NotTwice /\ NoGap
  BY DEF PaidBefore, NotTwice, NoGap
<1> QED
  BY <1>1, <1>2, <1>3 DEF IInv

(* The period of an NFT that is due, for an NFT that is minted.            *)
LEMMA Periods ==
  ASSUME TypeOK, NEW n \in Nfts, NEW t \in Nat, Minted(n)
  PROVE  /\ MintOf(n) \in Nat /\ PayoutStart(n) \in Nat
         /\ PeriodStart(n) \in Nat /\ PayoutEnd(n, t) \in Nat
         /\ PeriodStart(n) >= prev /\ PeriodStart(n) >= PayoutStart(n)
         /\ PeriodStart(n) = prev \/ PeriodStart(n) = PayoutStart(n)
         /\ PayoutEnd(n, t) <= t /\ PayoutEnd(n, t) <= Expiry[n]
         /\ PayoutEnd(n, t) = t \/ PayoutEnd(n, t) = Expiry[n]
<1>1. Len(title[n]) \in Nat \ {0} /\ title[n] \in Seq([owner : People, time : Nat])
  <2>1. title[n] \in Seq([owner : People, time : Nat]) /\ title[n] # <<>>
    BY DEF TypeOK, Minted
  <2> QED
    BY <2>1, EmptySeq
<1>2. MintOf(n) \in Nat
  <2>1. 1 \in 1..Len(title[n])
    BY <1>1
  <2>2. title[n][1] \in [owner : People, time : Nat]
    BY <1>1, <2>1, ElementOfSeq, Zenon
  <2> QED
    BY <2>2 DEF MintOf
<1>3. Expiry[n] \in Nat /\ lastPaid[n] \in Nat /\ prev \in Nat
  BY RewardsAssumption DEF TypeOK
<1> QED
  BY <1>2, <1>3 DEF PayoutStart, PeriodStart, PayoutEnd, Earlier, Later

(* What a payment does, as far as the seconds are concerned.               *)
LEMMA PaySteps ==
  ASSUME TypeOK, NEW d \in Deposits, Pay(d)
  PROVE  LET t == arrival[d] IN
         /\ pc = "farm" /\ pc' = "save" /\ cur = None /\ cur' = d
         /\ d \in todo /\ todo' = todo \ {d}
         /\ d \notin processed /\ Arrived(d) /\ processed' = processed \cup {d}
         /\ DOMAIN stats' = Due(t)
         /\ \A n \in Due(t) : /\ n \in Nfts /\ Minted(n)
                              /\ stats'[n].end = PayoutEnd(n, t)
                              /\ stats'[n].start = PeriodStart(n)
         /\ \A n \in Nfts : \A s \in Seconds :
              times'[n][s] = IF n \in Due(t) /\ PeriodStart(n) <= s /\ s < PayoutEnd(n, t)
                             THEN times[n][s] + 1 ELSE times[n][s]
         /\ UNCHANGED <<now, title, arrival, lastPaid, saved, prev, rewound>>
<1> DEFINE t == arrival[d]
<1>1. PICK h : stats' = Statistics(t, h)
  BY DEF Pay
<1>2. /\ DOMAIN stats' = Due(t)
      /\ \A n \in Due(t) : stats'[n].end = PayoutEnd(n, t) /\ stats'[n].start = PeriodStart(n)
  BY <1>1 DEF Statistics
<1>3. \A n \in Due(t) : n \in Nfts /\ Minted(n)
  BY DEF Due, Candidates
<1>4. times' = [n \in Nfts |-> [s \in Seconds |->
                 IF n \in Due(t) /\ PeriodStart(n) <= s /\ s < PayoutEnd(n, t)
                 THEN times[n][s] + 1 ELSE times[n][s]]]
  BY DEF Pay
<1>5. /\ pc = "farm" /\ pc' = "save" /\ cur' = d /\ d \in todo /\ todo' = todo \ {d}
      /\ processed' = processed \cup {d}
      /\ UNCHANGED <<now, title, arrival, lastPaid, saved, prev, rewound>>
  BY DEF Pay, env
<1>6. cur = None /\ d \notin processed /\ Arrived(d)
  BY <1>5 DEF TypeOK, Unprocessed
<1> QED
  BY <1>2, <1>3, <1>4, <1>5, <1>6

(* The chain only grows: what was minted stays minted when it was.         *)
LEMMA TitleGrows ==
  ASSUME TypeOK, NEW n \in Nfts, NEW p \in People, Mint(n, p) \/ Transfer(n, p)
  PROVE  /\ title' \in [Nfts -> Seq([owner : People, time : Nat])]
         /\ \A m \in Nfts : Minted(m) => Minted(m)' /\ MintOf(m)' = MintOf(m)
         /\ \A m \in Nfts : ~Minted(m) /\ Minted(m)' => MintOf(m)' = now
         /\ UNCHANGED <<now, arrival, processed, lastPaid, saved, pc, todo, cur, prev,
                        stats, times, rewound>>
<1> DEFINE R == [owner : People, time : Nat]
           r == [owner |-> p, time |-> now]
<1>0. title \in [Nfts -> Seq(R)] /\ now \in Nat /\ r \in R
  BY DEF TypeOK
<1>1. CASE Mint(n, p)
  <2>1. title' = [title EXCEPT ![n] = <<r>>] /\ title[n] = <<>>
    BY <1>1 DEF Mint, Minted
  <2>2. <<r>> \in Seq(R) /\ <<r>> # <<>> /\ <<r>>[1].time = now
    BY <1>0
  <2> QED
    BY <1>0, <1>1, <2>1, <2>2 DEF Mint, Minted, MintOf, db, ghosts
<1>2. CASE Transfer(n, p)
  <2>1. title' = [title EXCEPT ![n] = Append(@, r)] /\ title[n] # <<>>
    BY <1>2 DEF Transfer, Minted
  <2>2. Len(title[n]) \in Nat \ {0}
    BY <1>0, <2>1, EmptySeq
  <2>3. /\ Append(title[n], r) \in Seq(R) /\ Append(title[n], r) # <<>>
        /\ Append(title[n], r)[1] = title[n][1]
    <3> HIDE DEF R, r
    <3>1. title[n] \in Seq(R)
      BY <1>0
    <3>2. 1 \in 1..Len(title[n])
      BY <2>2
    <3> QED
      BY <1>0, <3>1, <3>2, AppendProperties
  <2> QED
    BY <1>0, <1>2, <2>1, <2>3 DEF Transfer, Minted, MintOf, db, ghosts
<1> QED
  BY <1>1, <1>2

(* Steps that change neither what was paid nor what a payment starts from. *)
LEMMA Quiet ==
  ASSUME IInv, TypeOK', Past',
         UNCHANGED <<processed, lastPaid, saved, pc, cur, prev, stats, times, rewound>>,
         \A d \in processed : arrival'[d] = arrival[d],
         \A n \in Nfts : \A d \in processed : \A s \in Seconds :
           s \in LiveSeconds(n, FarmStart, arrival[d])' => s \in LiveSeconds(n, FarmStart, arrival[d])
  PROVE  IInv'
<1>1. PaymentTimes' = PaymentTimes
  BY DEF PaymentTimes
<1>2. pc = "save" => cur \in processed
  BY DEF IInv, TypeOK
<1>3. Origins'
  BY <1>1, <1>2 DEF IInv, Origins
<1>4. Forward'
  BY DEF IInv, Forward
<1>5. PaidBefore' /\ NotTwice'
  BY DEF IInv, PaidBefore, NotTwice, AllSaved
<1>6. NoGap'
  BY DEF IInv, NoGap
<1> QED
  BY <1>3, <1>4, <1>5, <1>6 DEF IInv

LEMMA EnvironmentStep == ASSUME IInv, Environment PROVE IInv'
<1>t. TypeOK /\ Past
  BY DEF IInv
<1>a. FarmStart \in Nat /\ now \in Nat /\ arrival \in [Deposits -> Nat] /\ processed \in SUBSET Deposits
  BY <1>t, RewardsAssumption DEF TypeOK
<1>1. CASE Tick
  <2>0. now' = now + 1 /\ UNCHANGED <<title, arrival, processed, lastPaid, saved, pc, todo,
                                      cur, prev, stats, times, rewound>>
    BY <1>1 DEF Tick, db, ghosts
  <2>1. TypeOK' /\ Past'
    <3>1. TypeOK'
      <4>1. Unprocessed' = Unprocessed /\ now' \in Nat
        BY <1>a, <2>0 DEF Unprocessed, Arrived
      <4> QED
        BY <1>t, <2>0, <4>1 DEF TypeOK
    <3>2. Past'
      BY <1>t, <1>a, <2>0 DEF Past, Arrived
    <3> QED
      BY <3>1, <3>2
  <2>2. \A n \in Nfts, d \in Deposits :
          LiveSeconds(n, FarmStart, arrival[d])' = LiveSeconds(n, FarmStart, arrival[d])
    BY <1>1 DEF Tick, LiveSeconds, Minted, MintOf
  <2> QED
    BY <1>1, <1>a, <2>1, <2>2, Quiet DEF Tick, db, ghosts
<1>2. ASSUME NEW n \in Nfts, NEW p \in People, Mint(n, p) \/ Transfer(n, p) PROVE IInv'
  <2>1. /\ title' \in [Nfts -> Seq([owner : People, time : Nat])]
        /\ \A m \in Nfts : Minted(m) => Minted(m)' /\ MintOf(m)' = MintOf(m)
        /\ \A m \in Nfts : ~Minted(m) /\ Minted(m)' => MintOf(m)' = now
        /\ UNCHANGED <<now, arrival, processed, lastPaid, saved, pc, todo, cur, prev,
                       stats, times, rewound>>
    BY <1>2, <1>t, TitleGrows
  <2>2. TypeOK' /\ Past'
    BY <1>t, <2>1 DEF TypeOK, Past, Unprocessed, Arrived
  <2>3. ASSUME NEW m \in Nfts, NEW d \in processed, NEW s \in Seconds,
               s \in LiveSeconds(m, FarmStart, arrival[d])'
        PROVE  s \in LiveSeconds(m, FarmStart, arrival[d])
    <3>1. /\ s \in FarmStart..arrival[d] - 1 /\ Minted(m)' /\ MintOf(m)' <= s /\ s < Expiry[m]
      BY <2>1, <2>3 DEF LiveSeconds
    <3>2. arrival[d] <= now
      BY <1>t DEF Past, TypeOK
    <3>3. Minted(m)
      BY <1>a, <2>1, <3>1, <3>2
    <3> QED
      BY <2>1, <3>1, <3>3 DEF LiveSeconds
  <2> QED
    BY <2>1, <2>2, <2>3, Quiet
<1>3. ASSUME NEW d \in Deposits, Deposit(d) PROVE IInv'
  <2>1. \A c \in processed : arrival'[c] = arrival[c]
    BY <1>3, <1>t, <1>a DEF Deposit, Past, Arrived
  <2>0. /\ arrival' = [arrival EXCEPT ![d] = now]
        /\ UNCHANGED <<now, title, processed, lastPaid, saved, pc, todo, cur, prev, stats,
                       times, rewound>>
    BY <1>3 DEF Deposit, db, ghosts
  <2>2. TypeOK' /\ Past'
    <3>1. now # 0 /\ arrival' \in [Deposits -> Nat]
      BY <1>t, <1>a, <2>0, RewardsAssumption DEF Past
    <3>2. Unprocessed \subseteq Unprocessed'
      BY <1>a, <2>0, <3>1 DEF Unprocessed, Arrived
    <3>3. TypeOK'
      BY <1>t, <2>0, <3>1, <3>2 DEF TypeOK
    <3>4. Past'
      BY <1>t, <1>a, <2>0, <2>1 DEF Past, Arrived
    <3> QED
      BY <3>3, <3>4
  <2>3. \A n \in Nfts, c \in processed :
          LiveSeconds(n, FarmStart, arrival[c])' = LiveSeconds(n, FarmStart, arrival[c])
    BY <1>3, <2>1 DEF Deposit, LiveSeconds, Minted, MintOf
  <2> QED
    BY <1>3, <2>1, <2>2, <2>3, Quiet DEF Deposit, db, ghosts
<1> QED
  BY <1>1, <1>2, <1>3 DEF Environment

(* A call that returns: a payment whose statistics were not saved stays    *)
(* without them.                                                           *)
LEMMA ReturnStep ==
  ASSUME IInv, Return, UNCHANGED <<env, db, ghosts>>
  PROVE  IInv'
<1>1. /\ pc' = "idle" /\ todo' = {} /\ cur' = None /\ prev' = 0 /\ stats' = <<>>
      /\ UNCHANGED <<now, title, arrival, processed, lastPaid, saved, times, rewound>>
  BY DEF Return, env, db, ghosts
<1>2. DOMAIN <<>> = {}
  OBVIOUS
<1>3. TypeOK'
  BY <1>1, <1>2 DEF IInv, TypeOK, Unprocessed
<1>4. Past' /\ Origins' /\ Forward'
  BY <1>1 DEF IInv, Past, Origins, Forward, Arrived
<1>5. AllSaved' => AllSaved /\ stats' = stats
  <2>1. processed \in SUBSET Deposits /\ (pc = "save" => cur \in processed /\ cur \notin saved)
    BY DEF IInv, TypeOK, Origins
  <2>2. AllSaved' => processed \subseteq saved
    BY <1>1, <2>1, RewardsAssumption DEF AllSaved
  <2>3. AllSaved' => pc # "save"
    BY <2>1, <2>2
  <2>4. pc # "save" => stats = <<>>
    BY DEF IInv, TypeOK
  <2> QED
    BY <1>1, <2>2, <2>3, <2>4 DEF AllSaved
<1>6. PaidBefore' /\ NotTwice' /\ NoGap'
  BY <1>1, <1>5 DEF IInv, PaidBefore, NotTwice, NoGap, LiveSeconds, Minted, MintOf
<1> QED
  BY <1>3, <1>4, <1>6 DEF IInv

(* The start of a call, and a deposit that is skipped.                     *)
LEMMA StartStep ==
  ASSUME IInv, ListUnspent \/ \E d \in Deposits : SkipTx(d)
  PROVE  IInv'
<1>t. TypeOK /\ processed \in SUBSET Deposits /\ arrival \in [Deposits -> Nat] /\ FarmStart \in Nat
  BY RewardsAssumption DEF IInv, TypeOK
<1>1. CASE ListUnspent
  <2>1. /\ pc = "idle" /\ pc' = "farm" /\ todo' = Unprocessed
        /\ UNCHANGED <<now, title, arrival, processed, lastPaid, saved, cur, stats, times, rewound>>
    BY <1>1 DEF ListUnspent, env, db, ghosts
  <2>2. /\ prev' \in {FarmStart} \cup PaymentTimes
        /\ \A c \in processed : arrival[c] <= prev'
    BY <1>1, <1>t DEF ListUnspent, IsLastTimestamp, PaymentTimes
  <2>3. prev' \in Nat
    BY <1>t, <2>2 DEF PaymentTimes
  <2>4. TypeOK'
    <3>1. Unprocessed' = Unprocessed
      BY <2>1 DEF Unprocessed, Arrived
    <3>2. todo' \in SUBSET Unprocessed' /\ cur = None
      BY <1>t, <2>1, <3>1 DEF TypeOK
    <3> QED
      BY <1>t, <2>1, <2>3, <3>2 DEF TypeOK
  <2>5. Past' /\ Origins' /\ Forward'
    BY <2>1, <2>2 DEF IInv, Past, Origins, Forward, Arrived, PaymentTimes
  <2>6. PaidBefore' /\ NotTwice' /\ NoGap'
    BY <2>1 DEF IInv, PaidBefore, NotTwice, NoGap, LiveSeconds, Minted, MintOf, AllSaved
  <2> QED
    BY <2>4, <2>5, <2>6 DEF IInv
<1>2. ASSUME NEW d \in Deposits, SkipTx(d) PROVE IInv'
  <2>1. /\ pc = "farm" /\ todo' = todo \ {d} /\ prev' = 0 /\ rewound' = TRUE
        /\ UNCHANGED <<now, title, arrival, processed, lastPaid, saved, pc, cur, stats, times>>
    BY <1>2 DEF SkipTx, env, db
  <2>2. TypeOK'
    <3>1. Unprocessed' = Unprocessed
      BY <2>1 DEF Unprocessed, Arrived
    <3>2. todo' \in SUBSET Unprocessed'
      BY <1>t, <2>1, <3>1 DEF TypeOK
    <3> QED
      BY <1>t, <2>1, <3>2 DEF TypeOK
  <2>3. Past' /\ Origins' /\ Forward'
    BY <2>1 DEF IInv, Past, Origins, Forward, Arrived
  <2>4. PaidBefore' /\ NotTwice' /\ NoGap'
    BY <2>1 DEF IInv, PaidBefore, NotTwice, NoGap, LiveSeconds, Minted, MintOf, AllSaved
  <2> QED
    BY <2>2, <2>3, <2>4 DEF IInv
<1> QED
  BY <1>1, <1>2

LEMMA SaveStep == ASSUME IInv, SaveStatistics PROVE IInv'
<1>t. /\ TypeOK /\ cur \in processed /\ processed \in SUBSET Deposits
      /\ arrival \in [Deposits -> Nat] /\ lastPaid \in [Nfts -> Nat]
      /\ prev \in Nat /\ arrival[cur] \in Nat
      /\ DOMAIN stats \in SUBSET Nfts /\ \A n \in DOMAIN stats : stats[n].end \in Nat
  BY DEF SaveStatistics, IInv, TypeOK
<1>1. /\ pc = "save" /\ pc' = "farm" /\ cur' = None /\ stats' = <<>> /\ prev' = arrival[cur]
      /\ saved' = saved \cup {cur} /\ rewound' = (rewound \/ arrival[cur] < prev)
      /\ UNCHANGED <<now, title, arrival, processed, todo, times>>
  BY DEF SaveStatistics, env
<1>2. /\ lastPaid' \in [Nfts -> Nat]
      /\ \A n \in Nfts : lastPaid'[n] >= lastPaid[n]
      /\ \A n \in DOMAIN stats : lastPaid'[n] >= stats[n].end
      /\ \A n \in Nfts : \/ lastPaid'[n] = lastPaid[n]
                         \/ n \in DOMAIN stats /\ lastPaid'[n] = stats[n].end
  BY <1>t DEF SaveStatistics, Later
<1>3. DOMAIN <<>> = {}
  OBVIOUS
<1>4. TypeOK'
  <2>1. Unprocessed' = Unprocessed
    BY <1>1 DEF Unprocessed, Arrived
  <2>2. todo' \in SUBSET Unprocessed' /\ saved' \in SUBSET processed' /\ rewound' \in BOOLEAN
    BY <1>t, <1>1, <2>1 DEF TypeOK
  <2>3. stats' = <<>> /\ DOMAIN stats' = {} /\ prev' \in Nat
    BY <1>t, <1>1, <1>3
  <2> QED
    BY <1>t, <1>1, <1>2, <2>2, <2>3 DEF TypeOK
<1>5. Past' /\ Forward'
  <2>1. Past'
    BY <1>1 DEF IInv, Past, Arrived
  <2>2. rewound \in BOOLEAN
    BY <1>t DEF TypeOK
  <2>3. ASSUME ~rewound', NEW c \in processed PROVE arrival[c] <= prev'
    <3>1. ~rewound /\ ~(arrival[cur] < prev)
      BY <1>1, <2>2, <2>3, Zenon
    <3>2. c # cur => arrival[c] <= prev
      BY <1>1, <3>1 DEF IInv, Forward
    <3>3. arrival[c] \in Nat
      BY <1>t
    <3> QED
      BY <1>t, <1>1, <3>1, <3>2, <3>3
  <2>4. Forward'
    BY <1>1, <2>3 DEF Forward
  <2> QED
    BY <2>1, <2>4
<1>6. Origins'
  BY <1>t, <1>1, <1>2 DEF IInv, Origins, PaymentTimes
<1>7. AllSaved' => AllSaved
  <2>1. None \notin processed
    BY <1>t, RewardsAssumption
  <2> QED
    BY <1>1, <2>1 DEF AllSaved
<1>8. PaidBefore'
  <2> SUFFICES ASSUME NEW n \in Nfts, NEW s \in Seconds, times[n][s] > 0
               PROVE  /\ \E c \in processed : s < arrival[c]
                      /\ AllSaved' => s < lastPaid'[n]
    BY <1>1 DEF PaidBefore
  <2>1. s \in Int
    BY RewardsAssumption DEF Seconds
  <2> QED
    BY <1>t, <1>2, <1>7, <2>1 DEF IInv, PaidBefore
<1>9. NotTwice' /\ NoGap'
  <2>1. rewound \in BOOLEAN /\ rewound' \in BOOLEAN /\ (~rewound' => ~rewound)
    BY <1>t, <1>1 DEF TypeOK
  <2> QED
    BY <1>1, <1>7, <2>1 DEF IInv, NotTwice, NoGap, LiveSeconds, Minted, MintOf
<1> QED
  BY <1>4, <1>5, <1>6, <1>8, <1>9 DEF IInv

(* A payment: no second that is paid was paid before, if the history is    *)
(* complete or the call did not go back in time.                           *)
LEMMA PaidOnce ==
  ASSUME IInv, NEW d \in Deposits, Pay(d),
         AllSaved' \/ ~rewound', NEW n \in Nfts, NEW s \in Seconds,
         n \in Due(arrival[d]), PeriodStart(n) <= s
  PROVE  times[n][s] = 0
<1> DEFINE t == arrival[d]
<1>t. /\ TypeOK /\ t \in Nat /\ times[n][s] \in Nat /\ s \in Int
      /\ prev \in Nat /\ lastPaid[n] \in Nat /\ processed \in SUBSET Deposits
      /\ \A c \in processed : arrival[c] \in Nat
  <2>1. TypeOK /\ FarmStart \in Nat /\ MaxTime \in Nat /\ Expiry[n] \in Nat
    BY RewardsAssumption DEF IInv
  <2>2. s \in Int
    BY <2>1 DEF Seconds
  <2>3. /\ arrival \in [Deposits -> Nat] /\ lastPaid \in [Nfts -> Nat] /\ prev \in Nat
        /\ processed \in SUBSET Deposits /\ times \in [Nfts -> [Seconds -> Nat]]
    BY <2>1 DEF TypeOK
  <2> QED
    BY <2>1, <2>2, <2>3
<1>1. /\ pc = "farm" /\ cur = None /\ cur' = d /\ d \notin processed
      /\ processed' = processed \cup {d} /\ Minted(n)
      /\ UNCHANGED <<saved, rewound>>
  BY <1>t, PaySteps
<1>2. PeriodStart(n) \in Nat /\ PeriodStart(n) >= prev /\ PeriodStart(n) >= PayoutStart(n)
  BY <1>t, <1>1, Periods
<1>3. times[n][s] > 0 => \E c \in processed : s < arrival[c]
  BY DEF IInv, PaidBefore
<1>4. CASE AllSaved'
  <2>1. AllSaved
    BY <1>1, <1>4 DEF AllSaved
  <2>2. DOMAIN stats = {}
    <3>1. stats = <<>> /\ DOMAIN <<>> = {}
      BY <1>t, <1>1 DEF TypeOK
    <3> QED
      BY <3>1
  <2>3. times[n][s] > 0 => s < lastPaid[n]
    BY <2>1, <2>2 DEF IInv, PaidBefore
  <2>4. lastPaid[n] # 0 => PayoutStart(n) = lastPaid[n]
    BY DEF PayoutStart
  <2>5. lastPaid[n] = 0 \/ lastPaid[n] <= s
    BY <1>t, <1>2, <2>4
  <2>6. s >= 0
    BY <1>t, <1>2
  <2> QED
    BY <1>t, <2>3, <2>5, <2>6
<1>5. CASE ~rewound'
  <2>1. \A c \in processed : arrival[c] <= prev
    BY <1>t, <1>1, <1>5, RewardsAssumption DEF IInv, Forward
  <2> QED
    BY <1>t, <1>2, <1>3, <2>1
<1> QED
  BY <1>4, <1>5

(* And it leaves no second out that was not paid before.                   *)
LEMMA NothingLeftOut ==
  ASSUME IInv, NEW d \in Deposits, Pay(d), NEW n \in Nfts, NEW s \in Seconds,
         s \in LiveSeconds(n, FarmStart, arrival[d])
  PROVE  \/ times[n][s] > 0
         \/ n \in Due(arrival[d]) /\ PeriodStart(n) <= s /\ s < PayoutEnd(n, arrival[d])
<1> DEFINE t == arrival[d]
<1>t. /\ TypeOK /\ t \in Nat /\ s \in Int /\ FarmStart \in Nat /\ Expiry[n] \in Nat
      /\ prev \in Nat /\ lastPaid[n] \in Nat /\ processed \in SUBSET Deposits
      /\ \A c \in processed : arrival[c] \in Nat
  <2>1. TypeOK /\ FarmStart \in Nat /\ MaxTime \in Nat /\ Expiry[n] \in Nat
    BY RewardsAssumption DEF IInv
  <2>2. s \in Int
    BY <2>1 DEF Seconds
  <2>3. /\ arrival \in [Deposits -> Nat] /\ lastPaid \in [Nfts -> Nat] /\ prev \in Nat
        /\ processed \in SUBSET Deposits /\ times \in [Nfts -> [Seconds -> Nat]]
    BY <2>1 DEF TypeOK
  <2> QED
    BY <2>1, <2>2, <2>3
<1>1. /\ FarmStart <= s /\ s < t /\ Minted(n) /\ MintOf(n) <= s /\ s < Expiry[n]
  BY <1>t DEF LiveSeconds
<1>2. /\ MintOf(n) \in Nat /\ PayoutStart(n) \in Nat /\ PeriodStart(n) \in Nat
      /\ PayoutEnd(n, t) \in Nat
      /\ PeriodStart(n) = prev \/ PeriodStart(n) = PayoutStart(n)
      /\ PayoutEnd(n, t) = t \/ PayoutEnd(n, t) = Expiry[n]
  BY <1>t, <1>1, Periods
<1>3. ASSUME NEW c \in processed, s < arrival[c] PROVE times[n][s] > 0
  <2>1. s \in LiveSeconds(n, FarmStart, arrival[c])
    BY <1>t, <1>1, <1>3 DEF LiveSeconds
  <2> QED
    BY <2>1 DEF IInv, NoGap
<1>4. ASSUME s < prev PROVE times[n][s] > 0
  <2>1. prev \in {0, FarmStart} \cup PaymentTimes
    BY <1>t, PaySteps DEF IInv, Origins
  <2>2. PICK c \in processed : prev = arrival[c]
    BY <1>t, <1>1, <1>4, <2>1 DEF PaymentTimes
  <2> QED
    BY <1>3, <1>4, <2>2
<1>5. ASSUME s < PayoutStart(n) PROVE times[n][s] > 0
  <2>1. lastPaid[n] # 0 /\ PayoutStart(n) = lastPaid[n]
    BY <1>t, <1>1, <1>2, <1>5 DEF PayoutStart
  <2>2. PICK c \in processed : lastPaid[n] <= arrival[c]
    BY <2>1 DEF IInv, Origins
  <2> QED
    BY <1>t, <1>3, <1>5, <2>1, <2>2
<1>6. CASE n \in Due(t)
  BY <1>t, <1>1, <1>2, <1>4, <1>5, <1>6
<1>7. CASE n \notin Due(t)
  <2>1. prev > Expiry[n] \/ PayoutStart(n) > t
    BY <1>t, <1>1, <1>2, <1>7 DEF Due, Candidates
  <2> QED
    BY <1>t, <1>1, <1>2, <1>4, <1>5, <2>1
<1> QED
  BY <1>6, <1>7

LEMMA PayStep == ASSUME IInv, NEW d \in Deposits, Pay(d) PROVE IInv'
<1> DEFINE t == arrival[d]
<1>t. /\ TypeOK /\ arrival \in [Deposits -> Nat] /\ t \in Nat /\ lastPaid \in [Nfts -> Nat]
      /\ prev \in Nat /\ processed \in SUBSET Deposits /\ times \in [Nfts -> [Seconds -> Nat]]
  BY DEF IInv, TypeOK
<1>1. /\ pc = "farm" /\ pc' = "save" /\ cur = None /\ cur' = d
      /\ d \in todo /\ todo' = todo \ {d}
      /\ d \notin processed /\ Arrived(d) /\ processed' = processed \cup {d}
      /\ UNCHANGED <<now, title, arrival, lastPaid, saved, prev, rewound>>
  BY <1>t, PaySteps
<1>2. /\ DOMAIN stats' = Due(t) /\ Due(t) \in SUBSET Nfts
      /\ \A n \in Due(t) : stats'[n].end = PayoutEnd(n, t) /\ stats'[n].start = PeriodStart(n)
  BY <1>t, PaySteps
<1>3. \A n \in Due(t) : PeriodStart(n) \in Nat /\ PayoutEnd(n, t) \in Nat /\ PayoutEnd(n, t) <= t
  BY <1>t, PaySteps, Periods
<1>4. \A n \in Nfts : \A s \in Seconds :
        times'[n][s] = IF n \in Due(t) /\ PeriodStart(n) <= s /\ s < PayoutEnd(n, t)
                       THEN times[n][s] + 1 ELSE times[n][s]
  BY <1>t, PaySteps
<1>5. times' \in [Nfts -> [Seconds -> Nat]]
  BY <1>t DEF Pay
<1>6. None \notin Deposits /\ cur' # None
  BY <1>1, RewardsAssumption
<1>7. TypeOK'
  <2>1. Unprocessed' = Unprocessed \ {d}
    BY <1>1 DEF Unprocessed, Arrived
  <2>2. todo' \in SUBSET Unprocessed' /\ saved' \in SUBSET processed' /\ processed' \in SUBSET Deposits
    BY <1>t, <1>1, <2>1 DEF TypeOK
  <2> QED
    <3>1. /\ DOMAIN stats' \in SUBSET Nfts
          /\ \A n \in DOMAIN stats' : stats'[n].start \in Nat /\ stats'[n].end \in Nat
      BY <1>2, <1>3
    <3>2. cur' \in Deposits \cup {None} /\ (cur' # None <=> pc' = "save") /\ cur' \in processed'
      BY <1>1, <1>6
    <3>3. now' \in Nat /\ title' = title /\ rewound' \in BOOLEAN /\ prev' \in Nat
      BY <1>t, <1>1 DEF TypeOK
    <3> QED
      BY <1>t, <1>1, <1>5, <2>2, <3>1, <3>2, <3>3 DEF TypeOK
<1>8. Past' /\ Origins'
  <2>1. Past'
    BY <1>1 DEF IInv, Past, Arrived
  <2>2. prev' \in {0, FarmStart} \cup PaymentTimes'
    BY <1>1 DEF IInv, Origins, PaymentTimes
  <2>3. \A n \in Nfts : lastPaid'[n] # 0 => \E c \in processed' : lastPaid'[n] <= arrival'[c]
    BY <1>1 DEF IInv, Origins
  <2>4. cur' \notin saved' /\ \A n \in DOMAIN stats' : stats'[n].end <= arrival'[cur']
    BY <1>t, <1>1, <1>2, <1>3 DEF TypeOK
  <2> QED
    BY <2>1, <2>2, <2>3, <2>4 DEF Origins
<1>9. Forward'
  BY <1>t, <1>1, <1>6 DEF IInv, Forward
<1>10. AllSaved' => AllSaved
  BY <1>1 DEF AllSaved
<1>11. PaidBefore'
  <2> SUFFICES ASSUME NEW n \in Nfts, NEW s \in Seconds, times'[n][s] > 0
               PROVE  /\ \E c \in processed' : s < arrival'[c]
                      /\ AllSaved' => s < lastPaid'[n] \/ (n \in DOMAIN stats' /\ s < stats'[n].end)
    BY DEF PaidBefore
  <2>1. CASE n \in Due(t) /\ PeriodStart(n) <= s /\ s < PayoutEnd(n, t)
    <3>1. s < t
      BY <1>t, <1>3, <2>1, RewardsAssumption DEF Seconds
    <3> QED
      BY <1>1, <1>2, <2>1, <3>1
  <2>2. CASE ~(n \in Due(t) /\ PeriodStart(n) <= s /\ s < PayoutEnd(n, t))
    <3>1. times[n][s] > 0
      BY <1>4, <2>2
    <3>2. stats = <<>> /\ DOMAIN <<>> = {}
      BY <1>t, <1>1 DEF TypeOK
    <3>3. DOMAIN stats = {}
      BY <3>2
    <3> QED
      BY <1>1, <1>10, <3>1, <3>3 DEF IInv, PaidBefore
  <2> QED
    BY <2>1, <2>2
<1>12. NotTwice'
  <2> SUFFICES ASSUME AllSaved' \/ ~rewound', NEW n \in Nfts, NEW s \in Seconds
               PROVE  times'[n][s] <= 1
    BY DEF NotTwice
  <2>1. CASE n \in Due(t) /\ PeriodStart(n) <= s /\ s < PayoutEnd(n, t)
    BY <1>4, <2>1, PaidOnce
  <2>2. CASE ~(n \in Due(t) /\ PeriodStart(n) <= s /\ s < PayoutEnd(n, t))
    <3>1. AllSaved \/ ~rewound
      BY <1>1, <1>10
    <3> QED
      BY <1>4, <2>2, <3>1 DEF IInv, NotTwice
  <2> QED
    BY <2>1, <2>2
<1>13. NoGap'
  <2> SUFFICES ASSUME NEW n \in Nfts, NEW s \in Seconds, NEW c \in processed \cup {d},
                      s \in LiveSeconds(n, FarmStart, arrival[c])
               PROVE  times'[n][s] > 0
    BY <1>1 DEF NoGap, LiveSeconds, Minted, MintOf
  <2>1. times[n][s] \in Nat
    BY <1>t
  <2>2. CASE c = d
    BY <1>4, <2>1, <2>2, NothingLeftOut
  <2>3. CASE c \in processed
    BY <1>4, <2>1, <2>3 DEF IInv, NoGap
  <2> QED
    BY <2>2, <2>3
<1> QED
  BY <1>7, <1>8, <1>9, <1>11, <1>12, <1>13 DEF IInv

LEMMA InvStep == IInv /\ [Next]_vars => IInv'
<1> SUFFICES ASSUME IInv, [Next]_vars PROVE IInv'
  OBVIOUS
<1>1. CASE UNCHANGED vars
  <2>1. UNCHANGED <<now, title, arrival, processed, lastPaid, saved, pc, todo, cur, prev,
                    stats, times, rewound>>
    BY <1>1 DEF vars, env, db, ghosts
  <2>2. TypeOK' /\ Past'
    BY <2>1 DEF IInv, TypeOK, Past, Unprocessed, Arrived
  <2>3. \A n \in Nfts, d \in Deposits :
          LiveSeconds(n, FarmStart, arrival[d])' = LiveSeconds(n, FarmStart, arrival[d])
    BY <2>1 DEF LiveSeconds, Minted, MintOf
  <2> QED
    BY <2>1, <2>2, <2>3, Quiet DEF IInv, TypeOK
<1>2. CASE Environment
  BY <1>2, EnvironmentStep
<1>3. CASE ListUnspent
  BY <1>3, StartStep
<1>4. ASSUME NEW d \in Deposits, SkipTx(d) PROVE IInv'
  BY <1>4, StartStep
<1>5. ASSUME NEW d \in Deposits, Pay(d) PROVE IInv'
  BY <1>5, PayStep
<1>6. ASSUME NEW d \in Deposits, CannotPay(d) PROVE IInv'
  BY <1>6, ReturnStep DEF CannotPay, ghosts
<1>7. CASE SaveStatistics
  BY <1>7, SaveStep
<1>8. CASE Interrupted \/ FinishFarm
  BY <1>8, ReturnStep DEF Interrupted, FinishFarm
<1>9. CASE NothingUnspent
  BY <1>1, <1>9 DEF NothingUnspent
<1> QED
  BY <1>1, <1>2, <1>3, <1>4, <1>5, <1>6, <1>7, <1>8, <1>9 DEF Next

-----------------------------------------------------------------------------
(* The state is well typed: what a call works on are deposits that were    *)
(* made and are not processed, and what is saved was processed.            *)
THEOREM TypeCorrect == Spec => []TypeOK
<1>1. IInv => TypeOK
  BY DEF IInv
<1> QED
  BY <1>1, InvInit, InvStep, PTL DEF Spec

(* Every second in which an NFT is live is paid for exactly once, up to    *)
(* the last processed deposit (pay.go:467-490): never not at all, and      *)
(* never twice unless a payout history was lost and a call went back in    *)
(* time.                                                                   *)
THEOREM PaidExactlyOnce == Spec => []SecondsPaidOnce
<1>1. IInv => SecondsPaidOnce
  <2> SUFFICES ASSUME IInv, AllSaved \/ ~rewound, NEW n \in Nfts, NEW s \in Seconds
               PROVE  /\ times[n][s] <= 1
                      /\ \A d \in processed :
                           s \in LiveSeconds(n, FarmStart, arrival[d]) => times[n][s] = 1
    BY DEF SecondsPaidOnce
  <2>1. times[n][s] \in Nat
    BY DEF IInv, TypeOK
  <2> QED
    BY <2>1 DEF IInv, NotTwice, NoGap
<1> QED
  BY <1>1, InvInit, InvStep, PTL DEF Spec

-----------------------------------------------------------------------------
(* When an NFT lives, and when its period starts.                          *)

(* An NFT is minted after the start of the farm, and paid between its mint *)
(* and its expiry: one that was minted too late is never paid.             *)
Lives ==
  /\ now = FarmStart \/ now <= MaxTime
  /\ \A n \in Nfts : Minted(n) =>
       FarmStart <= MintOf(n) /\ MintOf(n) <= now
  /\ \A n \in Nfts : lastPaid[n] # 0 =>
       Minted(n) /\ MintOf(n) <= lastPaid[n] /\ lastPaid[n] <= Expiry[n]
  /\ \A n \in DOMAIN stats :
       Minted(n) /\ MintOf(n) <= stats[n].end /\ stats[n].end <= Expiry[n]

LEMMA LivesInit == Init => Lives
<1> SUFFICES ASSUME Init PROVE Lives
  OBVIOUS
<1>1. DOMAIN <<>> = {}
  OBVIOUS
<1> QED
  BY <1>1 DEF Init, Lives, Minted

(* Steps that mint nothing and pay nothing.                                *)
LEMMA LivesQuiet ==
  ASSUME Lives, UNCHANGED <<now, title, lastPaid>>, stats' = stats \/ stats' = <<>>
  PROVE  Lives'
<1>1. DOMAIN <<>> = {}
  OBVIOUS
<1>2. \A n \in DOMAIN stats' : n \in DOMAIN stats /\ stats'[n] = stats[n]
  BY <1>1
<1> QED
  BY <1>2 DEF Lives, Minted, MintOf

LEMMA LivesEnvironment == ASSUME TypeOK, Past, Lives, Environment PROVE Lives'
<1>t. /\ now \in Nat /\ FarmStart \in Nat /\ MaxTime \in Nat /\ FarmStart <= now
      /\ DOMAIN stats \in SUBSET Nfts
  BY RewardsAssumption DEF TypeOK, Past
<1>m. \A m \in Nfts : Minted(m) => MintOf(m) \in Nat
  BY Periods, 0 \in Nat
<1>1. CASE Tick
  <2>1. now < MaxTime /\ now' = now + 1 /\ UNCHANGED <<title, lastPaid, stats>>
    BY <1>1 DEF Tick, db
  <2> QED
    BY <1>t, <1>m, <2>1 DEF Lives, Minted, MintOf
<1>2. ASSUME NEW n \in Nfts, NEW p \in People, Mint(n, p) \/ Transfer(n, p) PROVE Lives'
  <2>1. /\ \A m \in Nfts : Minted(m) => Minted(m)' /\ MintOf(m)' = MintOf(m)
        /\ \A m \in Nfts : ~Minted(m) /\ Minted(m)' => MintOf(m)' = now
        /\ UNCHANGED <<now, lastPaid, stats>>
    BY <1>2, TitleGrows
  <2> QED
    BY <1>t, <2>1 DEF Lives
<1>3. ASSUME NEW d \in Deposits, Deposit(d) PROVE Lives'
  BY <1>3, LivesQuiet DEF Deposit, db
<1> QED
  BY <1>1, <1>2, <1>3 DEF Environment

(* An NFT whose payment is not refused is paid up to a time after its mint *)
(* and before its expiry.                                                  *)
LEMMA PaidInLife ==
  ASSUME TypeOK, Lives, NEW d \in Deposits, Pay(d), NEW n \in Due(arrival[d])
  PROVE  MintOf(n) <= PayoutEnd(n, arrival[d]) /\ PayoutEnd(n, arrival[d]) <= Expiry[n]
<1> DEFINE t == arrival[d]
<1>1. n \in Nfts /\ Minted(n) /\ t \in Nat
  BY DEF Due, Candidates, TypeOK
<1>2. /\ MintOf(n) \in Nat /\ PayoutStart(n) \in Nat /\ PeriodStart(n) \in Nat
      /\ PayoutStart(n) <= PeriodStart(n)
      /\ PayoutEnd(n, t) \in Nat /\ PayoutEnd(n, t) <= Expiry[n]
  BY <1>1, Periods
<1>3. MintOf(n) <= PayoutStart(n)
  BY <1>1, <1>2 DEF Lives, PayoutStart
<1>4. PeriodStart(n) <= PayoutEnd(n, t)
  <2>1. ~(PeriodStart(n) > PayoutEnd(n, t))
    BY DEF Pay, Refused
  <2> QED
    BY <1>2, <2>1
<1> QED
  BY <1>2, <1>3, <1>4

LEMMA LivesPay == ASSUME TypeOK, Lives, NEW d \in Deposits, Pay(d) PROVE Lives'
<1> DEFINE t == arrival[d]
<1>1. /\ DOMAIN stats' = Due(t)
      /\ \A n \in Due(t) : n \in Nfts /\ Minted(n) /\ stats'[n].end = PayoutEnd(n, t)
      /\ UNCHANGED <<now, title, lastPaid>>
  BY PaySteps
<1>2. \A n \in Due(t) : MintOf(n) <= PayoutEnd(n, t) /\ PayoutEnd(n, t) <= Expiry[n]
  BY PaidInLife
<1> QED
  BY <1>1, <1>2 DEF Lives, Minted, MintOf

LEMMA LivesSave == ASSUME TypeOK, Lives, SaveStatistics PROVE Lives'
<1>1. DOMAIN <<>> = {} /\ stats' = <<>> /\ UNCHANGED <<now, title>>
  BY DEF SaveStatistics, env
<1>2. \A n \in Nfts : \/ lastPaid'[n] = lastPaid[n]
                      \/ n \in DOMAIN stats /\ lastPaid'[n] = stats[n].end
  BY DEF SaveStatistics, Later
<1> QED
  BY <1>1, <1>2 DEF Lives, Minted, MintOf

LEMMA LivesStep == IInv /\ Lives /\ [Next]_vars => Lives'
<1> SUFFICES ASSUME IInv, Lives, [Next]_vars PROVE Lives'
  OBVIOUS
<1>0. TypeOK /\ Past
  BY DEF IInv
<1>1. CASE UNCHANGED vars
  BY <1>1, LivesQuiet DEF vars, env, db
<1>2. CASE Environment
  BY <1>0, <1>2, LivesEnvironment
<1>3. CASE ListUnspent
  BY <1>3, LivesQuiet DEF ListUnspent, env, db
<1>4. ASSUME NEW d \in Deposits, SkipTx(d) PROVE Lives'
  BY <1>4, LivesQuiet DEF SkipTx, env, db
<1>5. ASSUME NEW d \in Deposits, Pay(d) PROVE Lives'
  BY <1>0, <1>5, LivesPay
<1>6. ASSUME NEW d \in Deposits, CannotPay(d) PROVE Lives'
  BY <1>6, LivesQuiet DEF CannotPay, Return, env, db
<1>7. CASE SaveStatistics
  BY <1>0, <1>7, LivesSave
<1>8. CASE Interrupted \/ FinishFarm
  BY <1>8, LivesQuiet DEF Interrupted, FinishFarm, Return, env, db
<1>9. CASE NothingUnspent
  BY <1>1, <1>9 DEF NothingUnspent
<1> QED
  BY <1>1, <1>2, <1>3, <1>4, <1>5, <1>6, <1>7, <1>8, <1>9 DEF Next

(* When deposits are processed in order and the history is complete, an    *)
(* NFT's period starts with that of the deposit, or with its mint: that    *)
(* the second before was not paid would be a gap.                          *)
LEMMA StartsWithPeriod ==
  ASSUME IInv, Lives, pc = "farm", AllSaved, NEW d \in todo, InOrder(d),
         NEW n \in Candidates
  PROVE  PayoutStart(n) = Later(prev, MintOf(n))
<1>1. n \in Nfts /\ Minted(n) /\ prev <= Expiry[n]
  BY DEF Candidates
<1>2. /\ MintOf(n) \in Nat /\ lastPaid[n] \in Nat /\ Expiry[n] \in Nat /\ prev \in Nat
      /\ FarmStart \in Nat /\ MaxTime \in Nat /\ now \in Nat
      /\ processed \in SUBSET Deposits /\ arrival \in [Deposits -> Nat]
  BY <1>1, Periods, 0 \in Nat, RewardsAssumption DEF IInv, TypeOK
<1>3. d \notin processed /\ \A c \in processed : arrival[c] <= prev /\ 0 < arrival[c]
  BY <1>2 DEF IInv, TypeOK, Past, Unprocessed, InOrder, Arrived
<1>4. /\ FarmStart <= MintOf(n)
      /\ lastPaid[n] # 0 => MintOf(n) <= lastPaid[n]
  BY <1>1 DEF Lives
<1>5. lastPaid[n] # 0 => lastPaid[n] <= prev
  BY <1>1, <1>2, <1>3 DEF IInv, Origins
<1>6. MintOf(n) < prev => lastPaid[n] # 0 /\ prev <= lastPaid[n]
  <2> SUFFICES ASSUME MintOf(n) < prev PROVE lastPaid[n] # 0 /\ prev <= lastPaid[n]
    OBVIOUS
  <2> DEFINE s == prev - 1
  <2>1. prev \in {0, FarmStart} \cup PaymentTimes
    BY DEF IInv, Origins
  <2>2. PICK c \in processed : prev = arrival[c]
    BY <1>2, <1>4, <2>1 DEF PaymentTimes
  <2>3. prev <= now
    BY <1>2, <2>2 DEF IInv, Past
  <2>4. s \in Seconds
    BY <1>2, <1>4, <2>3 DEF Lives, Seconds
  <2>5. s \in LiveSeconds(n, FarmStart, arrival[c])
    BY <1>1, <1>2, <1>4, <2>2 DEF LiveSeconds
  <2>6. times[n][s] > 0
    BY <1>1, <2>2, <2>4, <2>5 DEF IInv, NoGap
  <2>7. DOMAIN stats = {}
    <3>1. stats = <<>> /\ DOMAIN <<>> = {}
      BY DEF IInv, TypeOK
    <3> QED
      BY <3>1
  <2>8. s < lastPaid[n]
    BY <1>1, <2>4, <2>6, <2>7 DEF IInv, PaidBefore
  <2> QED
    BY <1>2, <2>8
<1> QED
  BY <1>2, <1>4, <1>5, <1>6 DEF PayoutStart, Later

-----------------------------------------------------------------------------
(* How much a deposit pays.                                                *)

LEMMA Constants ==
  /\ IsFiniteSet(Nfts) /\ Hash \in [Nfts -> Nat \ {0}] /\ Expiry \in [Nfts -> Nat]
  /\ FarmHash \in Nat \ {0} /\ AfterFee \in Nat /\ AfterFee <= Income /\ Income \in Nat
  /\ Precision \in Nat \ {0} /\ Carry \in Nat /\ Carry >= 2 /\ Tolerance \in Nat
<1> DEFINE x == Income * CudosFee
           fee == x \div 100
<1>1. Income \in Nat /\ CudosFee \in Nat /\ CudosFee <= 100
  BY RewardsAssumption
<1>2. fee \in Nat /\ fee <= Income
  BY <1>1, PartAtMost
<1>3. AfterFee \in Nat /\ AfterFee <= Income
  BY <1>1, <1>2 DEF AfterFee
<1> QED
  BY <1>1, <1>3, RewardsAssumption

(* How a ratio is rounded: up at most by one of the Carry parts of the     *)
(* last place, so that no part is larger than the whole.                   *)
LEMMA RatioBounds ==
  ASSUME NEW a \in Nat, NEW b \in Nat \ {0}
  PROVE  LET q == Ratio(a, b) IN
         /\ q \in Nat
         /\ Carry * (b * q) <= Carry * (Precision * a) + b
         /\ Precision * a < b * q + b
         /\ RoundedUp(a, b) \/ b * q <= Precision * a
         /\ a <= b => q <= Precision
         /\ a = 0 => q = 0
         /\ a = b => q = Precision
<1> DEFINE q == Ratio(a, b)
           K == Carry
           P == Precision
           u == P * a
           v == b * q
<1>1. K \in Nat /\ K >= 2 /\ P \in Nat \ {0}
  BY Constants
<1>2. u \in Nat /\ K * u + b \in Nat /\ K * b \in Nat \ {0} /\ K * P * a + b = K * u + b
  <2>1. u \in Nat /\ K * u \in Nat /\ K * P * a = K * u
    BY <1>1
  <2>2. K * b \in Nat /\ K * b >= b
    BY <1>1
  <2> HIDE DEF u, K
  <2> QED
    BY <2>1, <2>2
<1>3. /\ q \in Nat /\ (K * b) * q <= K * u + b
      /\ K * u + b < (K * b) * q + K * b
  <2>1. q = (K * u + b) \div (K * b)
    BY <1>2 DEF Ratio
  <2> HIDE DEF q, u, K
  <2> QED
    BY <1>2, <2>1, Quotient
<1>4. v \in Nat /\ (K * b) * q = K * v
  BY <1>1, <1>3
<1>5. K * v <= K * u + b /\ K * u + b < K * v + K * b
  BY <1>3, <1>4
<1>6. RoundedUp(a, b) \/ v <= u
  BY <1>2, <1>4 DEF RoundedUp
<1> HIDE DEF q, K, P, RoundedUp
<1>7. u < v + b
  <2> SUFFICES ASSUME v + b <= u PROVE FALSE
    BY <1>2, <1>4
  <2>1. K * (v + b) <= K * u /\ K * (v + b) = K * v + K * b
    BY <1>1, <1>2, <1>4
  <2>2. K * u \in Nat /\ K * v \in Nat /\ K * b \in Nat
    BY <1>1, <1>2, <1>4
  <2> HIDE DEF u, v
  <2> QED
    BY <1>5, <2>1, <2>2
<1>8. a <= b => q <= P
  <2> SUFFICES ASSUME a <= b, P + 1 <= q PROVE FALSE
    BY <1>1, <1>3
  <2>1. u <= P * b
    BY <1>1
  <2>2. b * (P + 1) <= v /\ b * (P + 1) = P * b + b
    BY <1>1, <1>3
  <2>3. u + b <= v
    <3>1. P * b \in Nat
      BY <1>1
    <3> HIDE DEF u, v
    <3> QED
      BY <1>2, <1>4, <2>1, <2>2, <3>1
  <2> HIDE DEF u, v
  <2>4. K * (u + b) <= K * v /\ K * (u + b) = K * u + K * b
    BY <1>1, <1>2, <1>4, <2>3
  <2>5. K * b >= b + b
    BY <1>1
  <2>6. K * u \in Nat /\ K * v \in Nat /\ K * b \in Nat
    BY <1>1, <1>2, <1>4
  <2> QED
    BY <1>5, <2>4, <2>5, <2>6
<1>9. a = 0 => q = 0
  <2> SUFFICES ASSUME a = 0, q >= 1 PROVE FALSE
    BY <1>3
  <2>1. u = 0 /\ K * u = 0
    BY <1>1
  <2>2. v >= b
    BY <1>3
  <2>3. K * v >= K * b /\ K * b >= b + b
    BY <1>1, <1>4, <2>2
  <2>4. K * v \in Nat /\ K * b \in Nat
    BY <1>1, <1>4
  <2> HIDE DEF u, v
  <2> QED
    BY <1>5, <2>1, <2>3, <2>4
<1>10. a = b => q = P
  <2> SUFFICES ASSUME a = b, q + 1 <= P PROVE FALSE
    BY <1>1, <1>3, <1>8
  <2>1. b * (q + 1) <= b * P /\ b * (q + 1) = v + b /\ b * P = u
    BY <1>1, <1>3
  <2> HIDE DEF u, v
  <2> QED
    BY <1>2, <1>4, <1>7, <2>1
<1>11. K * (b * q) <= K * (P * a) + b /\ P * a < b * q + b /\ (RoundedUp(a, b) \/ b * q <= P * a)
  BY <1>5, <1>6, <1>7
<1> QED
  BY <1>3, <1>8, <1>9, <1>10, <1>11 DEF q, K, P

(* And the part of a reward that it gives.                                 *)
LEMMA PartBounds ==
  ASSUME NEW r \in Nat, NEW a \in Nat, NEW b \in Nat \ {0}
  PROVE  LET p == Part(r, a, b)
             q == Ratio(a, b)
         IN /\ p \in Nat /\ q \in Nat
            /\ Precision * p <= r * q /\ r * q < Precision * p + Precision
            /\ a <= b => p <= r
            /\ a = 0 => p = 0
            /\ a = b => p = r
<1> DEFINE p == Part(r, a, b)
           q == Ratio(a, b)
           P == Precision
<1>1. P \in Nat \ {0}
  BY Constants
<1>2. /\ q \in Nat /\ (a <= b => q <= P) /\ (a = 0 => q = 0) /\ (a = b => q = P)
  BY RatioBounds
<1>3. p = (r * q) \div P
  BY DEF Part
<1> HIDE DEF p, q, P
<1>4. r * q \in Nat
  BY <1>2
<1>5. p \in Nat /\ P * p <= r * q /\ r * q < P * p + P
  BY <1>1, <1>3, <1>4, Quotient
<1>6. a <= b => p <= r
  BY <1>1, <1>2, <1>3, PartAtMost
<1>7. a = 0 => p = 0
  <2> SUFFICES ASSUME a = 0 PROVE p = 0
    OBVIOUS
  <2>1. p = (r * 0) \div P /\ r * 0 = 0 * P
    BY <1>1, <1>2, <1>3
  <2> QED
    BY <1>1, <2>1, QuotientExact
<1>8. a = b => p = r
  BY <1>1, <1>2, <1>3, QuotientExact
<1> QED
  BY <1>2, <1>5, <1>6, <1>7, <1>8 DEF p, q, P

(* What the parts of a whole come to, of which each one is rounded on its  *)
(* own: not more than the reward if few were rounded up, and not much less *)
(* in any case.                                                            *)
LEMMA PartsOfWhole ==
  ASSUME NEW S, IsFiniteSet(S), NEW a, \A x \in S : a[x] \in Nat, NEW b \in Nat \ {0},
         SumFunctionOnSet(a, S) = b, NEW r \in Nat, NEW p, \A x \in S : p[x] = Part(r, a[x], b)
  PROVE  LET given == SumFunctionOnSet(p, S) IN
         /\ given \in Nat
         /\ Cardinality({x \in S : RoundedUp(a[x], b)}) < Carry => given <= r
         /\ Precision * (r - given) <= Cardinality(S) * (r + Precision)
<1> DEFINE K == Carry
           P == Precision
           U == {x \in S : RoundedUp(a[x], b)}
           N == Cardinality(S)
           q == [x \in S |-> Ratio(a[x], b)]
           z == [x \in S |-> IF x \in U THEN 1 ELSE 0]
           e == [x \in S |-> 1]
           Q == SumFunctionOnSet(q, S)
           G == SumFunctionOnSet(p, S)
<1>1. K \in Nat /\ K >= 2 /\ P \in Nat \ {0}
  BY Constants
<1>2. U \in SUBSET S /\ IsFiniteSet(U) /\ Cardinality(U) \in Nat /\ N \in Nat
  BY FS_Subset, FS_CardinalityType
<1>3. \A x \in S : /\ q[x] \in Nat /\ p[x] \in Nat
                   /\ K * (b * q[x]) <= K * (P * a[x]) + b
                   /\ P * a[x] < b * q[x] + b
                   /\ x \in U \/ b * q[x] <= P * a[x]
                   /\ P * p[x] <= r * q[x] /\ r * q[x] < P * p[x] + P
  <2> SUFFICES ASSUME NEW x \in S
               PROVE  /\ q[x] \in Nat /\ p[x] \in Nat
                      /\ K * (b * q[x]) <= K * (P * a[x]) + b
                      /\ P * a[x] < b * q[x] + b
                      /\ x \in U \/ b * q[x] <= P * a[x]
                      /\ P * p[x] <= r * q[x] /\ r * q[x] < P * p[x] + P
    OBVIOUS
  <2>1. a[x] \in Nat /\ q[x] = Ratio(a[x], b) /\ p[x] = Part(r, a[x], b)
    OBVIOUS
  <2>2. x \in U <=> RoundedUp(a[x], b)
    OBVIOUS
  <2> HIDE DEF q, U, K, P
  <2>3. /\ q[x] \in Nat
        /\ K * (b * q[x]) <= K * (P * a[x]) + b
        /\ P * a[x] < b * q[x] + b
        /\ x \in U \/ b * q[x] <= P * a[x]
    BY <2>1, <2>2, RatioBounds DEF K, P
  <2>4. p[x] \in Nat /\ P * p[x] <= r * q[x] /\ r * q[x] < P * p[x] + P
    BY <2>1, PartBounds DEF P
  <2> QED
    BY <2>3, <2>4
<1>4. \A x \in S : z[x] = IF x \in U THEN 1 ELSE 0
  OBVIOUS
<1>5. \A x \in S : e[x] = 1
  OBVIOUS
<1> HIDE DEF K, P, U, q, z, e
<1>6. Q \in Nat /\ G \in Nat
  BY <1>3, SumNat
<1>7. SumFunctionOnSet(e, S) = N
  BY <1>5, SumOnes
<1>8. SumFunctionOnSet(z, S) = Cardinality(U)
  <2>1. SumFunctionOnSet(z, S) = SumFunctionOnSet(z, U)
    BY <1>2, <1>4, SumSupport
  <2>2. SumFunctionOnSet(z, U) = Cardinality(U)
    BY <1>2, <1>4, SumOnes
  <2> QED
    BY <2>1, <2>2
<1> HIDE DEF Q, G, N
<1> DEFINE Kbq == [x \in S |-> (K * b) * q[x]]
           KPa == [x \in S |-> (K * P) * a[x]]
           bz  == [x \in S |-> b * z[x]]
           Top == [x \in S |-> KPa[x] + bz[x]]
           Pa  == [x \in S |-> P * a[x]]
           bq  == [x \in S |-> b * q[x]]
           be  == [x \in S |-> b * e[x]]
           Low == [x \in S |-> bq[x] + be[x]]
           Pp  == [x \in S |-> P * p[x]]
           rq  == [x \in S |-> r * q[x]]
           Pe  == [x \in S |-> P * e[x]]
           Up  == [x \in S |-> Pp[x] + Pe[x]]
<1>9. Cardinality(U) < K => Q <= P
  <2>1. \A x \in S : /\ Kbq[x] = (K * b) * q[x] /\ KPa[x] = (K * P) * a[x] /\ bz[x] = b * z[x]
                     /\ Top[x] = KPa[x] + bz[x]
    OBVIOUS
  <2> HIDE DEF Kbq, KPa, bz, Top
  <2>2. \A x \in S : /\ Kbq[x] \in Int /\ KPa[x] \in Int /\ bz[x] \in Int /\ Top[x] \in Int
                     /\ q[x] \in Int /\ a[x] \in Int /\ z[x] \in Int
    BY <1>1, <1>3, <1>4, <2>1
  <2>3. \A x \in S : Kbq[x] <= Top[x]
    <3> SUFFICES ASSUME NEW x \in S PROVE Kbq[x] <= Top[x]
      OBVIOUS
    <3>1. Kbq[x] = K * (b * q[x]) /\ KPa[x] = K * (P * a[x])
      BY <1>1, <1>3, <2>1
    <3>2. CASE x \in U
      BY <1>3, <1>4, <2>1, <2>2, <3>1, <3>2
    <3>3. CASE x \notin U
      <4>1. b * q[x] <= P * a[x] /\ b * q[x] \in Nat /\ P * a[x] \in Nat
        BY <1>1, <1>3, <3>3
      <4>2. K * (b * q[x]) <= K * (P * a[x])
        BY <1>1, <4>1
      <4>3. bz[x] = 0
        BY <1>4, <2>1, <3>3
      <4> QED
        BY <2>1, <2>2, <3>1, <4>2, <4>3
    <3> QED
      BY <3>2, <3>3
  <2>4. K * b \in Int /\ K * P \in Int
    BY <1>1
  <2>5. SumFunctionOnSet(Kbq, S) = (K * b) * Q
    BY <2>1, <2>2, <2>4, SumScale DEF Q
  <2>6. SumFunctionOnSet(KPa, S) = (K * P) * b
    BY <2>1, <2>2, <2>4, SumScale
  <2>7. SumFunctionOnSet(bz, S) = b * Cardinality(U)
    BY <1>8, <2>1, <2>2, SumScale
  <2>8. SumFunctionOnSet(Top, S) = SumFunctionOnSet(KPa, S) + SumFunctionOnSet(bz, S)
    BY <2>1, <2>2, SumPlus
  <2>9. SumFunctionOnSet(Kbq, S) <= SumFunctionOnSet(Top, S)
    BY <2>2, <2>3, SumLeq
  <2>10. (K * b) * Q <= (K * P) * b + b * Cardinality(U)
    BY <2>5, <2>6, <2>7, <2>8, <2>9
  <2> SUFFICES ASSUME Cardinality(U) < K, P + 1 <= Q PROVE FALSE
    BY <1>1, <1>6
  <2>11. (K * b) * (P + 1) <= (K * b) * Q
    BY <1>1, <1>6
  <2>12. (K * b) * (P + 1) = (K * P) * b + b * K
    BY <1>1
  <2>13. b * Cardinality(U) < b * K
    BY <1>1, <1>2
  <2>14. (K * P) * b \in Int /\ b * K \in Int /\ b * Cardinality(U) \in Int /\ (K * b) * Q \in Int
    BY <1>1, <1>2, <1>6
  <2> QED
    BY <2>10, <2>11, <2>12, <2>13, <2>14
<1>10. P * b <= b * Q + b * N
  <2>1. \A x \in S : /\ Pa[x] = P * a[x] /\ bq[x] = b * q[x] /\ be[x] = b * e[x]
                     /\ Low[x] = bq[x] + be[x]
    OBVIOUS
  <2> HIDE DEF Pa, bq, be, Low
  <2>2. \A x \in S : /\ Pa[x] \in Int /\ bq[x] \in Int /\ be[x] \in Int /\ Low[x] \in Int
                     /\ q[x] \in Int /\ a[x] \in Int /\ e[x] \in Int /\ Pa[x] <= Low[x]
    BY <1>1, <1>3, <1>5, <2>1
  <2>3. SumFunctionOnSet(Pa, S) = P * b
    <3>1. \A x \in S : a[x] \in Int /\ Pa[x] = P * a[x]
      BY <2>1, <2>2
    <3>2. P \in Int
      BY <1>1
    <3>3. SumFunctionOnSet(Pa, S) = P * SumFunctionOnSet(a, S)
      BY <3>1, <3>2, SumScale
    <3> QED
      BY <3>3
  <2>4. SumFunctionOnSet(bq, S) = b * Q
    BY <2>1, <2>2, SumScale DEF Q
  <2>5. SumFunctionOnSet(be, S) = b * N
    BY <1>7, <2>1, <2>2, SumScale
  <2>6. SumFunctionOnSet(Low, S) = SumFunctionOnSet(bq, S) + SumFunctionOnSet(be, S)
    <3>1. \A x \in S : Low[x] = bq[x] + be[x] /\ bq[x] \in Int /\ be[x] \in Int
      BY <2>1, <2>2
    <3> QED
      BY <3>1, SumPlus
  <2>7. SumFunctionOnSet(Pa, S) <= SumFunctionOnSet(Low, S)
    BY <2>2, SumLeq
  <2> QED
    BY <2>3, <2>4, <2>5, <2>6, <2>7
<1>11. P <= Q + N
  <2> SUFFICES ASSUME Q + N + 1 <= P PROVE FALSE
    BY <1>1, <1>2, <1>6
  <2>1. b * (Q + N + 1) <= b * P
    BY <1>1, <1>2, <1>6
  <2>2. b * (Q + N + 1) = b * Q + b * N + b /\ b * P = P * b
    BY <1>1, <1>2, <1>6
  <2>3. b * Q \in Nat /\ b * N \in Nat /\ P * b \in Nat
    BY <1>1, <1>2, <1>6
  <2> QED
    BY <1>10, <2>1, <2>2, <2>3
<1>12. P * G <= r * Q /\ r * Q <= P * G + P * N
  <2>1. \A x \in S : /\ Pp[x] = P * p[x] /\ rq[x] = r * q[x] /\ Pe[x] = P * e[x]
                     /\ Up[x] = Pp[x] + Pe[x]
    OBVIOUS
  <2> HIDE DEF Pp, rq, Pe, Up
  <2>2. \A x \in S : /\ Pp[x] \in Int /\ rq[x] \in Int /\ Pe[x] \in Int /\ Up[x] \in Int
                     /\ q[x] \in Int /\ p[x] \in Int /\ e[x] \in Int
                     /\ Pp[x] <= rq[x] /\ rq[x] <= Up[x]
    BY <1>1, <1>3, <1>5, <2>1
  <2>3. SumFunctionOnSet(Pp, S) = P * G
    BY <1>1, <2>1, <2>2, SumScale DEF G
  <2>4. SumFunctionOnSet(rq, S) = r * Q
    BY <2>1, <2>2, SumScale DEF Q
  <2>5. SumFunctionOnSet(Pe, S) = P * N
    BY <1>1, <1>7, <2>1, <2>2, SumScale
  <2>6. SumFunctionOnSet(Up, S) = SumFunctionOnSet(Pp, S) + SumFunctionOnSet(Pe, S)
    BY <2>1, <2>2, SumPlus
  <2>7. /\ SumFunctionOnSet(Pp, S) <= SumFunctionOnSet(rq, S)
        /\ SumFunctionOnSet(rq, S) <= SumFunctionOnSet(Up, S)
    BY <2>2, SumLeq
  <2> QED
    BY <2>3, <2>4, <2>5, <2>6, <2>7
<1>13. Cardinality(U) < K => G <= r
  <2> SUFFICES ASSUME Q <= P, r + 1 <= G PROVE FALSE
    BY <1>6, <1>9
  <2>1. r * Q <= r * P /\ P * (r + 1) <= P * G
    BY <1>1, <1>6
  <2>2. P * (r + 1) = r * P + P /\ r * P \in Nat /\ r * Q \in Nat /\ P * G \in Nat
    BY <1>1, <1>6
  <2> QED
    BY <1>1, <1>12, <2>1, <2>2
<1>14. P * (r - G) <= N * (r + P)
  <2>1. r * P <= r * (Q + N)
    BY <1>1, <1>2, <1>6, <1>11
  <2>2. r * (Q + N) = r * Q + r * N
    BY <1>2, <1>6
  <2>3. P * (r - G) = r * P - P * G /\ N * (r + P) = r * N + P * N
    BY <1>1, <1>2, <1>6
  <2>4. /\ r * P \in Int /\ P * G \in Int /\ r * Q \in Int /\ r * N \in Int /\ P * N \in Int
    BY <1>1, <1>2, <1>6
  <2> QED
    BY <1>12, <2>1, <2>2, <2>3, <2>4
<1> QED
  BY <1>6, <1>13, <1>14 DEF K, P, U, G, N

(* What a part of the hash power gets of a reward.                         *)
LEMMA PercentBounds ==
  ASSUME NEW m \in Nat, NEW h \in Nat, NEW r \in Nat
  PROVE  /\ RewardByPercent(m, h, r) \in Nat
         /\ h <= m => RewardByPercent(m, h, r) <= r
         /\ m > 0 /\ h > 0 => RewardByPercent(m, h, r) = Part(r, h, m)
<1>1. CASE m = 0 \/ h = 0
  BY <1>1 DEF RewardByPercent
<1>2. CASE m > 0 /\ h > 0 /\ r = 0
  <2>1. RewardByPercent(m, h, r) = 0
    BY <1>2 DEF RewardByPercent
  <2>2. /\ Part(r, h, m) \in Nat /\ Ratio(h, m) \in Nat /\ Precision \in Nat \ {0}
        /\ Precision * Part(r, h, m) <= r * Ratio(h, m)
    BY <1>2, PartBounds, Constants
  <2>3. r * Ratio(h, m) = 0
    BY <1>2, <2>2
  <2>4. Part(r, h, m) = 0
    BY <2>2, <2>3
  <2> QED
    BY <1>2, <2>1, <2>4
<1>3. CASE m > 0 /\ h > 0 /\ r > 0
  <2>1. RewardByPercent(m, h, r) = Part(r, h, m)
    BY <1>3 DEF RewardByPercent
  <2> QED
    BY <1>3, <2>1, PartBounds
<1> QED
  BY <1>1, <1>2, <1>3

LEMMA Hashes ==
  /\ IsFiniteSet(Candidates) /\ Candidates \in SUBSET Nfts
  /\ \A n \in Candidates : Hash[n] \in Nat /\ Hash[n] > 0
  /\ MintedHash \in Nat /\ ForOwners \in Nat
<1>1. IsFiniteSet(Candidates) /\ Candidates \in SUBSET Nfts
  BY Constants, FS_Subset DEF Candidates
<1>2. \A x \in Candidates : Hash[x] \in Nat /\ Hash[x] > 0
  BY <1>1, Constants
<1>3. MintedHash \in Nat
  BY <1>1, <1>2, SumNat DEF MintedHash
<1>4. ForOwners \in Nat
  BY <1>3, Constants, PercentBounds DEF ForOwners
<1> QED
  BY <1>1, <1>2, <1>3, <1>4

LEMMA Amounts ==
  ASSUME NEW n \in Nfts
  PROVE  /\ RewardByPercent(MintedHash, Hash[n], ForOwners) \in Nat
         /\ n \in Candidates => MintedHash > 0
<1>1. RewardByPercent(MintedHash, Hash[n], ForOwners) \in Nat
  BY Hashes, Constants, PercentBounds
<1>2. ASSUME n \in Candidates PROVE MintedHash > 0
  <2>1. IsFiniteSet(Candidates \ {n}) /\ \A x \in Candidates \ {n} : Hash[x] \in Nat
    BY Hashes, FS_RemoveElement
  <2>2. SumFunctionOnSet(Hash, Candidates \ {n}) \in Nat
    BY <2>1, SumNat
  <2>3. MintedHash = Hash[n] + SumFunctionOnSet(Hash, Candidates \ {n})
    BY Hashes, <1>2, SumRemove DEF MintedHash
  <2> QED
    BY Hashes, <1>2, <2>2, <2>3
<1> QED
  BY <1>1, <1>2

(* What the rounded parts of all NFTs come to.                             *)
LEMMA PartsFit ==
  ASSUME FewRoundedUp
  PROVE  LET parts == [n \in Nfts |-> IF n \in Candidates
                                      THEN RewardByPercent(MintedHash, Hash[n], ForOwners) ELSE 0]
         IN \A n \in Nfts : n \in Candidates => SumFunctionOnSet(parts, Nfts) <= ForOwners
<1> DEFINE parts == [n \in Nfts |-> IF n \in Candidates
                                    THEN RewardByPercent(MintedHash, Hash[n], ForOwners) ELSE 0]
           M == MintedHash
           F == ForOwners
           C == Candidates
<1> SUFFICES ASSUME NEW n \in Nfts, n \in C PROVE SumFunctionOnSet(parts, Nfts) <= F
  OBVIOUS
<1>1. M \in Nat \ {0} /\ F \in Nat /\ IsFiniteSet(C) /\ C \in SUBSET Nfts /\ IsFiniteSet(Nfts)
  BY Amounts, Hashes, Constants
<1>2. \A x \in C : Hash[x] \in Nat /\ Hash[x] > 0
  BY Hashes
<1>3. ASSUME NEW x \in C PROVE parts[x] = Part(F, Hash[x], M)
  <2>1. parts[x] = RewardByPercent(M, Hash[x], F)
    BY <1>1
  <2> HIDE DEF parts, M, F, C
  <2>2. RewardByPercent(M, Hash[x], F) = Part(F, Hash[x], M)
    <3>1. M \in Nat /\ M > 0 /\ F \in Nat /\ Hash[x] \in Nat /\ Hash[x] > 0
      BY <1>1, <1>2
    <3> QED
      BY <3>1, PercentBounds
  <2> QED
    BY <2>1, <2>2
<1>4. \A x \in Nfts : parts[x] \in Int
  BY Amounts
<1>5. \A x \in Nfts \ C : parts[x] = 0
  OBVIOUS
<1>6. SumFunctionOnSet(Hash, C) = M
  BY DEF MintedHash
<1>7. Cardinality({x \in C : RoundedUp(Hash[x], M)}) < Carry
  BY DEF FewRoundedUp
<1> HIDE DEF parts, M, F, C
<1>8. SumFunctionOnSet(parts, C) <= F
  BY <1>1, <1>2, <1>3, <1>6, <1>7, PartsOfWhole
<1>9. SumFunctionOnSet(parts, Nfts) = SumFunctionOnSet(parts, C)
  BY <1>1, <1>4, <1>5, SumSupport
<1> QED
  BY <1>8, <1>9 DEF F

(* What an NFT gets of a deposit: the part of its period in the period of  *)
(* the deposit, whichever way PercentByTime computes it.                   *)
LEMMA PartOfPeriod ==
  ASSUME NEW from \in Nat, NEW to \in Nat, NEW start \in Nat, NEW end \in Nat, NEW r \in Nat,
         from <= start, start <= end, end <= to
  PROVE  /\ PercentByTime(from, to, start, end, r) \in Nat
         /\ PercentByTime(from, to, start, end, r) <= r
         /\ from < to => PercentByTime(from, to, start, end, r) = Part(r, end - start, to - from)
<1> DEFINE part == PercentByTime(from, to, start, end, r)
           x == end - start
           y == to - from
<1>1. x \in Nat /\ y \in Nat /\ x <= y
  OBVIOUS
<1>2. CASE start = from /\ end = to
  <2>1. part = r /\ x = y
    BY <1>2 DEF PercentByTime
  <2>2. y > 0 => Part(r, y, y) = r
    BY <1>1, PartBounds
  <2> QED
    BY <2>1, <2>2
<1>3. CASE ~(start = from /\ end = to) /\ (end <= from \/ start >= to)
  <2>1. part = 0 /\ x = 0
    BY <1>3 DEF PercentByTime
  <2>2. y > 0 => Part(r, 0, y) = 0
    BY <1>1, PartBounds
  <2> QED
    BY <2>1, <2>2
<1>4. CASE ~(start = from /\ end = to) /\ ~(end <= from \/ start >= to)
  <2>1. part = Part(r, x, y) /\ y > 0
    BY <1>4 DEF PercentByTime
  <2> QED
    BY <1>1, <2>1, PartBounds
<1> QED
  BY <1>2, <1>3, <1>4

(* The period of an NFT that is due.                                       *)
LEMMA DuePeriod ==
  ASSUME IInv, Lives, pc = "farm", AllSaved, NEW d \in todo, InOrder(d),
         NEW n \in Due(arrival[d]), MintOf(n) <= Expiry[n]
  PROVE  LET t == arrival[d] IN
         /\ n \in Candidates /\ n \in Nfts /\ Minted(n)
         /\ t \in Nat /\ prev \in Nat /\ prev <= t
         /\ MintOf(n) \in Nat /\ MintOf(n) <= t /\ Expiry[n] \in Nat
         /\ prev <= Expiry[n]
         /\ PayoutStart(n) \in Nat /\ PayoutEnd(n, t) \in Nat
         /\ PayoutStart(n) = Later(prev, MintOf(n)) /\ PeriodStart(n) = PayoutStart(n)
         /\ prev <= PayoutStart(n) /\ PayoutStart(n) <= PayoutEnd(n, t)
         /\ PayoutEnd(n, t) = Earlier(Expiry[n], t) /\ PayoutEnd(n, t) <= t
<1> DEFINE t == arrival[d]
<1>1. /\ n \in Candidates /\ n \in Nfts /\ Minted(n) /\ prev <= Expiry[n] /\ PayoutStart(n) <= t
  BY DEF Due, Candidates
<1>2. TypeOK /\ t \in Nat /\ prev \in Nat /\ Expiry[n] \in Nat /\ prev <= t
  BY <1>1, RewardsAssumption DEF IInv, TypeOK, InOrder, Unprocessed
<1>3. MintOf(n) \in Nat /\ PayoutEnd(n, t) \in Nat /\ PayoutEnd(n, t) <= t
  BY <1>1, <1>2, Periods
<1>4. MintOf(n) <= Expiry[n]
  OBVIOUS
<1>5. PayoutStart(n) = Later(prev, MintOf(n))
  BY <1>1, StartsWithPeriod
<1>6. PeriodStart(n) = PayoutStart(n)
  BY <1>2, <1>3, <1>5 DEF PeriodStart, Later
<1> QED
  BY <1>1, <1>2, <1>3, <1>4, <1>5, <1>6 DEF Later, PayoutEnd, Earlier

(* The NFTs get no more than there is for the owners, if few of the ratios *)
(* are rounded up.                                                         *)
LEMMA NothingOverspent ==
  ASSUME IInv, Lives, pc = "farm", AllSaved, MintedInTime, FewRoundedUp,
         NEW d \in todo, InOrder(d)
  PROVE  Leftover(arrival[d]) \in Int /\ Leftover(arrival[d]) >= 0
<1> DEFINE t == arrival[d]
           Got  == [n \in Nfts |-> IF n \in Due(t) THEN Reward(n, t) ELSE 0]
           Most == [n \in Nfts |-> IF n \in Candidates
                                   THEN RewardByPercent(MintedHash, Hash[n], ForOwners) ELSE 0]
<1>1. IsFiniteSet(Nfts)
  BY Constants
<1>2. ASSUME NEW n \in Nfts PROVE Got[n] \in Nat /\ Most[n] \in Nat /\ Got[n] <= Most[n]
  <2> DEFINE r == RewardByPercent(MintedHash, Hash[n], ForOwners)
  <2>1. r \in Nat
    BY Amounts
  <2>2. CASE n \in Due(t)
    <3>1. /\ n \in Candidates /\ prev \in Nat /\ t \in Nat
          /\ PayoutStart(n) \in Nat /\ PayoutEnd(n, t) \in Nat
          /\ prev <= PayoutStart(n) /\ PayoutStart(n) <= PayoutEnd(n, t) /\ PayoutEnd(n, t) <= t
      BY <2>2, DuePeriod DEF Due, Candidates, MintedInTime
    <3>2. Reward(n, t) \in Nat /\ Reward(n, t) <= r
      BY <2>1, <3>1, PartOfPeriod DEF Reward
    <3> QED
      BY <2>1, <2>2, <3>1, <3>2
  <2>3. CASE n \notin Due(t)
    BY <2>1, <2>3
  <2> QED
    BY <2>2, <2>3
<1>3. SumFunctionOnSet(Most, Nfts) <= ForOwners /\ ForOwners \in Nat
  <2>1. CASE Candidates = {}
    <3>1. \A n \in Nfts : Most[n] = 0
      BY <2>1
    <3> HIDE DEF Most
    <3>2. SumFunctionOnSet(Most, Nfts) = 0
      BY <1>1, <3>1, SumZero
    <3> QED
      BY <3>2, Hashes
  <2>2. CASE Candidates # {}
    <3>1. PICK n \in Nfts : n \in Candidates
      BY <2>2 DEF Candidates
    <3> QED
      BY <3>1, PartsFit, Hashes
  <2> QED
    BY <2>1, <2>2
<1>4. SumFunctionOnSet(Got, Nfts) <= SumFunctionOnSet(Most, Nfts)
  <2> HIDE DEF Got, Most
  <2> QED
    BY <1>1, <1>2, SumLeq
<1>5. SumFunctionOnSet(Got, Nfts) \in Int /\ SumFunctionOnSet(Most, Nfts) \in Int
  <2> HIDE DEF Got, Most
  <2> QED
    BY <1>1, <1>2, SumInt
<1>6. Leftover(t) = ForOwners - SumFunctionOnSet(Got, Nfts)
  BY DEF Leftover
<1> HIDE DEF Got, Most
<1> QED
  BY <1>3, <1>4, <1>5, <1>6

(* What is unsold and what the owners get are the income without the fee.  *)
LEMMA AllDistributed ==
  ASSUME MintedHash \in Nat, MintedHash <= FarmHash
  PROVE  (Income - AfterFee) + Unsold + ForOwners = Income
<1>1. AfterFee \in Nat /\ FarmHash \in Nat \ {0} /\ Income \in Nat
  BY Constants
<1>2. ForOwners \in Nat
  BY <1>1, PercentBounds DEF ForOwners
<1>3. CASE MintedHash < FarmHash
  <2>1. Unsold = AfterFee - ForOwners
    BY <1>1, <1>3 DEF Unsold
  <2> QED
    BY <1>1, <1>2, <2>1
<1>4. CASE MintedHash = FarmHash
  <2>1. Unsold = 0
    BY <1>1, <1>4 DEF Unsold
  <2>2. Part(AfterFee, FarmHash, FarmHash) = AfterFee
    BY <1>1, PartBounds
  <2>3. ForOwners = AfterFee
    BY <1>1, <1>4, <2>2, PercentBounds DEF ForOwners
  <2> QED
    BY <1>1, <2>1, <2>3
<1> QED
  BY <1>1, <1>3, <1>4

(* A period without transfers has one history, the empty one.              *)
LEMMA NoTransferNoHistory ==
  ASSUME NEW n, NEW from, NEW to,
         \A i \in 2..Len(title[n]) : title[n][i].time \notin from..to
  PROVE  Histories(n, from, to) = {<<>>}
<1> DEFINE I == {i \in 2..Len(title[n]) : title[n][i].time \in from..to}
<1>1. I = {}
  OBVIOUS
<1>2. Cardinality(I) = 0
  BY <1>1, FS_EmptySet
<1>3. Histories(n, from, to) = {h \in [1..0 -> {}] :
     \A j, k \in DOMAIN h : j < k => /\ h[j] # h[k]
                                     /\ title[n][h[j]].time <= title[n][h[k]].time}
  BY <1>1, <1>2 DEF Histories
<1>4. 1..0 = {}
  OBVIOUS
<1>5. [1..0 -> {}] = {<<>>}
  <2>1. <<>> \in [1..0 -> {}]
    OBVIOUS
  <2>2. ASSUME NEW h \in [1..0 -> {}] PROVE h = <<>>
    <3>1. h \in Seq({}) /\ Len(h) = 0
      OBVIOUS
    <3> QED
      BY <3>1, EmptySeq
  <2> QED
    BY <2>1, <2>2
<1> QED
  BY <1>3, <1>4, <1>5

(* Only a payment marks a deposit as processed.                            *)
LEMMA OnlyPayProcesses ==
  ASSUME [Next]_vars, NEW d \in processed' \ processed
  PROVE  Pay(d)
<1>1. ASSUME NEW c \in Deposits, Pay(c) PROVE c = d
  BY <1>1 DEF Pay
<1>2. ASSUME processed' = processed PROVE FALSE
  BY <1>2
<1>3. CASE UNCHANGED vars
  BY <1>2, <1>3 DEF vars, db
<1>4. ~Environment
  BY <1>2 DEF Environment, Tick, Mint, Transfer, Deposit, db
<1>5. ~ListUnspent /\ ~NothingUnspent /\ ~FinishFarm /\ ~Interrupted
  BY <1>2 DEF ListUnspent, NothingUnspent, FinishFarm, Interrupted, vars, db
<1>6. ~SaveStatistics
  BY <1>2 DEF SaveStatistics
<1>7. \A c \in Deposits : ~SkipTx(c) /\ ~CannotPay(c)
  BY <1>2 DEF SkipTx, CannotPay, db
<1> QED
  BY <1>1, <1>3, <1>4, <1>5, <1>6, <1>7 DEF Next

(* The seconds in which an NFT is live in a period.                        *)
LEMMA LiveCount ==
  ASSUME NEW n \in Nfts, Minted(n), MintOf(n) \in Nat, Expiry[n] \in Nat,
         NEW from \in Nat, NEW to \in Nat,
         Later(from, MintOf(n)) <= Earlier(Expiry[n], to)
  PROVE  Cardinality(LiveSeconds(n, from, to))
           = Earlier(Expiry[n], to) - Later(from, MintOf(n))
<1> DEFINE a == Later(from, MintOf(n))
           b == Earlier(Expiry[n], to)
<1>1. a \in Int /\ b \in Int /\ b - 1 \in Int /\ a <= b
  BY DEF Later, Earlier
<1>2. LiveSeconds(n, from, to) = a..b - 1
  BY DEF LiveSeconds, Later, Earlier
<1>3. Cardinality(a..b - 1) = IF a > b - 1 THEN 0 ELSE (b - 1) - a + 1
  <2> HIDE DEF a, b
  <2> QED
    BY <1>1, FS_Interval
<1> QED
  BY <1>1, <1>2, <1>3

(* What a part of the time gets is not negative, if the period is not.     *)
LEMMA PartNotNegative ==
  ASSUME NEW from \in Nat, NEW to \in Nat, NEW start \in Nat, NEW end \in Nat, NEW r \in Nat,
         from <= end, start <= end, end <= to
  PROVE  PercentByTime(from, to, start, end, r) \in Nat
<1> DEFINE part == PercentByTime(from, to, start, end, r)
<1>1. CASE (start <= from /\ end >= to) \/ end <= from \/ start >= to
  BY <1>1 DEF PercentByTime
<1>2. CASE ~(start <= from /\ end >= to) /\ ~(end <= from \/ start >= to)
  <2>1. part = Part(r, end - start, to - from)
    BY <1>2 DEF PercentByTime
  <2>2. end - start \in Nat /\ to - from \in Nat \ {0}
    BY <1>2
  <2> QED
    BY <2>1, <2>2, PartBounds
<1> QED
  BY <1>1, <1>2

(* The period of an NFT that is paid, and the parts of what it gets.       *)
LEMMA PartsOfReward ==
  ASSUME TypeOK, NEW t \in Nat, ~Refused(t), NEW h, NEW n \in Due(t)
  PROVE  LET p == Statistics(t, h)[n] IN
         /\ n \in Nfts /\ Minted(n)
         /\ PeriodStart(n) \in Nat /\ PayoutEnd(n, t) \in Nat /\ PeriodStart(n) <= PayoutEnd(n, t)
         /\ p.start = PeriodStart(n) /\ p.end = PayoutEnd(n, t)
         /\ p.reward \in Nat /\ Reward(n, t) \in Nat /\ p.fee \in Int /\ p.cudos \in Int
         /\ p.reward + p.fee + p.cudos = Reward(n, t)
         /\ p.reward = Reward(n, t) - Fee(n, t) /\ p.reward <= Reward(n, t)
<1> DEFINE p == Statistics(t, h)[n]
           r == RewardByPercent(MintedHash, Hash[n], ForOwners)
           f == Fee(n, t)
           c == (f * CudosPart) \div 100
<1>1. n \in Nfts /\ Minted(n) /\ prev \in Nat
  BY DEF Due, Candidates, TypeOK
<1>2. /\ PayoutStart(n) \in Nat /\ PeriodStart(n) \in Nat /\ PayoutEnd(n, t) \in Nat
      /\ PeriodStart(n) >= prev /\ PeriodStart(n) >= PayoutStart(n) /\ PayoutEnd(n, t) <= t
  BY <1>1, Periods
<1>3. PeriodStart(n) <= PayoutEnd(n, t)
  <2>1. ~(PeriodStart(n) > PayoutEnd(n, t))
    BY DEF Refused
  <2> QED
    BY <1>2, <2>1
<1>4. r \in Nat
  BY <1>1, Amounts
<1>5. Reward(n, t) \in Nat
  <2>1. prev <= PayoutEnd(n, t) /\ PayoutStart(n) <= PayoutEnd(n, t)
    BY <1>1, <1>2, <1>3
  <2> QED
    BY <1>1, <1>2, <1>4, <2>1, PartNotNegative DEF Reward
<1>6. f \in Nat /\ f <= Reward(n, t)
  <2> DEFINE x == PayoutEnd(n, t) - PeriodStart(n)
             cost == FeePerHash * Hash[n] * x
  <2>1. x \in Nat /\ FeePerHash \in Nat /\ Hash[n] \in Nat
    BY <1>1, <1>2, <1>3, RewardsAssumption
  <2>2. cost \in Nat
    BY <2>1
  <2>3. f = Earlier(cost, Reward(n, t))
    BY DEF Fee, MaintenanceFee
  <2> QED
    BY <1>5, <2>2, <2>3 DEF Earlier
<1>7. c \in Nat
  <2>1. f * CudosPart \in Nat
    BY <1>6, RewardsAssumption
  <2> QED
    BY <2>1, Quotient
<1>8. /\ p.start = PeriodStart(n) /\ p.end = PayoutEnd(n, t)
      /\ p.fee = f - c /\ p.cudos = c /\ p.reward = Reward(n, t) - f
  BY DEF Statistics
<1>9. (Reward(n, t) - f) + (f - c) + c = Reward(n, t) /\ Reward(n, t) - f \in Nat
  BY <1>5, <1>6, <1>7
<1> QED
  BY <1>1, <1>2, <1>3, <1>5, <1>6, <1>7, <1>8, <1>9

LEMMA PartsPaid ==
  ASSUME TypeOK, NEW d \in Deposits, Pay(d), NEW n \in Due(arrival[d])
  PROVE  LET t == arrival[d] IN
         /\ n \in Nfts /\ Minted(n)
         /\ PeriodStart(n) \in Nat /\ PayoutEnd(n, t) \in Nat /\ PeriodStart(n) <= PayoutEnd(n, t)
         /\ stats'[n].start = PeriodStart(n) /\ stats'[n].end = PayoutEnd(n, t)
         /\ stats'[n].reward \in Nat
         /\ stats'[n].reward + stats'[n].fee + stats'[n].cudos = Reward(n, t)
<1> DEFINE t == arrival[d]
<1>1. PICK h : stats' = Statistics(t, h)
  BY DEF Pay
<1>2. t \in Nat /\ ~Refused(t)
  BY DEF Pay, TypeOK
<1> QED
  BY <1>1, <1>2, PartsOfReward

(* What an NFT gets of a deposit is its part of the hash power for the     *)
(* seconds in which it was live, and none that was live is left out        *)
(* (pay.go:447-490, calculator.go:54-90).                                  *)
THEOREM RewardsForLiveSeconds == Spec => RewardForLiveSeconds
<1>1. ASSUME IInv, Lives, [Next]_vars, NEW d \in processed' \ processed,
             AllSaved, InOrder(d), 0 < prev, prev < arrival[d]
      PROVE  PaidForLiveSeconds(d)
  <2> DEFINE t == arrival[d]
  <2>1. Pay(d) /\ TypeOK
    BY <1>1, OnlyPayProcesses DEF IInv
  <2>2. d \in Deposits
    <3>1. d \in todo
      BY <2>1 DEF Pay
    <3> QED
      BY <2>1, <3>1 DEF TypeOK, Unprocessed
  <2>3. pc = "farm" /\ d \in todo /\ DOMAIN stats' = Due(t)
    BY <2>1, <2>2, PaySteps
  <2>4. prev \in Nat /\ t \in Nat
    BY <2>1, <2>2 DEF TypeOK
  <2>5. /\ MintedHash = SumFunctionOnSet(Hash, {n \in Nfts : Minted(n) /\ prev <= Expiry[n]})
        /\ ForOwners = RewardByPercent(FarmHash, MintedHash, AfterFee)
    BY DEF MintedHash, Candidates, ForOwners
  <2>6. ASSUME NEW n \in Nfts, Cardinality(LiveSeconds(n, prev, t)) > 0 PROVE n \in Due(t)
    <3>1. LiveSeconds(n, prev, t) # {}
      BY <2>6, FS_EmptySet
    <3>2. PICK s \in prev..t - 1 : Minted(n) /\ MintOf(n) <= s /\ s < Expiry[n]
      BY <3>1 DEF LiveSeconds
    <3>3. n \in Candidates /\ MintOf(n) \in Nat
      BY <2>1, <2>4, <3>2, Periods, RewardsAssumption DEF Candidates
    <3>4. PayoutStart(n) = Later(prev, MintOf(n))
      BY <1>1, <2>3, <3>3, StartsWithPeriod
    <3> QED
      BY <2>4, <3>2, <3>3, <3>4 DEF Due, Later
  <2>7. ASSUME NEW n \in Due(t)
        PROVE  stats'[n].reward + stats'[n].fee + stats'[n].cudos
                 = Part(RewardByPercent(MintedHash, Hash[n], ForOwners),
                        Cardinality(LiveSeconds(n, prev, t)), t - prev)
    <3> DEFINE r == RewardByPercent(MintedHash, Hash[n], ForOwners)
    <3>1. stats'[n].reward + stats'[n].fee + stats'[n].cudos = Reward(n, t)
      BY <2>1, <2>2, PartsPaid
    <3>2. /\ n \in Nfts /\ Minted(n) /\ MintOf(n) \in Nat /\ Expiry[n] \in Nat
          /\ PayoutStart(n) \in Nat /\ PayoutEnd(n, t) \in Nat
          /\ PayoutStart(n) = Later(prev, MintOf(n)) /\ PayoutEnd(n, t) = Earlier(Expiry[n], t)
          /\ prev <= PayoutStart(n) /\ PayoutStart(n) <= PayoutEnd(n, t) /\ PayoutEnd(n, t) <= t
      <4>1. MintOf(n) <= PayoutEnd(n, t) /\ PayoutEnd(n, t) <= Expiry[n]
        BY <1>1, <2>1, <2>2, PaidInLife
      <4>2. n \in Nfts /\ Minted(n) /\ MintOf(n) \in Nat /\ PayoutEnd(n, t) \in Nat /\ Expiry[n] \in Nat
        BY <2>1, <2>4, Periods, Constants DEF Due, Candidates
      <4> QED
        BY <1>1, <2>3, <4>1, <4>2, DuePeriod
    <3>3. r \in Nat
      BY <3>2, Amounts
    <3>4. Reward(n, t) = Part(r, PayoutEnd(n, t) - PayoutStart(n), t - prev)
      BY <1>1, <2>4, <3>2, <3>3, PartOfPeriod DEF Reward
    <3>5. Cardinality(LiveSeconds(n, prev, t)) = PayoutEnd(n, t) - PayoutStart(n)
      BY <2>4, <3>2, LiveCount
    <3> QED
      BY <3>1, <3>4, <3>5
  <2> QED
    BY <2>3, <2>5, <2>6, <2>7 DEF PaidForLiveSeconds
<1>2. IInv /\ Lives /\ [Next]_vars =>
        [\A d \in processed' \ processed :
           AllSaved /\ InOrder(d) /\ 0 < prev /\ prev < arrival[d] => PaidForLiveSeconds(d)]_vars
  BY <1>1
<1> QED
  BY <1>2, InvInit, InvStep, LivesInit, LivesStep, PTL DEF Spec, RewardForLiveSeconds

-----------------------------------------------------------------------------
(* Who owned an NFT when.                                                  *)

(* The owners of an NFT are in the order in which they got it.             *)
TitleSorted ==
  \A n \in Nfts : \A i \in DOMAIN title[n] :
    /\ title[n][i].time <= now
    /\ \A j \in DOMAIN title[n] : i <= j => title[n][i].time <= title[n][j].time

LEMMA TitleType ==
  ASSUME TypeOK, NEW n \in Nfts
  PROVE  /\ Len(title[n]) \in Nat /\ DOMAIN title[n] = 1..Len(title[n])
         /\ \A i \in 1..Len(title[n]) : /\ title[n][i] \in [owner : People, time : Nat]
                                        /\ title[n][i].time \in Nat
         /\ Minted(n) => Len(title[n]) >= 1
<1> DEFINE R == [owner : People, time : Nat]
<1>1. title[n] \in Seq(R)
  BY DEF TypeOK
<1>2. \A x \in R : x.time \in Nat
  OBVIOUS
<1>3. Minted(n) => Len(title[n]) # 0
  BY <1>1, EmptySeq DEF Minted
<1> HIDE DEF R
<1>4. Len(title[n]) \in Nat /\ DOMAIN title[n] = 1..Len(title[n])
  BY <1>1
<1>5. \A i \in 1..Len(title[n]) : title[n][i] \in R
  BY <1>1
<1> QED
  BY <1>2, <1>3, <1>4, <1>5 DEF R

(* A transfer only adds to the title of one NFT.                           *)
LEMMA TransferAppends ==
  ASSUME TypeOK, NEW n \in Nfts, NEW p \in People, Transfer(n, p), NEW m \in Nfts
  PROVE  /\ m # n => title'[m] = title[m]
         /\ m = n => /\ Len(title'[m]) = Len(title[m]) + 1
                     /\ DOMAIN title'[m] = 1..Len(title[m]) + 1
                     /\ \A i \in 1..Len(title[m]) : title'[m][i] = title[m][i]
                     /\ title'[m][Len(title[m]) + 1].time = now
<1> DEFINE R == [owner : People, time : Nat]
           r == [owner |-> p, time |-> now]
<1>1. title \in [Nfts -> Seq(R)] /\ r \in R /\ r.time = now
  BY DEF TypeOK
<1>2. title' = [title EXCEPT ![n] = Append(title[n], r)]
  BY DEF Transfer
<1> HIDE DEF R, r
<1>3. title[n] \in Seq(R) /\ Len(title[n]) \in Nat
  BY <1>1
<1>4. /\ Append(title[n], r) \in Seq(R) /\ Len(Append(title[n], r)) = Len(title[n]) + 1
      /\ \A i \in 1..Len(title[n]) : Append(title[n], r)[i] = title[n][i]
      /\ Append(title[n], r)[Len(title[n]) + 1] = r
  BY <1>1, <1>3, AppendProperties
<1>5. DOMAIN Append(title[n], r) = 1..Len(title[n]) + 1
  BY <1>4
<1> QED
  BY <1>1, <1>2, <1>4, <1>5

LEMMA SortedInit == Init => TitleSorted
<1>1. DOMAIN <<>> = {}
  OBVIOUS
<1> QED
  BY <1>1 DEF Init, TitleSorted

LEMMA SortedStep == TypeOK /\ TitleSorted /\ [Next]_vars => TitleSorted'
<1> SUFFICES ASSUME TypeOK, TitleSorted, [Next]_vars PROVE TitleSorted'
  OBVIOUS
<1>0. now \in Nat
  BY DEF TypeOK
<1>1. ASSUME UNCHANGED <<now, title>> PROVE TitleSorted'
  BY <1>1 DEF TitleSorted
<1>2. CASE Tick
  <2>1. now' = now + 1 /\ title' = title
    BY <1>2 DEF Tick
  <2>2. \A n \in Nfts : \A i \in DOMAIN title[n] : title[n][i].time \in Nat
    BY TitleType
  <2> QED
    BY <1>0, <2>1, <2>2 DEF TitleSorted
<1>3. ASSUME NEW n \in Nfts, NEW p \in People, Mint(n, p) PROVE TitleSorted'
  <2>1. title' = [title EXCEPT ![n] = <<[owner |-> p, time |-> now]>>] /\ now' = now
    BY <1>3 DEF Mint
  <2>2. title \in [Nfts -> Seq([owner : People, time : Nat])]
    BY DEF TypeOK
  <2>3. \A m \in Nfts : title'[m] = IF m = n THEN <<[owner |-> p, time |-> now]>> ELSE title[m]
    BY <2>1, <2>2
  <2>4. DOMAIN <<[owner |-> p, time |-> now]>> = {1}
    OBVIOUS
  <2>5. <<[owner |-> p, time |-> now]>>[1].time = now
    OBVIOUS
  <2> QED
    BY <1>0, <2>1, <2>3, <2>4, <2>5 DEF TitleSorted
<1>4. ASSUME NEW n \in Nfts, NEW p \in People, Transfer(n, p) PROVE TitleSorted'
  <2> SUFFICES ASSUME NEW m \in Nfts, NEW i \in DOMAIN title'[m]
               PROVE  /\ title'[m][i].time <= now'
                      /\ \A j \in DOMAIN title'[m] : i <= j => title'[m][i].time <= title'[m][j].time
    BY DEF TitleSorted
  <2>1. now' = now
    BY <1>4 DEF Transfer
  <2>2. CASE m # n
    <3>1. title'[m] = title[m]
      BY <1>4, <2>2, TransferAppends
    <3> QED
      BY <2>1, <3>1 DEF TitleSorted
  <2>3. CASE m = n
    <3>1. /\ DOMAIN title'[m] = 1..Len(title[m]) + 1
          /\ \A k \in 1..Len(title[m]) : title'[m][k] = title[m][k]
          /\ title'[m][Len(title[m]) + 1].time = now
      BY <1>4, <2>3, TransferAppends
    <3>2. Len(title[m]) \in Nat /\ DOMAIN title[m] = 1..Len(title[m])
      BY TitleType
    <3>3. \A k \in 1..Len(title[m]) : title[m][k].time <= now
      BY <3>2 DEF TitleSorted
    <3>4. \A k, j \in 1..Len(title[m]) : k <= j => title[m][k].time <= title[m][j].time
      BY <3>2 DEF TitleSorted
    <3>5. \A k \in DOMAIN title'[m] : k \in 1..Len(title[m]) \/ k = Len(title[m]) + 1
      BY <3>1, <3>2
    <3>6. title'[m][i].time <= now'
      BY <1>0, <2>1, <3>1, <3>3, <3>5
    <3>7. ASSUME NEW j \in DOMAIN title'[m], i <= j
          PROVE  title'[m][i].time <= title'[m][j].time
      <4>1. CASE j = Len(title[m]) + 1
        BY <2>1, <3>1, <3>6, <4>1
      <4>2. CASE j \in 1..Len(title[m])
        <5>1. i \in 1..Len(title[m])
          BY <3>1, <3>2, <3>7, <4>2
        <5> QED
          BY <3>1, <3>4, <3>7, <4>2, <5>1
      <4> QED
        BY <3>5, <3>7, <4>1, <4>2
    <3> QED
      BY <3>6, <3>7
  <2> QED
    BY <2>2, <2>3
<1>5. ASSUME NEW d \in Deposits, Deposit(d) PROVE TitleSorted'
  BY <1>1, <1>5 DEF Deposit
<1>6. CASE Environment
  BY <1>2, <1>3, <1>4, <1>5, <1>6 DEF Environment
<1>7. CASE UNCHANGED vars
  BY <1>1, <1>7 DEF vars, env
<1>8. CASE ListUnspent \/ NothingUnspent \/ FinishFarm \/ SaveStatistics \/ Interrupted
  BY <1>1, <1>8 DEF ListUnspent, NothingUnspent, FinishFarm, SaveStatistics, Interrupted, vars, env
<1>9. ASSUME NEW d \in Deposits, SkipTx(d) \/ Pay(d) \/ CannotPay(d) PROVE TitleSorted'
  BY <1>1, <1>9 DEF SkipTx, Pay, CannotPay, env
<1> QED
  BY <1>6, <1>7, <1>8, <1>9 DEF Next

(* p is the last one who got the NFT up to the second s.                   *)
HeldBy(n, s, p) ==
  \E j \in DOMAIN title[n] :
    /\ title[n][j].time <= s /\ title[n][j].owner = p
    /\ \A l \in DOMAIN title[n] : j < l => s < title[n][l].time

LEMMA HeldByOwner ==
  ASSUME TypeOK, NEW n \in Nfts, NEW s \in Int, NEW p, HeldBy(n, s, p)
  PROVE  OwnerAt(n, s) = p
<1> DEFINE I == {i \in DOMAIN title[n] : title[n][i].time <= s}
           Last(i) == \A j \in I : j <= i
<1>1. PICK j \in DOMAIN title[n] : /\ title[n][j].time <= s /\ title[n][j].owner = p
                                   /\ \A l \in DOMAIN title[n] : j < l => s < title[n][l].time
  BY DEF HeldBy
<1>2. \A i \in DOMAIN title[n] : i \in Nat /\ title[n][i].time \in Nat
  BY TitleType
<1>3. j \in I /\ Last(j)
  BY <1>1, <1>2
<1>4. \A i \in I : Last(i) => i = j
  BY <1>2, <1>3
<1>5. (CHOOSE i \in I : Last(i)) = j
  BY <1>3, <1>4
<1> QED
  BY <1>1, <1>5 DEF OwnerAt

(* The transfers of an NFT in a period.                                    *)
Within(n, from, to) == {i \in 2..Len(title[n]) : title[n][i].time \in from..to}

(* A history names every transfer of the period once, by time.             *)
ByTime(n, from, to, h) ==
  /\ Len(h) \in Nat /\ DOMAIN h = 1..Len(h) /\ h \in Seq(Within(n, from, to))
  /\ \A i \in 1..Len(h) : h[i] \in 2..Len(title[n]) /\ title[n][h[i]].time \in from..to
  /\ \A i, j \in 1..Len(h) : i < j => /\ h[i] # h[j]
                                      /\ title[n][h[i]].time <= title[n][h[j]].time
  /\ \A x \in 2..Len(title[n]) : title[n][x].time \in from..to =>
       \E i \in 1..Len(h) : h[i] = x

LEMMA HistoryOrder ==
  ASSUME TypeOK, NEW n \in Nfts, NEW from \in Nat, NEW to \in Nat,
         NEW h \in Histories(n, from, to)
  PROVE  ByTime(n, from, to, h)
<1> DEFINE I == Within(n, from, to)
           k == Cardinality(I)
<1>1. Len(title[n]) \in Nat
  BY TitleType
<1>2. IsFiniteSet(I) /\ k \in Nat
  <2>1. 2 \in Int /\ Len(title[n]) \in Int
    BY <1>1
  <2>2. IsFiniteSet(2..Len(title[n]))
    BY <2>1, FS_Interval
  <2>3. I \in SUBSET (2..Len(title[n]))
    BY DEF Within
  <2> QED
    BY <2>2, <2>3, FS_Subset, FS_CardinalityType
<1>3. /\ h \in [1..k -> I]
      /\ \A j, l \in 1..k : j < l => /\ h[j] # h[l]
                                     /\ title[n][h[j]].time <= title[n][h[l]].time
  BY DEF Histories, Within
<1> HIDE DEF I, k
<1>4. h \in Seq(I) /\ Len(h) = k /\ DOMAIN h = 1..k
  BY <1>2, <1>3
<1>5. h \in Injection(1..k, I)
  <2>1. \A j, l \in 1..k : h[j] = h[l] => j = l
    BY <1>2, <1>3
  <2> QED
    BY <1>3, <2>1 DEF Injection, IsInjective
<1>6. Cardinality(1..k) = k
  BY <1>2, FS_Interval
<1>7. h \in Surjection(1..k, I)
  <2>1. Cardinality(1..k) = Cardinality(I)
    BY <1>6 DEF k
  <2> QED
    BY <1>2, <1>5, <2>1, FS_Injection
<1>8. \A x \in I : \E i \in 1..k : h[i] = x
  BY <1>7 DEF Surjection
<1>9. \A x : x \in I <=> x \in 2..Len(title[n]) /\ title[n][x].time \in from..to
  BY DEF I, Within
<1>10. \A i \in 1..k : h[i] \in I
  BY <1>3
<1>11. \A x \in 2..Len(title[n]) : title[n][x].time \in from..to => \E i \in 1..k : h[i] = x
  BY <1>8, <1>9, Zenon
<1>12. \A i \in 1..k : h[i] \in 2..Len(title[n]) /\ title[n][h[i]].time \in from..to
  BY <1>9, <1>10, Zenon
<1> HIDE DEF Within
<1> QED
  BY <1>2, <1>3, <1>4, <1>11, <1>12 DEF I, ByTime

(* Who held the NFT in a period: its holder of today if it was not         *)
(* transferred, else those who got it in the period, and before them the   *)
(* one who sold it first.                                                  *)
HeldInTurn(n, from, to, h, g) ==
  LET k == Len(h) IN
  /\ k \in Nat /\ DOMAIN g = 1..Len(g)
  /\ \A i \in 1..k : /\ h[i] \in 2..Len(title[n]) /\ title[n][h[i]].time \in Nat
                     /\ from <= title[n][h[i]].time /\ title[n][h[i]].time <= to
  /\ \/ k = 0 /\ h = <<>> /\ Len(g) = 1 /\ g[1].owner = Holder(n) /\ g[1].time = from
     \/ /\ k > 0 /\ from < title[n][h[1]].time /\ Len(g) = k + 1
        /\ g[1].owner = title[n][h[1] - 1].owner /\ g[1].time = from
        /\ \A i \in 2..k + 1 : g[i] = title[n][h[i - 1]]
     \/ /\ k > 0 /\ title[n][h[1]].time = from /\ Len(g) = k
        /\ \A i \in 1..k : g[i] = title[n][h[i]]

LEMMA HoldingsCases ==
  ASSUME TypeOK, NEW n \in Nfts, Minted(n), NEW from \in Nat, NEW to \in Nat,
         NEW h \in Histories(n, from, to)
  PROVE  HeldInTurn(n, from, to, h, Holdings(n, from, h))
<1> DEFINE g      == Holdings(n, from, h)
           R      == [owner : People, time : Nat]
           got    == [i \in DOMAIN h |-> title[n][h[i]]]
           k      == Len(h)
           seller == [owner |-> title[n][h[1] - 1].owner, time |-> from]
<1>1. /\ Len(title[n]) \in Nat /\ Len(title[n]) >= 1
      /\ \A i \in 1..Len(title[n]) : title[n][i] \in R /\ title[n][i].time \in Nat
  BY TitleType
<1>0. ByTime(n, from, to, h)
  BY HistoryOrder
<1>2. /\ k \in Nat /\ DOMAIN h = 1..k /\ h \in Seq(Within(n, from, to))
      /\ \A i \in 1..k : h[i] \in 2..Len(title[n]) /\ title[n][h[i]].time \in from..to
  BY <1>0 DEF ByTime
<1>3. \A i \in 1..k : /\ title[n][h[i]] \in R /\ title[n][h[i]].time \in Nat
                      /\ from <= title[n][h[i]].time /\ title[n][h[i]].time <= to
  BY <1>1, <1>2
<1>4. CASE h = <<>>
  <2>1. g = <<[owner |-> Holder(n), time |-> from]>>
    BY <1>4 DEF Holdings
  <2> QED
    BY <1>2, <1>3, <1>4, <2>1 DEF HeldInTurn
<1>5. CASE h # <<>>
  <2>1. k >= 1
    BY <1>2, <1>5, EmptySeq
  <2>2. got \in Seq(R) /\ Len(got) = k /\ DOMAIN got = 1..k /\ \A i \in 1..k : got[i] = title[n][h[i]]
    <3> HIDE DEF R
    <3>1. got \in [1..k -> R] /\ \A i \in 1..k : got[i] = title[n][h[i]]
      BY <1>2, <1>3
    <3> HIDE DEF got, k
    <3> QED
      BY <1>2, <3>1
  <2>3. CASE from < got[1].time
    <3>1. g = <<seller>> \o got
      BY <1>5, <2>3 DEF Holdings
    <3>2. seller \in R
      <4>1. h[1] \in 2..Len(title[n])
        BY <1>2, <2>1
      <4>2. h[1] - 1 \in 1..Len(title[n])
        BY <1>1, <4>1
      <4> QED
        BY <1>1, <4>2
    <3>3. /\ Len(g) = k + 1 /\ DOMAIN g = 1..k + 1 /\ g[1] = seller
          /\ \A i \in 2..k + 1 : g[i] = got[i - 1] /\ i - 1 \in 1..k
      <4> HIDE DEF R, got, seller, k, g
      <4>1. <<seller>> \in Seq(R) /\ Len(<<seller>>) = 1 /\ <<seller>>[1] = seller
        BY <3>2
      <4>2. /\ <<seller>> \o got \in Seq(R) /\ Len(<<seller>> \o got) = 1 + k
            /\ \A i \in 1..1 + k : (<<seller>> \o got)[i] = IF i <= 1 THEN <<seller>>[1] ELSE got[i - 1]
        BY <1>2, <2>2, <4>1, ConcatProperties
      <4> QED
        BY <1>2, <3>1, <4>1, <4>2
    <3>4. g[1].owner = title[n][h[1] - 1].owner /\ g[1].time = from
      BY <3>3
    <3>5. from < title[n][h[1]].time /\ \A i \in 2..k + 1 : g[i] = title[n][h[i - 1]]
      BY <2>1, <2>2, <2>3, <3>3
    <3>6. k \in Nat /\ k > 0
      BY <1>2, <2>1
    <3>7. \A i \in 1..k : h[i] \in 2..Len(title[n])
      BY <1>2
    <3>8. /\ Len(g) = k + 1 /\ DOMAIN g = 1..Len(g)
      BY <3>3
    <3> HIDE DEF g, k, HeldInTurn
    <3> QED
      BY <1>3, <3>4, <3>5, <3>6, <3>7, <3>8 DEF g, k, HeldInTurn
  <2>4. CASE ~(from < got[1].time)
    <3>1. g = got
      BY <1>5, <2>4 DEF Holdings
    <3>2. title[n][h[1]].time = from
      <4>1. 1 \in 1..k
        BY <1>2, <2>1
      <4>2. title[n][h[1]].time \in Nat /\ from <= title[n][h[1]].time
        BY <1>3, <4>1
      <4>3. ~(from < title[n][h[1]].time)
        BY <2>2, <2>4, <4>1
      <4> QED
        BY <4>2, <4>3
    <3>3. k \in Nat /\ k > 0
      BY <1>2, <2>1
    <3>4. \A i \in 1..k : h[i] \in 2..Len(title[n])
      BY <1>2
    <3>5. Len(g) = k /\ DOMAIN g = 1..Len(g) /\ \A i \in 1..k : g[i] = title[n][h[i]]
      BY <2>2, <3>1
    <3> HIDE DEF g, k, HeldInTurn
    <3> QED
      BY <1>3, <3>2, <3>3, <3>4, <3>5 DEF g, k, HeldInTurn
  <2> QED
    BY <2>3, <2>4
<1> QED
  BY <1>4, <1>5

(* Holdings that follow one another from the start of the period.          *)
InLine(g, from, to) ==
  /\ Len(g) \in Nat \ {0} /\ DOMAIN g = 1..Len(g)
  /\ \A i \in 1..Len(g) : g[i].time \in Nat /\ g[i].time <= to
  /\ g[1].time = from
  /\ \A i \in 1..Len(g) - 1 : g[i].time <= g[i + 1].time
  /\ Len(g) > 1 => from < to

LEMMA HoldingsInOrder ==
  ASSUME TypeOK, NEW n \in Nfts, Minted(n), NEW from \in Nat, NEW to \in Nat,
         from <= to, NEW h \in Histories(n, from, to), from = to => h = <<>>
  PROVE  InLine(Holdings(n, from, h), from, to)
<1> DEFINE g == Holdings(n, from, h)
           k == Len(h)
           T == [i \in 1..k |-> title[n][h[i]].time]
<1>0. HeldInTurn(n, from, to, h, g)
  BY HoldingsCases
<1>1. /\ k \in Nat /\ DOMAIN g = 1..Len(g)
      /\ \A i \in 1..k : T[i] \in Nat /\ from <= T[i] /\ T[i] <= to
  BY <1>0 DEF HeldInTurn
<1>2. \A i, j \in 1..k : i < j => T[i] <= T[j]
  <2>1. ByTime(n, from, to, h)
    BY HistoryOrder
  <2> QED
    BY <2>1 DEF ByTime
<1>3. k > 0 => from < to
  <2>1. k > 0 => h # <<>>
    OBVIOUS
  <2>2. from < to \/ from = to
    OBVIOUS
  <2> QED
    BY <2>1, <2>2
<1>4. \/ k = 0 /\ Len(g) = 1 /\ g[1].time = from
      \/ /\ k > 0 /\ Len(g) = k + 1 /\ g[1].time = from
         /\ \A i \in 2..k + 1 : g[i].time = T[i - 1]
      \/ k > 0 /\ T[1] = from /\ Len(g) = k /\ \A i \in 1..k : g[i].time = T[i]
  <2>1. \A i \in 2..k + 1 : i - 1 \in 1..k
    BY <1>1
  <2>2. k > 0 => 1 \in 1..k
    BY <1>1
  <2>3. /\ \A i \in 2..k + 1 : T[i - 1] = title[n][h[i - 1]].time
        /\ k > 0 => T[1] = title[n][h[1]].time
        /\ \A i \in 1..k : T[i] = title[n][h[i]].time
    BY <2>1, <2>2
  <2>4. \/ k = 0 /\ Len(g) = 1 /\ g[1].time = from
        \/ /\ k > 0 /\ Len(g) = k + 1 /\ g[1].time = from
           /\ \A i \in 2..k + 1 : g[i] = title[n][h[i - 1]]
        \/ k > 0 /\ title[n][h[1]].time = from /\ Len(g) = k /\ \A i \in 1..k : g[i] = title[n][h[i]]
    BY <1>0 DEF HeldInTurn
  <2> HIDE DEF g, k, T
  <2> QED
    BY <2>3, <2>4
<1>5. k \in Nat
  BY <1>1
<1> HIDE DEF g, k, T
<1>6. CASE k = 0 /\ Len(g) = 1 /\ g[1].time = from
  BY <1>1, <1>6 DEF g, InLine
<1>7. CASE /\ k > 0 /\ Len(g) = k + 1 /\ g[1].time = from
           /\ \A i \in 2..k + 1 : g[i].time = T[i - 1]
  <2>1. ASSUME NEW i \in 1..k + 1 PROVE g[i].time \in Nat /\ g[i].time <= to
    <3>1. i = 1 \/ (i \in 2..k + 1 /\ i - 1 \in 1..k)
      BY <1>5
    <3> QED
      BY <1>1, <1>7, <3>1
  <2>2. ASSUME NEW i \in 1..k PROVE g[i].time <= g[i + 1].time
    <3>1. i + 1 \in 2..k + 1 /\ (i + 1) - 1 = i
      BY <1>5
    <3>2. g[i + 1].time = T[i]
      BY <1>7, <3>1
    <3>3. CASE i = 1
      BY <1>1, <1>7, <3>2, <3>3
    <3>4. CASE i # 1
      <4>1. i - 1 \in 1..k /\ i \in 2..k + 1 /\ i - 1 < i
        BY <1>5, <3>4
      <4> QED
        BY <1>2, <1>7, <3>2, <4>1
    <3> QED
      BY <3>3, <3>4
  <2>3. Len(g) \in Nat \ {0} /\ Len(g) - 1 = k
    BY <1>5, <1>7
  <2> QED
    BY <1>1, <1>3, <1>7, <2>1, <2>2, <2>3 DEF g, InLine
<1>8. CASE k > 0 /\ T[1] = from /\ Len(g) = k /\ \A i \in 1..k : g[i].time = T[i]
  <2>1. ASSUME NEW i \in 1..k - 1 PROVE g[i].time <= g[i + 1].time
    <3>1. i \in 1..k /\ i + 1 \in 1..k /\ i < i + 1
      BY <1>5
    <3> QED
      BY <1>2, <1>8, <3>1
  <2>2. 1 \in 1..k
    BY <1>5, <1>8
  <2>3. g[1].time = from
    BY <1>8, <2>2
  <2>4. Len(g) \in Nat \ {0}
    BY <1>5, <1>8
  <2> QED
    BY <1>1, <1>3, <1>8, <2>1, <2>3, <2>4 DEF g, InLine
<1> QED
  BY <1>4, <1>6, <1>7, <1>8

(* With at most one transfer in a second, a history has the order in which *)
(* the transfers were made.                                                *)
LEMMA HistoryRises ==
  ASSUME TypeOK, TitleSorted, NEW n \in Nfts, NEW from \in Nat, NEW to \in Nat,
         NEW h \in Histories(n, from, to), OneTransferPerSecond(n)
  PROVE  /\ \A i, j \in 2..Len(title[n]) : i < j => title[n][i].time < title[n][j].time
         /\ \A i, j \in 1..Len(h) : i < j => h[i] < h[j]
<1>0. ByTime(n, from, to, h)
  BY HistoryOrder
<1>1. /\ Len(title[n]) \in Nat
      /\ \A i \in 1..Len(title[n]) : title[n][i].time \in Nat
      /\ \A i, j \in 1..Len(title[n]) : i <= j => title[n][i].time <= title[n][j].time
  BY TitleType DEF TitleSorted
<1>2. ASSUME NEW i \in 2..Len(title[n]), NEW j \in 2..Len(title[n]), i < j
      PROVE  title[n][i].time < title[n][j].time
  <2>1. i \in 1..Len(title[n]) /\ j \in 1..Len(title[n]) /\ i <= j /\ i # j
    BY <1>1, <1>2
  <2>2. title[n][i].time # title[n][j].time
    BY <2>1 DEF OneTransferPerSecond
  <2> QED
    BY <1>1, <2>1, <2>2
<1>3. ASSUME NEW i \in 1..Len(h), NEW j \in 1..Len(h), i < j PROVE h[i] < h[j]
  <2>1. /\ h[i] \in 2..Len(title[n]) /\ h[j] \in 2..Len(title[n]) /\ h[i] # h[j]
        /\ title[n][h[i]].time <= title[n][h[j]].time
    BY <1>0, <1>3 DEF ByTime
  <2>2. h[j] < h[i] => title[n][h[j]].time < title[n][h[i]].time
    BY <1>2, <2>1
  <2>3. /\ h[i] \in 1..Len(title[n]) /\ h[j] \in 1..Len(title[n])
    BY <1>1, <2>1
  <2>4. title[n][h[i]].time \in Nat /\ title[n][h[j]].time \in Nat
    BY <1>1, <2>3
  <2>5. h[j] < h[i] => FALSE
    BY <2>1, <2>2, <2>4
  <2>6. h[i] \in Int /\ h[j] \in Int
    BY <1>1, <2>3
  <2> QED
    BY <2>1, <2>5, <2>6
<1> QED
  BY <1>2, <1>3

(* A transfer of the period names the owner until the next one.            *)
LEMMA BuyerHolds ==
  ASSUME TypeOK, TitleSorted, NEW n \in Nfts, NEW from \in Nat, NEW to \in Nat,
         NEW h \in Histories(n, from, to), OneTransferPerSecond(n),
         NEW j \in 1..Len(h), NEW s \in Int, title[n][h[j]].time <= s, s < to,
         j < Len(h) => s < title[n][h[j + 1]].time
  PROVE  HeldBy(n, s, title[n][h[j]].owner)
<1> DEFINE N == Len(title[n])
           k == Len(h)
<1>1. /\ N \in Nat /\ DOMAIN title[n] = 1..N
      /\ \A i \in 1..N : title[n][i].time \in Nat
      /\ \A i, l \in 1..N : i <= l => title[n][i].time <= title[n][l].time
  BY TitleType DEF TitleSorted
<1>0. ByTime(n, from, to, h)
  BY HistoryOrder
<1>2. /\ k \in Nat
      /\ \A i \in 1..k : h[i] \in 2..N /\ title[n][h[i]].time \in from..to
      /\ \A x \in 2..N : title[n][x].time \in from..to => \E i \in 1..k : h[i] = x
  BY <1>0 DEF ByTime
<1>3. \A i, l \in 1..k : i < l => h[i] < h[l]
  BY HistoryRises
<1>4. h[j] \in 2..N /\ h[j] \in 1..N /\ title[n][h[j]].time \in from..to
  BY <1>1, <1>2
<1>5. ASSUME NEW l \in 1..N, h[j] < l PROVE s < title[n][l].time
  <2> SUFFICES ASSUME ~(s < title[n][l].time) PROVE FALSE
    OBVIOUS
  <2>1. title[n][l].time \in Nat /\ title[n][l].time <= s
    BY <1>1
  <2>2. title[n][h[j]].time <= title[n][l].time
    BY <1>1, <1>4, <1>5
  <2>3. title[n][l].time \in from..to /\ l \in 2..N
    <3>1. /\ title[n][h[j]].time \in Nat /\ from <= title[n][h[j]].time
      BY <1>1, <1>4
    <3>2. from <= title[n][l].time /\ title[n][l].time <= to
      BY <2>1, <2>2, <3>1
    <3>3. 2 <= l
      BY <1>1, <1>4, <1>5
    <3> QED
      BY <1>1, <2>1, <3>2, <3>3
  <2>4. PICK m \in 1..k : h[m] = l
    BY <1>2, <2>3
  <2>5. j < m
    <3>1. m < j => h[m] < h[j]
      BY <1>3, <2>4
    <3>2. m = j => h[m] = h[j]
      OBVIOUS
    <3> QED
      BY <1>2, <1>4, <1>5, <2>3, <2>4, <3>1, <3>2
  <2>6. j < k /\ j + 1 \in 1..k /\ j + 1 <= m
    BY <1>2, <2>5
  <2>7. h[j + 1] \in 1..N /\ h[j + 1] <= h[m]
    <3>1. j + 1 < m => h[j + 1] < h[m]
      BY <1>3, <2>6
    <3>2. h[j + 1] \in 2..N /\ h[m] \in 2..N
      BY <1>2, <2>6
    <3> QED
      BY <1>1, <2>6, <3>1, <3>2
  <2>8. title[n][h[j + 1]].time <= title[n][l].time /\ title[n][h[j + 1]].time \in Nat
    BY <1>1, <2>4, <2>7
  <2>9. s < title[n][h[j + 1]].time
    BY <2>6
  <2> HIDE DEF N, k
  <2> QED
    BY <2>1, <2>8, <2>9
<1> QED
  BY <1>1, <1>4, <1>5 DEF HeldBy

(* Before the first transfer of the period the NFT was its seller's.       *)
LEMMA SellerHolds ==
  ASSUME TypeOK, TitleSorted, NEW n \in Nfts, NEW from \in Nat, NEW to \in Nat,
         NEW h \in Histories(n, from, to), OneTransferPerSecond(n),
         Minted(n), MintOf(n) <= from, Len(h) > 0,
         NEW s \in Int, from <= s, s < title[n][h[1]].time
  PROVE  HeldBy(n, s, title[n][h[1] - 1].owner)
<1> DEFINE N == Len(title[n])
           k == Len(h)
           x == h[1] - 1
<1>1. /\ N \in Nat /\ N >= 1 /\ DOMAIN title[n] = 1..N
      /\ \A i \in 1..N : title[n][i].time \in Nat
      /\ \A i, l \in 1..N : i <= l => title[n][i].time <= title[n][l].time
  BY TitleType DEF TitleSorted
<1>0. ByTime(n, from, to, h)
  BY HistoryOrder
<1>2. /\ k \in Nat /\ 1 \in 1..k
      /\ \A i \in 1..k : h[i] \in 2..N /\ title[n][h[i]].time \in from..to
      /\ \A y \in 2..N : title[n][y].time \in from..to => \E i \in 1..k : h[i] = y
  BY <1>0 DEF ByTime
<1>3. /\ \A i, l \in 1..k : i < l => h[i] < h[l]
      /\ \A i, l \in 2..N : i < l => title[n][i].time < title[n][l].time
  BY HistoryRises
<1>4. /\ h[1] \in 2..N /\ h[1] \in 1..N /\ title[n][h[1]].time \in from..to
      /\ x \in 1..N /\ x < h[1]
  BY <1>1, <1>2
<1>5. title[n][x].time <= s
  <2>1. CASE x = 1
    <3>1. title[n][x].time = MintOf(n) /\ MintOf(n) \in Nat
      BY <1>1, <1>4, <2>1 DEF MintOf
    <3> QED
      BY <3>1
  <2>2. CASE x # 1
    <3>1. x \in 2..N /\ title[n][x].time \in Nat
      BY <1>1, <1>4, <2>2
    <3>2. title[n][x].time < title[n][h[1]].time
      BY <1>3, <1>4, <3>1
    <3>3. ~(title[n][x].time \in from..to)
      <4> SUFFICES ASSUME title[n][x].time \in from..to PROVE FALSE
        OBVIOUS
      <4>1. PICK m \in 1..k : h[m] = x
        BY <1>2, <3>1
      <4>2. m # 1 => h[1] < h[m]
        BY <1>2, <1>3
      <4> QED
        BY <1>4, <4>1, <4>2
    <3> QED
      BY <1>4, <3>1, <3>2, <3>3
  <2> QED
    BY <2>1, <2>2
<1>6. ASSUME NEW l \in 1..N, x < l PROVE s < title[n][l].time
  <2>1. h[1] <= l
    BY <1>4, <1>6
  <2>2. title[n][h[1]].time <= title[n][l].time
    BY <1>1, <1>4, <2>1
  <2>3. title[n][h[1]].time \in Nat /\ title[n][l].time \in Nat
    BY <1>1, <1>4
  <2> QED
    BY <2>2, <2>3
<1> QED
  BY <1>1, <1>4, <1>5, <1>6 DEF HeldBy

(* An NFT without a transfer in the period or after it was its holder's.   *)
LEMMA HolderHolds ==
  ASSUME TypeOK, TitleSorted, NEW n \in Nfts, NEW from \in Nat, NEW to \in Nat,
         NEW h \in Histories(n, from, to), ~SoldSince(n, to),
         Minted(n), MintOf(n) <= from, Len(h) = 0, NEW s \in Int, from <= s
  PROVE  HeldBy(n, s, Holder(n))
<1> DEFINE N == Len(title[n])
<1>1. /\ N \in Nat /\ N >= 1 /\ DOMAIN title[n] = 1..N
      /\ \A i \in 1..N : title[n][i].time \in Nat
  BY TitleType
<1>2. \A y \in 2..N : title[n][y].time \notin from..to
  <2>1. ByTime(n, from, to, h)
    BY HistoryOrder
  <2> QED
    BY <2>1 DEF ByTime
<1>3. title[n][N].time <= s
  <2>1. CASE N = 1
    <3>1. title[n][N].time = MintOf(n) /\ MintOf(n) \in Nat
      <4>1. 1 \in 1..N
        BY <1>1
      <4> QED
        BY <1>1, <2>1, <4>1 DEF MintOf
    <3> QED
      BY <3>1
  <2>2. CASE N # 1
    <3>1. N \in 2..N /\ N \in 1..N /\ title[n][N].time \in Nat
      <4>1. N \in Nat /\ N >= 1 /\ N # 1
        BY <1>1, <2>2
      <4> HIDE DEF N
      <4>2. N \in 2..N /\ N \in 1..N
        BY <4>1
      <4> QED
        BY <1>1, <4>2
    <3>2. ~(title[n][N].time > to)
      BY <3>1 DEF SoldSince
    <3> QED
      BY <1>2, <3>1, <3>2
  <2> QED
    BY <2>1, <2>2
<1>4. N \in DOMAIN title[n] /\ \A l \in DOMAIN title[n] : ~(N < l)
  BY <1>1
<1> QED
  BY <1>3, <1>4 DEF HeldBy, Holder

LEMMA HoldingsOwned ==
  ASSUME TypeOK, TitleSorted, NEW n \in Nfts, NEW from \in Nat, NEW to \in Nat,
         NEW h \in Histories(n, from, to), OneTransferPerSecond(n), ~SoldSince(n, to),
         Minted(n), MintOf(n) <= from
  PROVE  LET g == Holdings(n, from, h) IN
         \A i \in 1..Len(g) : \A s \in Int :
           g[i].time <= s /\ s < (IF i = Len(g) THEN to ELSE g[i + 1].time) =>
             HeldBy(n, s, g[i].owner)
<1> DEFINE g == Holdings(n, from, h)
           k == Len(h)
<1> SUFFICES ASSUME NEW i \in 1..Len(g), NEW s \in Int, g[i].time <= s,
                    s < (IF i = Len(g) THEN to ELSE g[i + 1].time)
             PROVE  HeldBy(n, s, g[i].owner)
  OBVIOUS
<1>0. HeldInTurn(n, from, to, h, g)
  BY HoldingsCases
<1>1. /\ k \in Nat
      /\ \A j \in 1..k : title[n][h[j]].time \in Nat /\ title[n][h[j]].time <= to
  BY <1>0 DEF HeldInTurn
<1>2. CASE k = 0 /\ Len(g) = 1 /\ g[1].owner = Holder(n) /\ g[1].time = from
  BY <1>2, HolderHolds
<1>3. CASE /\ k > 0 /\ Len(g) = k + 1
           /\ g[1].owner = title[n][h[1] - 1].owner /\ g[1].time = from
           /\ \A j \in 2..k + 1 : g[j] = title[n][h[j - 1]]
  <2>1. CASE i = 1
    <3>1. i # Len(g) /\ i + 1 \in 2..k + 1 /\ (i + 1) - 1 = 1
      BY <1>1, <1>3, <2>1
    <3>2. s < title[n][h[1]].time
      BY <1>3, <3>1
    <3> QED
      BY <1>3, <2>1, <3>2, SellerHolds
  <2>2. CASE i # 1
    <3> DEFINE j == i - 1
    <3>1. j \in 1..k /\ i \in 2..k + 1 /\ j + 1 = i
      BY <1>1, <1>3, <2>2
    <3>2. g[i] = title[n][h[j]]
      BY <1>3, <3>1
    <3>3. ASSUME j < k PROVE s < title[n][h[j + 1]].time
      <4>1. i # Len(g) /\ i + 1 \in 2..k + 1 /\ (i + 1) - 1 = j + 1
        BY <1>1, <1>3, <3>1, <3>3
      <4> QED
        BY <1>3, <4>1
    <3>4. s < to
      <4>1. CASE j < k
        <5>1. j + 1 \in 1..k
          BY <1>1, <3>1, <4>1
        <5> QED
          BY <1>1, <3>3, <4>1, <5>1
      <4>2. CASE ~(j < k)
        BY <1>1, <1>3, <3>1, <4>2
      <4> QED
        BY <4>1, <4>2
    <3> HIDE DEF j, g
    <3> QED
      BY <3>1, <3>2, <3>3, <3>4, BuyerHolds
  <2> QED
    BY <2>1, <2>2
<1>4. CASE k > 0 /\ Len(g) = k /\ \A j \in 1..k : g[j] = title[n][h[j]]
  <2>1. i \in 1..k /\ g[i] = title[n][h[i]]
    BY <1>4
  <2>2. ASSUME i < k PROVE s < title[n][h[i + 1]].time /\ i + 1 \in 1..k
    <3>1. i # Len(g) /\ i + 1 \in 1..k
      BY <1>1, <1>4, <2>1, <2>2
    <3> QED
      BY <1>4, <3>1
  <2>3. s < to
    <3>1. CASE i < k
      BY <1>1, <2>2, <3>1
    <3>2. CASE ~(i < k)
      BY <1>1, <1>4, <2>1, <3>2
    <3> QED
      BY <3>1, <3>2
  <2> HIDE DEF g
  <2> QED
    BY <2>1, <2>2, <2>3, BuyerHolds
<1> QED
  BY <1>0, <1>2, <1>3, <1>4 DEF HeldInTurn

-----------------------------------------------------------------------------
(* How the reward is divided among the owners.                             *)

(* How a reward for the time between two moments is divided by the list o. *)
Divided(o, from, to, reward) ==
  /\ Len(o) \in Nat /\ DOMAIN o = 1..Len(o)
  /\ \A i \in DOMAIN o : o[i].from \in Nat /\ o[i].to \in Nat /\ o[i].to <= to
  /\ SumFunctionOnSet([i \in DOMAIN o |-> o[i].to - o[i].from], DOMAIN o) = to - from
  /\ SumFunctionOnSet([i \in DOMAIN o |-> o[i].reward], DOMAIN o) = reward
  /\ \A i \in 1..Len(o) - 1 :
       Carry * Precision * (to - from) * o[i].reward
         <= reward * (Carry * Precision * (o[i].to - o[i].from) + (to - from))

LEMMA HolderAlone ==
  ASSUME NEW n, NEW from, NEW h, h = <<>>
  PROVE  Len(Holdings(n, from, h)) = 1
BY DEF Holdings

(* What the owners get of the reward of an NFT.                            *)
LEMMA OwnersShare ==
  ASSUME NEW n, NEW from \in Nat, NEW to \in Nat, NEW h, NEW reward \in Nat,
         InLine(Holdings(n, from, h), from, to), NotGiven(n, from, to, h, reward) \in Nat,
         from = to => h = <<>>
  PROVE  LET g == Holdings(n, from, h)
             o == OwnersInformation(n, from, to, h, reward)
         IN /\ Divided(o, from, to, reward)
            /\ DOMAIN o = 1..Len(g)
            /\ \A i \in 1..Len(g) : /\ o[i].owner = g[i].owner /\ o[i].from = g[i].time
                                    /\ o[i].to = Upto(g, i, to)
<1> DEFINE g       == Holdings(n, from, h)
           o       == OwnersInformation(n, from, to, h, reward)
           m       == Len(g)
           F       == [i \in 1..m + 1 |-> IF i = m + 1 THEN to ELSE g[i].time]
           parts   == OwnerParts(n, from, to, h, reward)
           given   == SumFunctionOnSet(parts, 1..m)
           Got     == [i \in 1..m |-> o[i].reward]
           Time    == [i \in 1..m |-> o[i].to - o[i].from]
<1> HIDE DEF g, o, m, F, parts, given, Got, Time
<1>1. /\ m \in Nat /\ m >= 1 /\ DOMAIN g = 1..m /\ g[1].time = from
      /\ \A i \in 1..m : g[i].time \in Nat /\ g[i].time <= to
      /\ \A i \in 1..m - 1 : g[i].time <= g[i + 1].time
      /\ m > 1 => from < to
  <2>1. InLine(g, from, to)
    BY DEF g
  <2> QED
    BY <2>1 DEF InLine, m
<1>2. m \in Nat /\ m \in 1..m /\ IsFiniteSet(1..m)
  <2>1. 1 \in Int /\ m \in Int /\ m \in 1..m
    BY <1>1
  <2> QED
    BY <1>1, <2>1, FS_Interval
<1>p. /\ parts = [i \in 1..m |-> IF h = <<>> THEN reward
                                 ELSE Part(reward, Upto(g, i, to) - g[i].time, to - from)]
      /\ SumFunction(parts) = given
  <2>1. parts = [i \in 1..m |-> IF h = <<>> THEN reward
                                ELSE Part(reward, Upto(g, i, to) - g[i].time, to - from)]
    BY <1>1 DEF OwnerParts, parts, g, m
  <2> QED
    BY <2>1 DEF SumFunction, given
<1>n. NotGiven(n, from, to, h, reward) = reward - given
  BY <1>p DEF NotGiven, parts
<1>3. o = [i \in 1..m |->
             [owner |-> g[i].owner, from |-> g[i].time, to |-> Upto(g, i, to),
              reward |-> parts[i] + IF i = m THEN Later(reward - given, 0) ELSE 0]]
  BY <1>1, <1>n DEF OwnersInformation, o, parts, g, m
<1>4. \A i \in 1..m : F[i] = g[i].time /\ F[i + 1] = Upto(g, i, to)
  <2> SUFFICES ASSUME NEW i \in 1..m PROVE F[i] = g[i].time /\ F[i + 1] = Upto(g, i, to)
    OBVIOUS
  <2>1. i \in 1..m + 1 /\ i + 1 \in 1..m + 1 /\ i # m + 1 /\ (i + 1 = m + 1 <=> i = m)
    BY <1>2
  <2> QED
    BY <2>1 DEF F, Upto, m
<1>5. F[1] = from /\ F[m + 1] = to
  <2>1. 1 \in 1..m /\ m + 1 \in 1..m + 1
    BY <1>1
  <2> QED
    BY <1>1, <1>4, <2>1 DEF F
<1>6. \A i \in 1..m + 1 : F[i] \in Nat /\ F[i] <= to
  <2>1. \A i \in 1..m + 1 : i \in 1..m \/ i = m + 1
    BY <1>2
  <2> QED
    <3>1. \A i \in 1..m : F[i] \in Nat /\ F[i] <= to
      BY <1>1, <1>4
    <3>2. F[m + 1] \in Nat /\ F[m + 1] <= to
      BY <1>5
    <3> QED
      BY <2>1, <3>1, <3>2
<1>7. ASSUME NEW i \in 1..m
      PROVE  F[i] <= F[i + 1] /\ F[i] \in Nat /\ F[i + 1] \in Nat /\ F[i + 1] <= to
  <2>1. i \in 1..m + 1 /\ i + 1 \in 1..m + 1
    BY <1>2
  <2>2. F[i] \in Nat /\ F[i + 1] \in Nat /\ F[i] <= to /\ F[i + 1] <= to
    BY <1>6, <2>1
  <2>3. CASE i = m
    BY <1>5, <2>2, <2>3
  <2>4. CASE i # m
    <3>1. i \in 1..m - 1
      BY <1>2, <2>4
    <3> QED
      BY <1>1, <1>4, <2>2, <2>4, <3>1
  <2> QED
    BY <2>3, <2>4
<1>8. \A i \in 1..m : /\ o[i].owner = g[i].owner /\ o[i].from = F[i] /\ o[i].to = F[i + 1]
                      /\ o[i].reward = parts[i] + IF i = m THEN Later(reward - given, 0) ELSE 0
  BY <1>3, <1>4
<1>9. DOMAIN o = 1..m /\ Len(o) = m
  <2> DEFINE R == {o[i] : i \in 1..m}
  <2>1. o \in [1..m -> R]
    BY <1>3
  <2> HIDE DEF R
  <2> QED
    BY <1>2, <2>1
<1>10. ASSUME NEW i \in 1..m
       PROVE  /\ parts[i] \in Nat
              /\ i # m => Carry * Precision * (to - from) * parts[i]
                            <= reward * (Carry * Precision * (F[i + 1] - F[i]) + (to - from))
  <2> DEFINE d == F[i + 1] - F[i]
             y == to - from
             q == Ratio(d, y)
             K == Carry
             P == Precision
  <2>1. d \in Nat
    BY <1>7
  <2>2. CASE h = <<>>
    <3>1. m = 1
      BY <2>2, HolderAlone DEF m, g
    <3> QED
      BY <1>p, <2>2, <3>1
  <2>3. CASE h # <<>>
    <3>1. y \in Nat \ {0} /\ parts[i] = Part(reward, d, y)
      <4>1. from < to
        <5>1. from <= to
          BY <1>1, <1>2
        <5> QED
          BY <2>3, <5>1
      <4> QED
        BY <1>p, <1>4, <2>3, <4>1
    <3>2. K \in Nat /\ P \in Nat
      BY Constants
    <3> HIDE DEF d, y, q, K, P
    <3>3. /\ q \in Nat /\ parts[i] \in Nat
          /\ K * (y * q) <= K * (P * d) + y /\ P * parts[i] <= reward * q
      BY <2>1, <3>1, RatioBounds, PartBounds DEF q, K, P
    <3>4. (K * y) * (P * parts[i]) <= (K * y) * (reward * q)
      <4>1. K * y \in Nat /\ P * parts[i] \in Nat /\ reward * q \in Nat
        BY <3>1, <3>2, <3>3
      <4> QED
        BY <3>3, <4>1
    <3>5. (K * y) * (P * parts[i]) = K * P * y * parts[i]
      BY <3>1, <3>2, <3>3
    <3>6. (K * y) * (reward * q) = reward * (K * (y * q))
      BY <3>1, <3>2, <3>3
    <3>7. reward * (K * (y * q)) <= reward * (K * (P * d) + y)
      <4>1. K * (y * q) \in Nat /\ K * (P * d) + y \in Nat
        BY <2>1, <3>1, <3>2, <3>3
      <4> QED
        BY <3>3, <4>1
    <3>8. K * (P * d) = K * P * d
      BY <2>1, <3>2
    <3>9. /\ K * P * y * parts[i] \in Int /\ reward * (K * (y * q)) \in Int
          /\ reward * (K * P * d + y) \in Int
      BY <2>1, <3>1, <3>2, <3>3
    <3>10. K * P * y * parts[i] <= reward * (K * P * d + y)
      BY <3>4, <3>5, <3>6, <3>7, <3>8, <3>9
    <3> QED
      BY <3>3, <3>10 DEF d, y, K, P
  <2> QED
    BY <2>2, <2>3
<1>11. SumFunctionOnSet(Time, 1..m) = to - from
  <2>1. \A i \in 1..m + 1 : F[i] \in Int
    BY <1>6
  <2>2. \A i \in 1..m : Time[i] = F[i + 1] - F[i]
    BY <1>8 DEF Time
  <2>3. SumFunctionOnSet(Time, 1..m) = F[m + 1] - F[1]
    BY <1>2, <2>1, <2>2, Telescope
  <2> QED
    BY <1>5, <2>3
<1>12. SumFunctionOnSet(Got, 1..m) = reward
  <2> DEFINE S == 1..m
  <2>1. IsFiniteSet(S) /\ m \in S /\ given \in Int /\ reward - given \in Nat
    <3>1. given \in Int
      BY <1>2, <1>10, SumInt DEF given
    <3> QED
      BY <1>2, <1>n, <3>1
  <2>2. \A i \in S : Got[i] = parts[i] + IF i = m THEN Later(reward - given, 0) ELSE 0
    BY <1>8 DEF Got
  <2>3. Later(reward - given, 0) = reward - given
    BY <2>1 DEF Later
  <2>4. \A i \in S : parts[i] \in Int
    BY <1>10
  <2>5. given = SumFunctionOnSet(parts, S)
    BY DEF given
  <2> HIDE DEF S
  <2>6. /\ \A i \in S : parts[i] \in Int /\ Got[i] \in Int
        /\ \A i \in S \ {m} : Got[i] = parts[i]
        /\ Got[m] = parts[m] + (reward - given)
    BY <2>1, <2>2, <2>3, <2>4
  <2>7. SumFunctionOnSet(Got, S) = SumFunctionOnSet(parts, S) + Got[m] - parts[m]
    <3>1. IsFiniteSet(S) /\ m \in S
      BY <2>1
    <3>2. \A i \in S : parts[i] \in Int /\ Got[i] \in Int
      BY <2>6
    <3>3. \A i \in S \ {m} : Got[i] = parts[i]
      BY <2>6
    <3> QED
      BY <3>1, <3>2, <3>3, SumExcept
  <2>8. SumFunctionOnSet(Got, S) = reward
    BY <2>1, <2>5, <2>6, <2>7
  <2> QED
    BY <2>8 DEF S
<1>13. Divided(o, from, to, reward)
  <2>1. \A i \in 1..m : o[i].from \in Nat /\ o[i].to \in Nat /\ o[i].to <= to
    BY <1>7, <1>8
  <2>2. ASSUME NEW i \in 1..m - 1
        PROVE  Carry * Precision * (to - from) * o[i].reward
                 <= reward * (Carry * Precision * (o[i].to - o[i].from) + (to - from))
    <3>1. i \in 1..m /\ i # m
      BY <1>2
    <3>2. o[i].reward = parts[i] /\ o[i].from = F[i] /\ o[i].to = F[i + 1]
      BY <1>8, <1>10, <3>1
    <3>3. Carry * Precision * (to - from) * parts[i]
            <= reward * (Carry * Precision * (F[i + 1] - F[i]) + (to - from))
      BY <1>10, <3>1
    <3> QED
      BY <3>2, <3>3
  <2>3. SumFunctionOnSet(Time, DOMAIN o) = to - from
    BY <1>9, <1>11
  <2>4. SumFunctionOnSet(Got, DOMAIN o) = reward
    BY <1>9, <1>12
  <2>5. /\ Time = [i \in DOMAIN o |-> o[i].to - o[i].from]
        /\ Got = [i \in DOMAIN o |-> o[i].reward]
    BY <1>9 DEF Time, Got
  <2> QED
    BY <1>2, <1>9, <2>1, <2>2, <2>3, <2>4, <2>5 DEF Divided
<1> QED
  BY <1>4, <1>8, <1>9, <1>13 DEF o, g, m

(* The time each owner of the list o is paid for was his.                  *)
HadIt(n, o) == \A i \in DOMAIN o : \A s \in o[i].from..o[i].to - 1 : HeldBy(n, s, o[i].owner)

(* The statistics of a payment divide the reward among the owners.         *)
Shared(n, p) ==
  /\ Divided(p.owners, p.start, p.end, p.reward)
  /\ OneTransferPerSecond(n) /\ ~SoldSince(n, p.end) => HadIt(n, p.owners)

Shares == \A n \in DOMAIN stats : Shared(n, stats[n])

LEMMA SharesInit == Init => Shares
<1>1. DOMAIN <<>> = {}
  OBVIOUS
<1> QED
  BY <1>1 DEF Init, Shares

(* Steps that pay nothing and leave the titles alone.                      *)
LEMMA SharesQuiet ==
  ASSUME Shares, title' = title, stats' = stats \/ stats' = <<>>
  PROVE  Shares'
<1>1. DOMAIN <<>> = {}
  OBVIOUS
<1>2. \A n \in DOMAIN stats' : n \in DOMAIN stats /\ stats'[n] = stats[n]
  BY <1>1
<1> QED
  BY <1>2 DEF Shares, Shared, HadIt, HeldBy, OneTransferPerSecond, SoldSince

(* A transfer takes no second away that has passed.                        *)
LEMMA HeldStays ==
  ASSUME TypeOK, NEW n \in Nfts, NEW p \in People, Transfer(n, p),
         NEW m \in Nfts, NEW s \in Int, s < now, NEW q, HeldBy(m, s, q)
  PROVE  HeldBy(m, s, q)'
<1>1. CASE m # n
  <2>1. title'[m] = title[m]
    BY <1>1, TransferAppends
  <2> QED
    BY <2>1 DEF HeldBy
<1>2. CASE m = n
  <2> DEFINE N == Len(title[m])
  <2>1. /\ DOMAIN title'[m] = 1..N + 1
        /\ \A i \in 1..N : title'[m][i] = title[m][i]
        /\ title'[m][N + 1].time = now
    BY <1>2, TransferAppends
  <2>2. N \in Nat /\ DOMAIN title[m] = 1..N
    BY TitleType
  <2>3. PICK j \in 1..N : /\ title[m][j].time <= s /\ title[m][j].owner = q
                          /\ \A l \in 1..N : j < l => s < title[m][l].time
    BY <2>2 DEF HeldBy
  <2> HIDE DEF N
  <2>4. j \in 1..N + 1 /\ \A l \in 1..N + 1 : l \in 1..N \/ l = N + 1
    BY <2>2
  <2> QED
    BY <2>1, <2>3, <2>4 DEF HeldBy
<1> QED
  BY <1>1, <1>2

(* Nor does it make transfers unhappen.                                    *)
LEMMA TransfersStay ==
  ASSUME TypeOK, NEW n \in Nfts, NEW p \in People, Transfer(n, p), NEW m \in Nfts, NEW t
  PROVE  /\ OneTransferPerSecond(m)' => OneTransferPerSecond(m)
         /\ SoldSince(m, t) => SoldSince(m, t)'
<1> DEFINE N == Len(title[m])
<1>1. N \in Nat
  BY TitleType
<1>2. /\ Len(title'[m]) \in {N, N + 1}
      /\ \A i \in 1..N : title'[m][i] = title[m][i]
  BY TransferAppends
<1>3. \A i \in 2..N : i \in 2..Len(title'[m]) /\ title'[m][i] = title[m][i]
  <2> HIDE DEF N
  <2> QED
    BY <1>1, <1>2
<1> QED
  BY <1>3 DEF OneTransferPerSecond, SoldSince

LEMMA SharesTransfer ==
  ASSUME IInv, Shares, NEW n \in Nfts, NEW p \in People, Transfer(n, p)
  PROVE  Shares'
<1>1. stats' = stats /\ TypeOK /\ now \in Nat /\ DOMAIN stats \in SUBSET Nfts
  BY DEF Transfer, IInv, TypeOK
<1> SUFFICES ASSUME NEW m \in DOMAIN stats PROVE Shared(m, stats[m])'
  BY <1>1 DEF Shares
<1> DEFINE o == stats[m].owners
<1>2. stats[m].end <= now /\ stats[m].end \in Nat /\ m \in Nfts
  <2>1. pc = "save" /\ cur \in processed /\ processed \in SUBSET Deposits
    <3>1. stats # <<>>
      OBVIOUS
    <3> QED
      BY <1>1, <3>1 DEF TypeOK
  <2>2. stats[m].end <= arrival[cur] /\ arrival[cur] <= now /\ arrival[cur] \in Nat
    BY <1>1, <2>1 DEF IInv, Origins, Past, TypeOK
  <2>3. stats[m].end \in Nat /\ m \in Nfts
    BY <1>1 DEF TypeOK
  <2> QED
    BY <1>1, <2>2, <2>3
<1>3. Divided(o, stats[m].start, stats[m].end, stats[m].reward)
  BY DEF Shares, Shared
<1>4. ASSUME OneTransferPerSecond(m)', ~SoldSince(m, stats[m].end)' PROVE HadIt(m, o)'
  <2>1. OneTransferPerSecond(m) /\ ~SoldSince(m, stats[m].end)
    BY <1>1, <1>2, <1>4, TransfersStay
  <2>2. HadIt(m, o)
    BY <2>1 DEF Shares, Shared
  <2>3. \A i \in DOMAIN o : o[i].from \in Nat /\ o[i].to \in Nat /\ o[i].to <= stats[m].end
    BY <1>3 DEF Divided
  <2>4. ASSUME NEW i \in DOMAIN o, NEW s \in o[i].from..o[i].to - 1
        PROVE  HeldBy(m, s, o[i].owner)'
    <3>1. s \in Int /\ s < now
      BY <1>1, <1>2, <2>3
    <3>2. HeldBy(m, s, o[i].owner)
      BY <2>2 DEF HadIt
    <3>3. ASSUME NEW q, HeldBy(m, s, q) PROVE HeldBy(m, s, q)'
      BY <1>1, <1>2, <3>1, <3>3, HeldStays
    <3> QED
      BY <1>1, <3>2, <3>3
  <2> QED
    BY <1>1, <2>4 DEF HadIt
<1> QED
  BY <1>1, <1>3, <1>4 DEF Shared

LEMMA SharesPay ==
  ASSUME TypeOK, TitleSorted, Lives, NEW d \in Deposits, Pay(d)
  PROVE  Shares'
<1> DEFINE t == arrival[d]
<1>1. PICK h : /\ \A n \in Due(t) : h[n] \in Histories(n, PeriodStart(n), PayoutEnd(n, t))
               /\ stats' = Statistics(t, h) /\ Accepted(t, h)
  BY DEF Pay, Payable, Orders
<1>2. DOMAIN stats' = Due(t) /\ title' = title /\ t \in Nat
  BY PaySteps DEF TypeOK
<1> SUFFICES ASSUME NEW n \in Due(t) PROVE Shared(n, stats'[n])
  BY <1>2 DEF Shares, Shared, HadIt, HeldBy, OneTransferPerSecond, SoldSince
<1> DEFINE from   == PeriodStart(n)
           to     == PayoutEnd(n, t)
           reward == stats'[n].reward
           g      == Holdings(n, from, h[n])
           o      == OwnersInformation(n, from, to, h[n], reward)
<1>3. /\ n \in Nfts /\ Minted(n) /\ from \in Nat /\ to \in Nat /\ from <= to
      /\ stats'[n].start = from /\ stats'[n].end = to /\ reward \in Nat
  BY PartsPaid
<1>4. stats'[n].owners = o /\ NotGiven(n, from, to, h[n], reward) \in Nat
  <2>1. reward = Reward(n, t) - Fee(n, t)
    BY <1>1 DEF Statistics
  <2>2. NotGiven(n, from, to, h[n], reward) \in 0..Tolerance /\ 0..Tolerance \subseteq Nat
    BY <1>1, <2>1 DEF Accepted
  <2> QED
    BY <1>1, <2>2 DEF Statistics
<1>5. from = to => h[n] = <<>>
  BY <1>1 DEF Pay, Panics
<1>6. MintOf(n) <= from
  <2>1. /\ MintOf(n) \in Nat /\ PayoutStart(n) \in Nat /\ from >= PayoutStart(n)
    BY <1>2, <1>3, Periods
  <2>2. MintOf(n) <= PayoutStart(n)
    BY <1>3, <2>1 DEF Lives, PayoutStart
  <2> QED
    BY <1>3, <2>1, <2>2
<1>7. h[n] \in Histories(n, from, to)
  BY <1>1
<1> HIDE DEF from, to, reward
<1>8. InLine(g, from, to)
  BY <1>3, <1>5, <1>7, HoldingsInOrder
<1>9. /\ Divided(o, from, to, reward) /\ DOMAIN o = 1..Len(g)
      /\ \A i \in 1..Len(g) : /\ o[i].owner = g[i].owner /\ o[i].from = g[i].time
                              /\ o[i].to = IF i = Len(g) THEN to ELSE g[i + 1].time
  BY <1>3, <1>4, <1>5, <1>8, OwnersShare DEF Upto
<1>10. ASSUME OneTransferPerSecond(n), ~SoldSince(n, to) PROVE HadIt(n, o)
  <2>1. \A i \in 1..Len(g) : \A s \in Int :
          g[i].time <= s /\ s < (IF i = Len(g) THEN to ELSE g[i + 1].time) =>
            HeldBy(n, s, g[i].owner)
    BY <1>3, <1>6, <1>7, <1>10, HoldingsOwned
  <2> HIDE DEF g, o
  <2>2. ASSUME NEW i \in DOMAIN o, NEW s \in o[i].from..o[i].to - 1
        PROVE  HeldBy(n, s, o[i].owner)
    <3>1. /\ i \in 1..Len(g) /\ o[i].owner = g[i].owner /\ o[i].from = g[i].time
          /\ o[i].to = IF i = Len(g) THEN to ELSE g[i + 1].time
      BY <1>9
    <3>2. o[i].from \in Nat /\ o[i].to \in Nat
      BY <1>9 DEF Divided
    <3>3. s \in Int /\ o[i].from <= s /\ s < o[i].to
      BY <3>2
    <3> QED
      BY <2>1, <3>1, <3>3
  <2> QED
    BY <2>2 DEF HadIt
<1> HIDE DEF o, g
<1> QED
  BY <1>3, <1>4, <1>9, <1>10 DEF reward, Shared

LEMMA SharesStep ==
  IInv /\ Lives /\ TitleSorted /\ Shares /\ [Next]_vars => Shares'
<1> SUFFICES ASSUME IInv, Lives, TitleSorted, Shares, [Next]_vars PROVE Shares'
  OBVIOUS
<1>0. TypeOK
  BY DEF IInv
<1>1. CASE UNCHANGED vars
  BY <1>1, SharesQuiet DEF vars, env
<1>2. CASE Tick
  BY <1>2, SharesQuiet DEF Tick
<1>3. ASSUME NEW n \in Nfts, NEW p \in People, Mint(n, p) PROVE Shares'
  <2>1. stats' = stats /\ title' = [title EXCEPT ![n] = <<[owner |-> p, time |-> now]>>]
        /\ ~Minted(n)
    BY <1>3 DEF Mint
  <2>2. \A m \in DOMAIN stats : m \in Nfts /\ m # n
    BY <1>0, <2>1 DEF TypeOK, Lives
  <2>3. \A m \in DOMAIN stats : title'[m] = title[m]
    BY <1>0, <2>1, <2>2 DEF TypeOK
  <2> QED
    BY <2>1, <2>3 DEF Shares, Shared, HadIt, HeldBy, OneTransferPerSecond, SoldSince
<1>4. ASSUME NEW n \in Nfts, NEW p \in People, Transfer(n, p) PROVE Shares'
  BY <1>4, SharesTransfer
<1>5. ASSUME NEW d \in Deposits, Deposit(d) PROVE Shares'
  BY <1>5, SharesQuiet DEF Deposit
<1>6. CASE Environment
  BY <1>2, <1>3, <1>4, <1>5, <1>6 DEF Environment
<1>7. CASE ListUnspent \/ NothingUnspent \/ FinishFarm \/ SaveStatistics \/ Interrupted
  BY <1>7, SharesQuiet
  DEF ListUnspent, NothingUnspent, FinishFarm, SaveStatistics, Interrupted, Return, vars, env
<1>8. ASSUME NEW d \in Deposits, SkipTx(d) \/ CannotPay(d) PROVE Shares'
  BY <1>8, SharesQuiet DEF SkipTx, CannotPay, Return, env
<1>9. ASSUME NEW d \in Deposits, Pay(d) PROVE Shares'
  BY <1>0, <1>9, SharesPay
<1> QED
  BY <1>1, <1>6, <1>7, <1>8, <1>9 DEF Next

(* "each nft owner for the time period with the time he owned it"          *)
(* (calculator.go:11): the owners of an NFT divide its reward, each of     *)
(* them is paid for seconds in which the NFT was his, and none but the     *)
(* last for more than their part, but for the rounding of its ratio        *)
(* (calculator.go:30-113).                                                 *)
THEOREM OwnersPaidForTheirTime == Spec => []SharesFollowOwnership
<1>1. IInv /\ Shares => SharesFollowOwnership
  <2> SUFFICES ASSUME IInv, Shares, NEW n \in DOMAIN stats,
                      OneTransferPerSecond(n), ~SoldSince(n, stats[n].end)
               PROVE  LET p == stats[n]
                          o == p.owners
                      IN /\ \A i \in DOMAIN o : \A s \in o[i].from..o[i].to - 1 :
                              OwnerAt(n, s) = o[i].owner
                         /\ SumFunctionOnSet([i \in DOMAIN o |-> o[i].to - o[i].from], DOMAIN o)
                              = p.end - p.start
                         /\ SumFunctionOnSet([i \in DOMAIN o |-> o[i].reward], DOMAIN o) = p.reward
                         /\ \A i \in 1..Len(o) - 1 :
                              Carry * Precision * (p.end - p.start) * o[i].reward
                                <= p.reward * (Carry * Precision * (o[i].to - o[i].from)
                                                 + (p.end - p.start))
    BY DEF SharesFollowOwnership
  <2> DEFINE o == stats[n].owners
  <2>1. TypeOK /\ n \in Nfts
    BY DEF IInv, TypeOK
  <2>2. Divided(o, stats[n].start, stats[n].end, stats[n].reward) /\ HadIt(n, o)
    BY DEF Shares, Shared
  <2>3. ASSUME NEW i \in DOMAIN o, NEW s \in o[i].from..o[i].to - 1
        PROVE  OwnerAt(n, s) = o[i].owner
    <3>1. o[i].from \in Nat /\ o[i].to \in Nat /\ HeldBy(n, s, o[i].owner)
      BY <2>2 DEF Divided, HadIt
    <3>2. s \in Int
      BY <3>1
    <3> HIDE DEF o
    <3> QED
      BY <2>1, <3>1, <3>2, HeldByOwner
  <2> QED
    BY <2>2, <2>3 DEF Divided
<1> QED
  BY <1>1, InvInit, InvStep, LivesInit, LivesStep, SortedInit, SortedStep, SharesInit, SharesStep,
     PTL DEF Spec, IInv

(* What the destinations get of a deposit is the deposit, to the unit, if  *)
(* what the owners of each NFT get is accepted.                            *)
LEMMA PaymentsAddUp ==
  ASSUME TypeOK, MintedHash <= FarmHash, NEW t \in Nat, ~Refused(t), ~Panics(t),
         NEW h \in Orders(t), Accepted(t, h)
  PROVE  AddsUp(t, Statistics(t, h))
<1> DEFINE p        == Statistics(t, h)
           D        == Due(t)
           ofOwners == [n \in D |-> SumFunction([i \in DOMAIN p[n].owners |-> p[n].owners[i].reward])]
           nft      == [n \in D |-> p[n].fee + p[n].cudos + ofOwners[n]]
           Got      == [n \in Nfts |-> IF n \in Due(t) THEN Reward(n, t) ELSE 0]
<1>1. DOMAIN p = D /\ D \in SUBSET Nfts /\ IsFiniteSet(Nfts)
  BY Constants DEF Statistics, Due, Candidates
<1> HIDE DEF p
<1>2. ASSUME NEW n \in D PROVE nft[n] = Reward(n, t) /\ Reward(n, t) \in Nat
  <2> DEFINE from == PeriodStart(n)
             to   == PayoutEnd(n, t)
             o    == OwnersInformation(n, from, to, h[n], p[n].reward)
  <2>1. /\ n \in Nfts /\ Minted(n) /\ from \in Nat /\ to \in Nat /\ from <= to
        /\ p[n].reward \in Nat /\ Reward(n, t) \in Nat /\ p[n].fee \in Int /\ p[n].cudos \in Int
        /\ p[n].reward + p[n].fee + p[n].cudos = Reward(n, t)
    BY PartsOfReward DEF p
  <2>2. p[n].owners = o
    BY DEF p, Statistics
  <2>3. h[n] \in Histories(n, from, to)
    BY DEF Orders
  <2>4. from = to => h[n] = <<>>
    BY <2>3 DEF Panics
  <2>n. NotGiven(n, from, to, h[n], p[n].reward) \in Nat
    <3>1. p[n].reward = Reward(n, t) - Fee(n, t)
      BY DEF p, Statistics
    <3>2. NotGiven(n, from, to, h[n], p[n].reward) \in 0..Tolerance /\ 0..Tolerance \subseteq Nat
      BY <3>1 DEF Accepted
    <3> QED
      BY <3>2
  <2> HIDE DEF from, to
  <2>5. Divided(o, from, to, p[n].reward)
    <3>1. InLine(Holdings(n, from, h[n]), from, to)
      BY <2>1, <2>3, <2>4, HoldingsInOrder
    <3> QED
      BY <2>1, <2>4, <2>n, <3>1, OwnersShare
  <2> HIDE DEF o
  <2>6. SumFunction([i \in DOMAIN o |-> o[i].reward]) = p[n].reward
    BY <2>5 DEF Divided, SumFunction
  <2>7. ofOwners[n] = p[n].reward
    BY <2>2, <2>6
  <2> HIDE DEF ofOwners
  <2> QED
    BY <2>1, <2>7
<1>3. /\ \A n \in D : Got[n] = nft[n]
      /\ \A n \in Nfts \ D : Got[n] = 0
      /\ \A n \in Nfts : Got[n] \in Int
  <2>1. \A n \in Nfts : Got[n] = IF n \in D THEN Reward(n, t) ELSE 0
    OBVIOUS
  <2> HIDE DEF Got, nft, D
  <2>2. \A n \in D : nft[n] = Reward(n, t) /\ Reward(n, t) \in Int
    BY <1>2
  <2> QED
    BY <1>1, <2>1, <2>2
<1>4. /\ SumFunctionOnSet(Got, Nfts) = SumFunctionOnSet(nft, D)
      /\ SumFunctionOnSet(Got, Nfts) \in Int
  <2> HIDE DEF Got, nft, D
  <2>1. IsFiniteSet(D)
    BY <1>1, FS_Subset
  <2>2. SumFunctionOnSet(Got, Nfts) = SumFunctionOnSet(Got, D)
    BY <1>1, <1>3, SumSupport
  <2>3. SumFunctionOnSet(Got, D) = SumFunctionOnSet(nft, D)
    BY <1>1, <1>3, <2>1, SumEqual
  <2>4. SumFunctionOnSet(Got, Nfts) \in Int
    BY <1>1, <1>3, SumInt
  <2> QED
    BY <2>2, <2>3, <2>4
<1>5. Distributed(t, p) = (Income - AfterFee) + Unsold + Leftover(t) + SumFunctionOnSet(nft, D)
  <2>1. nft = [n \in DOMAIN p |-> p[n].fee + p[n].cudos
                 + SumFunction([i \in DOMAIN p[n].owners |-> p[n].owners[i].reward])]
    BY <1>1
  <2>2. SumFunction(nft) = SumFunctionOnSet(nft, D)
    BY DEF SumFunction
  <2> HIDE DEF nft, D
  <2> QED
    BY <2>1, <2>2 DEF Distributed
<1>6. Leftover(t) = ForOwners - SumFunctionOnSet(Got, Nfts)
  BY DEF Leftover
<1>7. (Income - AfterFee) + Unsold + ForOwners = Income /\ ForOwners \in Int
  BY Hashes, AllDistributed
<1>8. Income \in Int /\ AfterFee \in Int /\ Unsold \in Int
  BY <1>7, Constants DEF Unsold
<1> HIDE DEF Got, nft, D
<1>9. Distributed(t, p) = Income
  BY <1>4, <1>5, <1>6, <1>7, <1>8
<1> QED
  BY <1>9 DEF AddsUp, p

(* The times of the owners add up to the period.                           *)
LEMMA TimesAddUp ==
  ASSUME NEW g, NEW from \in Nat, NEW to \in Nat, InLine(g, from, to)
  PROVE  LET time == [i \in 1..Len(g) |-> Upto(g, i, to) - g[i].time] IN
         /\ \A i \in 1..Len(g) : time[i] \in Nat
         /\ SumFunctionOnSet(time, 1..Len(g)) = to - from
<1> DEFINE m    == Len(g)
           F    == [i \in 1..m + 1 |-> IF i = m + 1 THEN to ELSE g[i].time]
           time == [i \in 1..m |-> Upto(g, i, to) - g[i].time]
<1>1. /\ m \in Nat /\ m >= 1 /\ g[1].time = from
      /\ \A i \in 1..m : g[i].time \in Nat /\ g[i].time <= to
      /\ \A i \in 1..m - 1 : g[i].time <= g[i + 1].time
  BY DEF InLine
<1>2. \A i \in 1..m : time[i] = Upto(g, i, to) - g[i].time
  OBVIOUS
<1>3. ASSUME NEW i \in 1..m
      PROVE  /\ F[i] = g[i].time /\ F[i + 1] = Upto(g, i, to)
             /\ F[i] \in Nat /\ F[i + 1] \in Nat /\ F[i] <= F[i + 1]
  <2>1. i \in 1..m + 1 /\ i + 1 \in 1..m + 1 /\ i # m + 1 /\ (i + 1 = m + 1 <=> i = m)
    BY <1>1
  <2>2. F[i] = g[i].time /\ F[i + 1] = Upto(g, i, to)
    BY <2>1 DEF Upto
  <2>3. g[i].time \in Nat /\ g[i].time <= to
    BY <1>1
  <2>4. CASE i = m
    BY <2>2, <2>3, <2>4 DEF Upto
  <2>5. CASE i # m
    <3>1. i \in 1..m - 1 /\ i + 1 \in 1..m
      BY <1>1, <2>5
    <3>2. g[i].time <= g[i + 1].time /\ g[i + 1].time \in Nat
      BY <1>1, <3>1
    <3> QED
      BY <2>2, <2>3, <2>5, <3>2 DEF Upto
  <2> QED
    BY <2>4, <2>5
<1>4. F[1] = from /\ F[m + 1] = to /\ \A i \in 1..m + 1 : i \in 1..m \/ i = m + 1
  <2>1. 1 \in 1..m /\ 1 \in 1..m + 1 /\ m + 1 \in 1..m + 1 /\ 1 # m + 1
    BY <1>1
  <2>2. \A i \in 1..m + 1 : i \in 1..m \/ i = m + 1
    BY <1>1
  <2> QED
    BY <1>1, <2>1, <2>2
<1> HIDE DEF F, time, m
<1>5. \A i \in 1..m : time[i] = F[i + 1] - F[i] /\ time[i] \in Nat
  BY <1>2, <1>3
<1>6. \A i \in 1..m + 1 : F[i] \in Int
  BY <1>3, <1>4
<1>7. SumFunctionOnSet(time, 1..m) = to - from
  <2>1. SumFunctionOnSet(time, 1..m) = F[m + 1] - F[1]
    BY <1>1, <1>5, <1>6, Telescope
  <2> QED
    BY <1>4, <2>1
<1> QED
  BY <1>5, <1>7 DEF time, m

(* An NFT has no more owners in a period than it has had at all.           *)
LEMMA FewOwners ==
  ASSUME TypeOK, NEW n \in Nfts, Minted(n), NEW from \in Nat, NEW to \in Nat,
         NEW h \in Histories(n, from, to)
  PROVE  Len(Holdings(n, from, h)) <= Len(title[n])
<1> DEFINE g == Holdings(n, from, h)
           k == Len(h)
           N == Len(title[n])
<1>1. N \in Nat /\ N >= 1
  BY TitleType
<1>2. HeldInTurn(n, from, to, h, g) /\ ByTime(n, from, to, h)
  BY HoldingsCases, HistoryOrder
<1>3. /\ k \in Nat /\ DOMAIN h = 1..k
      /\ \A i \in 1..k : h[i] \in 2..N
      /\ \A i, j \in 1..k : i < j => h[i] # h[j]
      /\ h \in Seq(Within(n, from, to))
  BY <1>2 DEF ByTime
<1>4. Len(g) = 1 \/ Len(g) = k \/ Len(g) = k + 1
  BY <1>2 DEF HeldInTurn
<1> HIDE DEF g, k, N
<1>5. h \in Injection(1..k, 2..N)
  <2>1. h \in [1..k -> 2..N]
    BY <1>3
  <2>2. \A i, j \in 1..k : h[i] = h[j] => i = j
    BY <1>3
  <2> QED
    BY <2>1, <2>2 DEF Injection, IsInjective
<1>6. k <= N - 1
  <2>1. IsFiniteSet(2..N) /\ Cardinality(2..N) = N - 1
    <3>1. 2 \in Int /\ N \in Int
      BY <1>1
    <3> QED
      BY <1>1, <3>1, FS_Interval
  <2>2. Cardinality(1..k) = k
    BY <1>3, FS_Interval
  <2> QED
    BY <1>5, <2>1, <2>2, FS_Injection
<1>7. Len(g) <= N
  <2>1. k \in Nat
    BY <1>3
  <2>2. 1 <= N /\ k <= N /\ k + 1 <= N
    BY <1>1, <1>6, <2>1
  <2> QED
    BY <1>4, <2>2
<1> QED
  BY <1>7 DEF g, N

(* What the owners of an NFT are given is not more than its reward, and    *)
(* less by no more than is tolerated, if the NFT had few owners.           *)
LEMMA OwnersAccepted ==
  ASSUME TypeOK, FewRoundedUp, NEW n \in Nfts, Minted(n),
         NEW from \in Nat, NEW to \in Nat, from <= to,
         NEW h \in Histories(n, from, to), from = to => h = <<>>,
         NEW r \in Nat, r <= Income
  PROVE  NotGiven(n, from, to, h, r) \in 0..Tolerance
<1> DEFINE g     == Holdings(n, from, h)
           m     == Len(g)
           parts == OwnerParts(n, from, to, h, r)
           G     == SumFunctionOnSet(parts, 1..m)
           K     == Carry
           P     == Precision
<1>1. InLine(g, from, to)
  BY HoldingsInOrder
<1>2. /\ m \in Nat /\ m >= 1 /\ DOMAIN g = 1..m
  BY <1>1 DEF InLine
<1>3. m < K
  <2>1. m <= Len(title[n]) /\ Len(title[n]) \in Nat /\ Len(title[n]) < K
    BY FewOwners, TitleType DEF FewRoundedUp
  <2> QED
    BY <1>2, <2>1, Constants
<1>4. parts = [i \in 1..m |-> IF h = <<>> THEN r ELSE Part(r, Upto(g, i, to) - g[i].time, to - from)]
  BY <1>2 DEF OwnerParts
<1>5. NotGiven(n, from, to, h, r) = r - G
  BY <1>4 DEF NotGiven, SumFunction
<1>6. K \in Nat /\ P \in Nat \ {0} /\ Tolerance \in Nat /\ Income \in Nat
  BY Constants
<1>7. CASE h = <<>>
  <2>1. m = 1
    BY <1>7, HolderAlone
  <2>2. G = r
    <3> HIDE DEF parts, m, g
    <3>1. 1..m = {1} /\ parts[1] = r
      <4>1. 1..m = {1}
        BY <2>1
      <4> QED
        BY <1>4, <1>7, <4>1
    <3>2. IsFiniteSet({1}) /\ 1 \in {1}
      BY FS_Singleton
    <3>3. \A i \in {1} : parts[i] \in Int
      BY <3>1
    <3>4. {1} \ {1} = {}
      OBVIOUS
    <3>5. SumFunctionOnSet(parts, {1}) = parts[1] + SumFunctionOnSet(parts, {1} \ {1})
      BY <3>2, <3>3, SumRemove
    <3>6. SumFunctionOnSet(parts, {1} \ {1}) = 0
      BY <3>4, SumEmpty
    <3>7. SumFunctionOnSet(parts, {1}) = r
      BY <3>1, <3>5, <3>6
    <3> QED
      BY <3>1, <3>7
  <2> HIDE DEF G
  <2> QED
    BY <1>5, <1>6, <2>2
<1>8. CASE h # <<>>
  <2> DEFINE time == [i \in 1..m |-> Upto(g, i, to) - g[i].time]
             b    == to - from
             S    == 1..m
  <2>1. b \in Nat \ {0}
    <3>1. from < to
      BY <1>8
    <3> QED
      BY <3>1
  <2>2. (\A i \in S : time[i] \in Nat) /\ SumFunctionOnSet(time, S) = b
    BY <1>1, TimesAddUp
  <2>3. \A i \in S : parts[i] = Part(r, time[i], b)
    BY <1>4, <1>8
  <2>4. IsFiniteSet(S) /\ Cardinality(S) = m
    <3> HIDE DEF m
    <3>1. 1 \in Int /\ m \in Int
      BY <1>2
    <3> QED
      BY <1>2, <3>1, FS_Interval
  <2> HIDE DEF time, parts, S, b, G, m, K, P
  <2>5. Cardinality({i \in S : RoundedUp(time[i], b)}) < K
    <3> DEFINE U == {i \in S : RoundedUp(time[i], b)}
    <3>1. U \in SUBSET S
      OBVIOUS
    <3> HIDE DEF U
    <3>2. Cardinality(U) <= m /\ Cardinality(U) \in Nat
      BY <2>4, <3>1, FS_Subset, FS_CardinalityType
    <3>3. Cardinality(U) < K
      BY <1>2, <1>3, <1>6, <3>2
    <3> QED
      BY <3>3 DEF U
  <2>6. G \in Nat /\ G <= r /\ P * (r - G) <= m * (r + P)
    BY <2>1, <2>2, <2>3, <2>4, <2>5, PartsOfWhole DEF G, S, K, P
  <2>7. m * (r + P) <= K * (Income + P)
    <3>1. m * (r + P) <= K * (r + P)
      BY <1>2, <1>3, <1>6
    <3>2. K * (r + P) <= K * (Income + P)
      BY <1>6
    <3>3. m * (r + P) \in Int /\ K * (r + P) \in Int /\ K * (Income + P) \in Int
      BY <1>2, <1>6
    <3> QED
      BY <3>1, <3>2, <3>3
  <2>8. K * (Income + P) <= Tolerance * P
    BY DEF FewRoundedUp, K, P
  <2>9. r - G <= Tolerance
    <3> SUFFICES ASSUME Tolerance + 1 <= r - G PROVE FALSE
      BY <1>6, <2>6
    <3>1. P * (Tolerance + 1) <= P * (r - G)
      BY <1>6, <2>6
    <3>2. P * (Tolerance + 1) = Tolerance * P + P
      BY <1>6
    <3>3. /\ P * (r - G) \in Int /\ m * (r + P) \in Int /\ K * (Income + P) \in Int
          /\ Tolerance * P \in Int
      BY <1>2, <1>6, <2>6
    <3> QED
      BY <1>6, <2>6, <2>7, <2>8, <3>1, <3>2, <3>3
  <2> QED
    BY <1>5, <1>6, <2>6, <2>9
<1> QED
  BY <1>7, <1>8

(* What an NFT gets is not more than the income.                           *)
LEMMA RewardAtMost ==
  ASSUME IInv, Lives, pc = "farm", AllSaved, MintedInTime, MintedHash <= FarmHash,
         NEW d \in todo, InOrder(d), NEW n \in Due(arrival[d])
  PROVE  Reward(n, arrival[d]) <= Income
<1> DEFINE t == arrival[d]
           r == RewardByPercent(MintedHash, Hash[n], ForOwners)
<1>1. /\ n \in Candidates /\ n \in Nfts /\ prev \in Nat /\ t \in Nat
      /\ PayoutStart(n) \in Nat /\ PayoutEnd(n, t) \in Nat
      /\ prev <= PayoutStart(n) /\ PayoutStart(n) <= PayoutEnd(n, t) /\ PayoutEnd(n, t) <= t
  BY DuePeriod DEF Due, Candidates, MintedInTime
<1>2. /\ MintedHash \in Nat /\ Hash[n] \in Nat /\ ForOwners \in Nat /\ FarmHash \in Nat
      /\ AfterFee \in Nat /\ AfterFee <= Income /\ Income \in Nat
  BY <1>1, Hashes, Constants
<1>3. Hash[n] <= MintedHash
  <2>1. \A x \in Candidates : Hash[x] \in Nat
    BY Hashes
  <2>2. MintedHash = Hash[n] + SumFunctionOnSet(Hash, Candidates \ {n})
    BY <1>1, <2>1, Hashes, SumRemove DEF MintedHash
  <2>3. SumFunctionOnSet(Hash, Candidates \ {n}) \in Nat
    BY <2>1, Hashes, FS_RemoveElement, SumNat
  <2> QED
    BY <1>2, <2>2, <2>3
<1>4. ForOwners <= AfterFee
  BY <1>2, PercentBounds DEF ForOwners
<1>5. r \in Nat /\ r <= ForOwners
  BY <1>2, <1>3, PercentBounds
<1>6. Reward(n, t) \in Nat /\ Reward(n, t) <= r
  BY <1>1, <1>5, PartOfPeriod DEF Reward
<1> QED
  BY <1>2, <1>4, <1>5, <1>6

(* The checks on the calculation (calculator.go:21, 95, 108, 244, 259)     *)
(* refuse no deposit that is not skipped, and what is computed adds up to  *)
(* it, when deposits are processed in order, the payout history is         *)
(* complete, no transfer falls on a border, no NFT was minted after its    *)
(* expiry, no more hash power is sold than the farm has, and fewer than    *)
(* Carry of the ratios that a reward is split by are rounded up.           *)
THEOREM DepositsPayable == Spec => []EveryDepositPayable
<1>1. IInv /\ Lives => EveryDepositPayable
  <2> SUFFICES ASSUME IInv, Lives, pc = "farm", AllSaved, NoTransferAtBorder, MintedInTime,
                      MintedHash <= FarmHash, FewRoundedUp, NEW d \in todo, InOrder(d)
               PROVE  LET t == arrival[d] IN
                      ~Refused(t) /\ ~Panics(t) /\ \A h \in Orders(t) : Payable(t, h)
    BY DEF EveryDepositPayable, Regular
  <2> DEFINE t == arrival[d]
  <2>0. TypeOK /\ t \in Nat
    BY DEF IInv, TypeOK, Unprocessed
  <2>1. ~Refused(t)
    <3>1. ~(\E n \in Due(t) : PeriodStart(n) > PayoutEnd(n, t))
      BY DuePeriod DEF Due, Candidates, MintedInTime
    <3>2. Leftover(t) \in Int /\ Leftover(t) >= 0
      BY NothingOverspent
    <3> QED
      BY <3>1, <3>2 DEF Refused
  <2>2. ~Panics(t)
    <3> SUFFICES ASSUME NEW n \in Due(t), PeriodStart(n) = PayoutEnd(n, t)
                 PROVE  Histories(n, PeriodStart(n), PayoutEnd(n, t)) = {<<>>}
      BY DEF Panics
    <3> DEFINE e == PayoutEnd(n, t)
    <3>1. n \in Nfts /\ e \in Nat /\ (e = t \/ e = Expiry[n])
      BY DuePeriod DEF Earlier, Due, Candidates, MintedInTime
    <3>2. d \in Deposits
      BY DEF IInv, TypeOK, Unprocessed
    <3>3. \A i \in 2..Len(title[n]) : title[n][i].time # e
      BY <3>1, <3>2 DEF NoTransferAtBorder
    <3>4. ASSUME NEW i \in 2..Len(title[n]) PROVE title[n][i].time \notin e..e
      BY <3>1, <3>3
    <3> QED
      BY <3>4, NoTransferNoHistory
  <2>3. ASSUME NEW h \in Orders(t), NEW n \in Due(t)
        PROVE  NotGiven(n, PeriodStart(n), PayoutEnd(n, t), h[n], Reward(n, t) - Fee(n, t))
                 \in 0..Tolerance
    <3> DEFINE from == PeriodStart(n)
               to   == PayoutEnd(n, t)
               r    == Reward(n, t) - Fee(n, t)
    <3>1. h[n] \in Histories(n, from, to)
      BY DEF Orders
    <3>2. from = to => h[n] = <<>>
      BY <2>2, <3>1 DEF Panics
    <3>3. /\ n \in Nfts /\ Minted(n) /\ from \in Nat /\ to \in Nat /\ from <= to
          /\ r \in Nat /\ Reward(n, t) \in Nat /\ r <= Reward(n, t)
      BY <2>0, <2>1, PartsOfReward
    <3>4. Reward(n, t) <= Income /\ Income \in Nat
      BY RewardAtMost, Constants
    <3>5. r <= Income
      BY <3>3, <3>4
    <3> HIDE DEF from, to, r
    <3>6. NotGiven(n, from, to, h[n], r) \in 0..Tolerance
      BY <2>0, <3>1, <3>2, <3>3, <3>5, OwnersAccepted
    <3> QED
      BY <3>6 DEF from, to, r
  <2>4. \A h \in Orders(t) : Payable(t, h)
    <3> SUFFICES ASSUME NEW h \in Orders(t) PROVE Payable(t, h)
      OBVIOUS
    <3>1. Accepted(t, h)
      BY <2>3 DEF Accepted
    <3> HIDE DEF t
    <3> QED
      BY <2>0, <2>1, <2>2, <3>1, PaymentsAddUp DEF Payable
  <2> QED
    BY <2>1, <2>2, <2>4
<1> QED
  BY <1>1, InvInit, InvStep, LivesInit, LivesStep, PTL DEF Spec
=============================================================================
