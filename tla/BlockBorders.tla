---------------------------- MODULE BlockBorders ----------------------------
(***************************************************************************)
(* Which blocks of the Cudos chain are searched for the transfers of a     *)
(* payment period (requesters/chain_requester.go).  The node finds         *)
(* transactions by height, the period is given in seconds: the search      *)
(* estimates a height before the start of the period and one after its     *)
(* end from the block time, asks for the time of the block it arrives at,  *)
(* and repeats until it has passed the border.  Only the heights strictly  *)
(* between the two are queried.  The chain goes on growing meanwhile.      *)
(***************************************************************************)
EXTENDS Integers

CONSTANTS
  BlockTime,    \* the block time of the estimates (5 seconds in the code)
  Spacings,     \* the least numbers of seconds between blocks a chain may have
  Genesis,      \* the time of the first block
  MaxNow,       \* the clock stops here
  MaxHeight     \* and the chain here

ASSUME BordersAssumption ==
  /\ BlockTime \in Nat \ {0} /\ Spacings \subseteq Nat \ {0}
  /\ Genesis \in Nat /\ MaxNow \in Nat /\ MaxHeight \in Nat \ {0}

VARIABLES
  spacing,      \* no two blocks of this chain are closer
  now,          \* the time
  tip,          \* the height of the last block
  time,         \* the time of each block (header.time)
  pc,           \* where getPeriodBlockBorders is
  periodStart, periodEnd,
  current,      \* currentBlockHeight
  checked,      \* lastCheckedStartTime, later lastCheckedEndTime
  low,          \* periodStartHeight
  high          \* periodEndHeight

chain  == <<spacing, now, tip, time>>
period == <<periodStart, periodEnd>>
vars   == <<chain, pc, period, current, checked, low, high>>

Heights == 1..tip

Init ==
  /\ spacing \in Spacings
  /\ now = Genesis /\ tip = 1 /\ time = [h \in {1} |-> Genesis]
  /\ pc = "idle" /\ periodStart = 0 /\ periodEnd = 0
  /\ current = 0 /\ checked = 0 /\ low = 0 /\ high = 0

-----------------------------------------------------------------------------
(* The environment: time passes, and blocks are made, also during a        *)
(* search.                                                                 *)

Tick ==
  /\ now < MaxNow
  /\ now' = now + 1
  /\ UNCHANGED <<spacing, tip, time, pc, period, current, checked, low, high>>

NewBlock ==
  /\ tip < MaxHeight
  /\ now >= time[tip] + spacing
  /\ tip' = tip + 1
  /\ time' = [h \in 1..tip + 1 |-> IF h = tip + 1 THEN now ELSE time[h]]
  /\ UNCHANGED <<spacing, now, pc, period, current, checked, low, high>>

-----------------------------------------------------------------------------
(* A call: the latest block and the clock are read.  The end of the period *)
(* is the time of a Bitcoin transaction, its start that of an earlier one, *)
(* the start of the farm, or 0; the start may be the later one when        *)
(* deposits are processed out of order.                                    *)
Begin(from, to) ==
  /\ pc = "idle"
  /\ pc' = "start"
  /\ periodStart' = from /\ periodEnd' = to
  /\ current' = tip
  /\ low' = tip /\ high' = 0
  /\ checked' = now
  /\ UNCHANGED chain

(* Mutant: the estimate does not go one block further.                     *)
EstimateBack_Short == low - (checked - periodStart) \div BlockTime

EstimateBack == low - (checked - periodStart) \div BlockTime - 1

(* One round of the first loop.                                            *)
StepBack ==
  /\ pc = "start"
  /\ checked > periodStart
  /\ EstimateBack > 0
  /\ low' = EstimateBack
  /\ checked' = time[EstimateBack]
  /\ UNCHANGED <<chain, pc, period, current, high>>

(* The loop is left below the first block; the time that was checked last  *)
(* stays the one the second loop starts with.                              *)
BeforeGenesis ==
  /\ pc = "start"
  /\ checked > periodStart
  /\ EstimateBack <= 0
  /\ pc' = "end"
  /\ low' = 0 /\ high' = 0
  /\ UNCHANGED <<chain, period, current, checked>>

StartFound ==
  /\ pc = "start"
  /\ checked <= periodStart
  /\ pc' = "end"
  /\ high' = low
  /\ UNCHANGED <<chain, period, current, checked, low>>

EstimateAhead == high + (periodEnd - checked) \div BlockTime + 1

(* One round of the second loop.                                           *)
StepAhead ==
  /\ pc = "end"
  /\ checked < periodEnd
  /\ EstimateAhead < current
  /\ high' = EstimateAhead
  /\ checked' = time[EstimateAhead]
  /\ UNCHANGED <<chain, pc, period, current, low>>

(* Mutant: the loop goes on from the current block.                        *)
AtCurrent_GoesOn ==
  /\ pc = "end"
  /\ checked < periodEnd
  /\ EstimateAhead >= current
  /\ high' = current
  /\ UNCHANGED <<chain, pc, period, current, checked, low>>

(* Mutant: the estimate is not limited to the current block.               *)
AtCurrent_Unlimited ==
  /\ pc = "end"
  /\ checked < periodEnd
  /\ EstimateAhead >= current
  /\ pc' = "done"
  /\ high' = EstimateAhead
  /\ UNCHANGED <<chain, period, current, checked, low>>

AtCurrent ==
  /\ pc = "end"
  /\ checked < periodEnd
  /\ EstimateAhead >= current
  /\ pc' = "done"
  /\ high' = current
  /\ UNCHANGED <<chain, period, current, checked, low>>

EndFound ==
  /\ pc = "end"
  /\ checked >= periodEnd
  /\ pc' = "done"
  /\ UNCHANGED <<chain, period, current, checked, low, high>>

(* The locals of a call that has returned.                                 *)
Return ==
  /\ pc' = "idle" /\ periodStart' = 0 /\ periodEnd' = 0
  /\ current' = 0 /\ checked' = 0 /\ low' = 0 /\ high' = 0
  /\ UNCHANGED chain

(* A request for a block fails, or one of the queries does.                *)
RequestFails == pc # "idle" /\ Return

(* The two queries, for sales and for transfers, are made and answered.    *)
Answer == pc = "done" /\ Return

Search == StepBack \/ BeforeGenesis \/ StartFound
          \/ StepAhead \/ AtCurrent \/ EndFound \/ Answer

Next ==
  \/ Tick \/ NewBlock
  \/ \E from, to \in 0..MaxNow : Begin(from, to)
  \/ Search
  \/ RequestFails

Spec == Init /\ [][Next]_vars

(* Every request has a timeout of 10 seconds: the search goes on.          *)
FairSpec == Spec /\ WF_vars(Search)
-----------------------------------------------------------------------------
(* Properties. *)

TypeOK ==
  /\ spacing \in Spacings
  /\ now \in Nat /\ tip \in Nat \ {0} /\ time \in [Heights -> Nat]
  /\ pc \in {"idle", "start", "end", "done"}
  /\ periodStart \in Nat /\ periodEnd \in Nat
  /\ current \in Nat /\ checked \in Nat /\ low \in 0..current
  /\ high \in 0..current
  /\ current <= tip /\ (pc # "idle" => current > 0)

(* The blocks whose transfers the filter on timestamps would keep          *)
(* (chain_requester.go:369), and those that are queried (263, 270).        *)
Wanted  == {h \in 1..current : periodStart <= time[h] /\ time[h] <= periodEnd}
Queried == {h \in 1..current : low < h /\ h < high}

(* Strictly inside the period no block is left out, but for the latest     *)
(* one, which is before the period ends only if the period is not over.    *)
Enclosed ==
  \A h \in Wanted \ {current} : time[h] \notin {periodStart, periodEnd} => h \in Queried

(* Unless the search gives up at height 0, the heights it finds enclose    *)
(* the period ("a block height before the period start and a block height  *)
(* after the period end", chain_requester.go:63-64), however long before   *)
(* the first block the period starts and however fast or slow the chain    *)
(* is.  Blocks of the very second of a border may be missed, but not when  *)
(* a start was found on a chain that is not faster than the estimates.     *)
BordersEnclose ==
  pc = "done" /\ high > 0 =>
    /\ Enclosed
    /\ low > 0 /\ spacing >= BlockTime => Wanted \ {current} \subseteq Queried

(* The same of every search that ends ("repeat until fount height before   *)
(* the period start", chain_requester.go:86).  It does not hold: a search  *)
(* for a start before the first block, or estimated to be, ends with the   *)
(* heights 0 and 0 when the time it checked last is after the period, and  *)
(* no block is between them.                                               *)
PeriodSearched == pc = "done" => Enclosed

(* The search ends, however many blocks are made meanwhile ("repeat until  *)
(* found", chain_requester.go:86).                                         *)
SearchEnds == pc # "idle" ~> pc = "idle"

(* A chain as fast as the estimates take it to be, or slower, is asked for *)
(* at most one block on each side: node querying is "very slow"            *)
(* (chain_requester.go:66).                                                *)
OneRequestPerBorder ==
  spacing >= BlockTime =>
    /\ pc = "start" => low = current \/ checked <= periodStart
    /\ pc = "end" /\ low > 0 => high = low \/ checked >= periodEnd
=============================================================================
