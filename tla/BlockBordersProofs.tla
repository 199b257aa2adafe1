------------------------- MODULE BlockBordersProofs -------------------------
(***************************************************************************)
(* The search of BlockBorders finds borders that enclose the period, for   *)
(* every chain, every period, and every block time of the estimates.  The  *)
(* inductive invariant says that blocks far apart in height are far apart  *)
(* in time, what is known of the time checked last, and on which side of   *)
(* the period the heights found are.                                       *)
(***************************************************************************)
EXTENDS BlockBorders, TLAPS

(* The estimates divide by the block time: rounded up, they go far enough. *)
LEMMA Quotient ==
  ASSUME NEW x \in Nat, NEW b \in Nat \ {0}
  PROVE  /\ x \div b \in Nat
         /\ (x \div b + 1) * b > x
BY SMT

(* Two facts about products, which the prover does not find by itself.     *)
LEMMA Times ==
  ASSUME NEW n \in Nat, NEW p \in Nat, NEW q \in Nat, p >= q
  PROVE  n * p >= n * q
BY SMT

LEMMA OneMore ==
  ASSUME NEW n \in Nat, NEW p \in Nat
  PROVE  (n + 1) * p = n * p + p
BY SMT

-----------------------------------------------------------------------------
(* Blocks that are n heights apart are n spacings apart in time, and none  *)
(* is in the future.                                                       *)
Chain ==
  /\ \A g, h \in Heights : g <= h => time[g] + (h - g) * spacing <= time[h]
  /\ \A h \in Heights : time[h] <= now

(* The height the first loop is at, and the one it ended with: the time    *)
(* checked last is that of the block, except before the first round.       *)
LowFound ==
  /\ pc = "start" =>
       /\ low > 0 /\ time[low] <= checked
       /\ low = current \/ checked = time[low]
       /\ spacing >= BlockTime => low = current \/ checked < periodStart
  /\ pc \in {"end", "done"} /\ low > 0 =>
       /\ time[low] <= periodStart
       /\ spacing >= BlockTime => low = current \/ time[low] < periodStart

(* The same for the second loop, when the first one found a block.         *)
HighFound ==
  low > 0 =>
    /\ pc = "end" =>
         /\ high >= low /\ time[high] <= checked
         /\ high = low => low = current \/ checked = time[low]
         /\ high # low => checked = time[high]
         /\ spacing >= BlockTime => high = low \/ checked > periodEnd
    /\ pc = "done" =>
         \/ high = current
         \/ high = low /\ low # current /\ periodEnd <= time[low]
         \/ /\ high > low /\ periodEnd <= time[high]
            /\ spacing >= BlockTime => periodEnd < time[high]

(* The second loop after the first one gave up: as soon as it has moved,   *)
(* the time checked last is that of a block again.                         *)
HighAlone ==
  low = 0 /\ high > 0 =>
    /\ pc = "end" => checked = time[high]
    /\ pc = "done" => high = current \/ periodEnd <= time[high]

IInv == TypeOK /\ Chain /\ LowFound /\ HighFound /\ HighAlone

LEMMA InvInit == Init => IInv
BY BordersAssumption
   DEF Init, IInv, TypeOK, Chain, LowFound, HighFound, HighAlone, Heights

(* A block before the estimate is earlier than the start by what was asked *)
(* for, if the chain is not faster than the estimates.                     *)
LEMMA FarEnough ==
  ASSUME TypeOK, Chain, spacing >= BlockTime,
         NEW g \in Heights, NEW h \in Heights, g <= h,
         NEW x \in Nat, h - g = x \div BlockTime + 1
  PROVE  time[g] + x < time[h]
<1>1. spacing \in Nat /\ BlockTime \in Nat \ {0}
  BY BordersAssumption DEF TypeOK
<1>2. x \div BlockTime \in Nat /\ (x \div BlockTime + 1) * BlockTime > x
  BY <1>1, Quotient
<1>3. (x \div BlockTime + 1) * spacing >= (x \div BlockTime + 1) * BlockTime
  BY <1>1, <1>2, Times
<1>4. time[g] + (x \div BlockTime + 1) * spacing <= time[h]
  BY DEF Chain
<1>5. time[g] \in Nat /\ time[h] \in Nat
  BY DEF TypeOK
<1> DEFINE k == x \div BlockTime + 1
<1>6. k * spacing \in Nat /\ k * BlockTime \in Nat
  BY <1>1, <1>2
<1> QED
  BY <1>2, <1>3, <1>4, <1>5, <1>6

LEMMA ChainStep == ASSUME TypeOK, Chain, NewBlock PROVE Chain'
<1>1. spacing \in Nat \ {0} /\ tip \in Nat \ {0} /\ now \in Nat
  BY BordersAssumption DEF TypeOK
<1>2. \A h \in Heights : time'[h] = time[h] /\ time[h] \in Nat
  BY DEF NewBlock, Heights, TypeOK
<1>3. time'[tip + 1] = now /\ time[tip] + spacing <= now /\ Heights' = Heights \cup {tip + 1}
  BY <1>1 DEF NewBlock, Heights
<1>4. tip \in Heights
  BY <1>1 DEF Heights
<1>5. ASSUME NEW g \in Heights
      PROVE  time[g] + (tip + 1 - g) * spacing <= now
  <2>1. tip - g \in Nat
    BY <1>1 DEF Heights
  <2>2. time[g] + (tip - g) * spacing <= time[tip]
    BY <1>4, <2>1 DEF Chain, Heights
  <2>3. (tip - g + 1) * spacing = (tip - g) * spacing + spacing
    BY <1>1, <2>1, OneMore
  <2>4. tip + 1 - g = tip - g + 1
    BY <1>1 DEF Heights
  <2>5. (tip + 1 - g) * spacing = (tip - g) * spacing + spacing
    BY <2>3, <2>4
  <2> DEFINE p == (tip - g) * spacing
  <2>6. p \in Nat /\ spacing \in Nat /\ time[g] \in Nat /\ time[tip] \in Nat
    BY <1>1, <1>2, <1>4, <2>1
  <2>7. time[g] + p <= time[tip] /\ time[tip] + spacing <= now
    BY <1>3, <2>2
  <2> HIDE DEF p
  <2>8. time[g] + (p + spacing) <= now
    BY <1>1, <2>6, <2>7
  <2> QED
    BY <2>5, <2>8 DEF p
<1>6. ASSUME NEW g \in Heights', NEW h \in Heights', g <= h
      PROVE  time'[g] + (h - g) * spacing <= time'[h]
  <2>1. CASE h \in Heights
    <3>1. g \in Heights
      BY <1>1, <1>3, <1>6, <2>1 DEF Heights
    <3>2. time[g] + (h - g) * spacing <= time[h]
      BY <1>6, <2>1, <3>1 DEF Chain
    <3> QED
      BY <1>2, <2>1, <3>1, <3>2
  <2>2. CASE h = tip + 1 /\ g \in Heights
    <3>1. time'[g] = time[g] /\ time'[h] = now
      BY <1>2, <1>3, <2>2
    <3>2. time[g] + (tip + 1 - g) * spacing <= now
      BY <1>5, <2>2
    <3>3. h - g = tip + 1 - g
      BY <1>1, <2>2 DEF Heights
    <3> QED
      BY <3>1, <3>2, <3>3
  <2>3. CASE h = tip + 1 /\ g = tip + 1
    <3>1. h - g = 0 /\ 0 * spacing = 0
      BY <1>1, <2>3
    <3> QED
      BY <1>1, <1>3, <2>3, <3>1
  <2> QED
    BY <1>1, <1>3, <1>6, <2>1, <2>2, <2>3 DEF Heights
<1>7. \A h \in Heights' : time'[h] <= now
  BY <1>1, <1>2, <1>3 DEF Chain
<1> QED
  BY <1>6, <1>7 DEF Chain, NewBlock

LEMMA InvStep == IInv /\ [Next]_vars => IInv'
<1> SUFFICES ASSUME IInv, [Next]_vars PROVE IInv'
  OBVIOUS
<1> USE DEF IInv
<1>t. /\ spacing \in Nat \ {0} /\ now \in Nat /\ tip \in Nat \ {0} /\ current \in Nat
      /\ current <= tip /\ time \in [1..tip -> Nat] /\ BlockTime \in Nat \ {0}
      /\ periodStart \in Nat /\ periodEnd \in Nat /\ checked \in Nat
  BY BordersAssumption DEF TypeOK, Heights
<1>0. CASE UNCHANGED vars
  BY <1>0 DEF vars, chain, period, TypeOK, Chain, LowFound, HighFound, HighAlone, Heights
<1>1. CASE Tick
  <2>1. TypeOK' /\ Chain'
    BY <1>1, <1>t DEF Tick, period, TypeOK, Chain, Heights
  <2>2. LowFound' /\ HighFound'
    BY <1>1, <1>t DEF Tick, period, TypeOK, LowFound, HighFound, Heights
  <2>3. HighAlone'
    BY <1>1, <1>t DEF Tick, period, TypeOK, HighAlone
  <2> QED
    BY <2>1, <2>2, <2>3
<1>2. CASE NewBlock
  <2>1. Chain'
    BY <1>2, ChainStep
  <2>2. \A h \in Heights : time'[h] = time[h]
    BY <1>2, <1>t DEF NewBlock, Heights
  <2>3. TypeOK'
    BY <1>2, <1>t DEF NewBlock, period, TypeOK, Heights
  <2>4. UNCHANGED <<spacing, now, pc, periodStart, periodEnd, current, checked, low, high>>
    BY <1>2 DEF NewBlock, period
  <2>5. low > 0 => low \in Heights /\ time'[low] = time[low]
    BY <1>t, <2>2 DEF TypeOK, Heights
  <2>6. low > 0 /\ high >= low => high \in Heights /\ time'[high] = time[high]
    BY <1>t, <2>2 DEF TypeOK, Heights
  <2>7. LowFound'
    BY <2>4, <2>5 DEF LowFound, TypeOK
  <2>8. HighFound'
    <3>1. low > 0 /\ pc \in {"end", "done"} => high >= low
      BY <1>t DEF HighFound, TypeOK
    <3> QED
      BY <2>4, <2>5, <2>6, <3>1 DEF HighFound, TypeOK
  <2>9. HighAlone'
    <3>1. high > 0 => time'[high] = time[high]
      BY <1>t, <2>2 DEF TypeOK, Heights
    <3> QED
      BY <2>4, <3>1 DEF HighAlone
  <2> QED
    BY <2>1, <2>3, <2>7, <2>8, <2>9
<1>3. ASSUME NEW from \in 0..MaxNow, NEW to \in 0..MaxNow, Begin(from, to) PROVE IInv'
  BY <1>3, <1>t, BordersAssumption
     DEF Begin, chain, TypeOK, Chain, LowFound, HighFound, HighAlone, Heights
<1>4. CASE StepBack
  <2> DEFINE x == checked - periodStart
  <2>1. x \in Nat /\ x \div BlockTime \in Nat
    BY <1>4, <1>t, Quotient DEF StepBack
  <2>2. EstimateBack \in Heights /\ EstimateBack < low /\ EstimateBack < current
    BY <1>4, <1>t, <2>1 DEF StepBack, EstimateBack, TypeOK, Heights
  <2>3. low \in Heights /\ time[low] <= checked
    BY <1>4, <1>t, <2>2 DEF StepBack, LowFound, TypeOK, Heights
  <2>4. spacing >= BlockTime => time[EstimateBack] < periodStart
    <3>1. low - EstimateBack = x \div BlockTime + 1
      BY <1>t, <2>1, <2>3 DEF EstimateBack, Heights
    <3>2. ASSUME spacing >= BlockTime PROVE time[EstimateBack] + x < time[low]
      <4>1. EstimateBack <= low
        BY <1>t, <2>2 DEF Heights, TypeOK
      <4> HIDE DEF x
      <4> QED
        BY <2>1, <2>2, <2>3, <3>1, <3>2, <4>1, FarEnough
    <3>3. time[EstimateBack] \in Nat /\ time[low] \in Nat
      BY <1>t, <2>2, <2>3 DEF Heights
    <3> QED
      BY <1>t, <2>1, <2>3, <3>2, <3>3
  <2>5. TypeOK' /\ Chain'
    BY <1>4, <1>t, <2>2 DEF StepBack, chain, period, TypeOK, Chain, Heights
  <2>6. LowFound' /\ HighFound' /\ HighAlone'
    BY <1>4, <1>t, <2>2, <2>4 DEF StepBack, chain, period, LowFound, HighFound, HighAlone, TypeOK, Heights
  <2> QED
    BY <2>5, <2>6
<1>5. CASE BeforeGenesis
  BY <1>5, <1>t DEF BeforeGenesis, chain, period, TypeOK, Chain, LowFound, HighFound, HighAlone, Heights
<1>6. CASE StartFound
  <2>1. TypeOK' /\ Chain'
    BY <1>6, <1>t DEF StartFound, chain, period, TypeOK, Chain, Heights
  <2>2. UNCHANGED <<spacing, time, periodStart, periodEnd, current, checked, low>>
    BY <1>6 DEF StartFound, chain, period
  <2>3. low \in 0..current /\ high \in 0..current /\ (low > 0 => time[low] \in Nat)
    BY <1>t DEF TypeOK
  <2>4. LowFound'
    BY <1>6, <1>t, <2>2, <2>3 DEF StartFound, LowFound
  <2>5. HighFound'
    BY <1>6, <1>t, <2>2, <2>3 DEF StartFound, LowFound, HighFound
  <2>6. HighAlone'
    BY <1>6, <1>t, <2>2, <2>3 DEF StartFound, LowFound, HighAlone
  <2> QED
    BY <2>1, <2>4, <2>5, <2>6
<1>7. CASE StepAhead
  <2> DEFINE x == periodEnd - checked
  <2>1. x \in Nat /\ x \div BlockTime \in Nat
    BY <1>7, <1>t, Quotient DEF StepAhead
  <2>2. /\ high \in Nat /\ EstimateAhead \in Heights
        /\ high < EstimateAhead /\ EstimateAhead < current
    BY <1>7, <1>t, <2>1 DEF StepAhead, EstimateAhead, TypeOK, Heights
  <2>3. low > 0 => high \in Heights /\ high >= low
    BY <1>7, <1>t DEF StepAhead, HighFound, TypeOK, Heights
  <2>4. ASSUME low > 0, spacing >= BlockTime PROVE time[EstimateAhead] > periodEnd
    <3>1. EstimateAhead - high = x \div BlockTime + 1
      BY <1>t, <2>1, <2>2 DEF EstimateAhead
    <3>2. time[high] + x < time[EstimateAhead]
      <4>1. high \in Heights /\ high <= EstimateAhead
        BY <2>2, <2>3, <2>4, <1>t DEF Heights
      <4> HIDE DEF x
      <4> QED
        BY <2>1, <2>2, <2>4, <3>1, <4>1, FarEnough
    <3>3. checked = time[high]
      BY <1>7, <1>t, <2>2, <2>3, <2>4 DEF StepAhead, HighFound, Heights
    <3> QED
      BY <1>t, <2>2, <2>3, <2>4, <3>2, <3>3 DEF Heights
  <2>5. TypeOK' /\ Chain'
    BY <1>7, <1>t, <2>2 DEF StepAhead, chain, period, TypeOK, Chain, Heights
  <2>6. LowFound' /\ HighFound' /\ HighAlone'
    BY <1>7, <1>t, <2>2, <2>3, <2>4
       DEF StepAhead, chain, period, LowFound, HighFound, HighAlone, TypeOK, Heights
  <2> QED
    BY <2>5, <2>6
<1>8. CASE AtCurrent
  <2>1. TypeOK' /\ Chain'
    BY <1>8, <1>t DEF AtCurrent, chain, period, TypeOK, Chain, Heights
  <2>2. LowFound' /\ HighFound'
    BY <1>8, <1>t DEF AtCurrent, chain, period, TypeOK, LowFound, HighFound, Heights
  <2>3. HighAlone'
    BY <1>8, <1>t DEF AtCurrent, chain, period, TypeOK, HighAlone
  <2> QED
    BY <2>1, <2>2, <2>3
<1>9. CASE EndFound
  <2>1. TypeOK' /\ Chain'
    BY <1>9, <1>t DEF EndFound, chain, period, TypeOK, Chain, Heights
  <2>2. UNCHANGED <<spacing, time, periodStart, periodEnd, current, checked, low>>
    BY <1>9 DEF EndFound, chain, period
  <2>3. low \in 0..current /\ high \in 0..current /\ (low > 0 => time[low] \in Nat)
    BY <1>t DEF TypeOK
  <2>4. LowFound'
    BY <1>9, <1>t, <2>2, <2>3 DEF EndFound, LowFound
  <2>5. HighFound'
    BY <1>9, <1>t, <2>2, <2>3 DEF EndFound, LowFound, HighFound
  <2>6. HighAlone'
    BY <1>9, <1>t, <2>2, <2>3 DEF EndFound, LowFound, HighAlone
  <2> QED
    BY <2>1, <2>4, <2>5, <2>6
<1>10. CASE Return
  <2>1. TypeOK' /\ Chain'
    BY <1>10, <1>t DEF Return, chain, TypeOK, Chain, Heights
  <2>2. LowFound' /\ HighFound'
    BY <1>10, <1>t DEF Return, chain, TypeOK, LowFound, HighFound, Heights
  <2>3. HighAlone'
    BY <1>10, <1>t DEF Return, chain, TypeOK, HighAlone
  <2> QED
    BY <2>1, <2>2, <2>3
<1> QED
  BY <1>0, <1>1, <1>2, <1>3, <1>4, <1>5, <1>6, <1>7, <1>8, <1>9, <1>10
     DEF Next, Search, Answer, RequestFails

(* The state of a search is well typed: the heights it asks for exist.     *)
THEOREM TypeCorrect == Spec => []TypeOK
<1>1. IInv => TypeOK
  BY DEF IInv
<1> QED
  BY <1>1, InvInit, InvStep, PTL DEF Spec

-----------------------------------------------------------------------------
(* Blocks follow each other in time.                                       *)
LEMMA InOrder ==
  ASSUME TypeOK, Chain, NEW g \in Heights, NEW h \in Heights, g <= h
  PROVE  time[g] <= time[h]
<1>1. spacing \in Nat /\ tip \in Nat
  BY BordersAssumption DEF TypeOK
<1>2. h - g \in Nat /\ (h - g) * spacing \in Nat
  BY <1>1 DEF Heights
<1>3. time[g] + (h - g) * spacing <= time[h]
  BY DEF Chain
<1> DEFINE p == (h - g) * spacing
<1>4. p \in Nat /\ time[g] \in Nat /\ time[h] \in Nat /\ time[g] + p <= time[h]
  BY <1>2, <1>3 DEF TypeOK
<1> HIDE DEF p
<1> QED
  BY <1>4

LEMMA HeightsEnclose == IInv => BordersEnclose
<1> SUFFICES ASSUME IInv, pc = "done", high > 0, NEW h \in Wanted \ {current}
             PROVE  /\ time[h] \notin {periodStart, periodEnd} => low < h /\ h < high
                    /\ low > 0 /\ spacing >= BlockTime => low < h /\ h < high
  BY DEF BordersEnclose, Enclosed, Wanted, Queried
<1>t. /\ spacing \in Nat \ {0} /\ tip \in Nat \ {0} /\ current \in Nat
      /\ current <= tip /\ time \in [1..tip -> Nat] /\ low \in 0..current
      /\ high \in 0..current /\ periodStart \in Nat /\ periodEnd \in Nat
  BY BordersAssumption DEF IInv, TypeOK, Heights
<1>h. h \in 1..tip /\ h < current /\ periodStart <= time[h] /\ time[h] <= periodEnd
  BY <1>t DEF Wanted
<1>1. \A g, k \in 1..tip : g <= k => time[g] <= time[k]
  BY InOrder DEF IInv, Heights
<1>2. CASE low = 0
  <2>1. high = current \/ periodEnd <= time[high]
    BY <1>2 DEF IInv, HighAlone
  <2>2. time[h] # periodEnd => h < high
    BY <1>t, <1>h, <1>1, <2>1
  <2> QED
    BY <1>t, <1>h, <1>2, <2>2
<1>3. CASE low > 0
  <2>1. time[low] <= periodStart /\ low \in 1..tip
    BY <1>t, <1>3 DEF IInv, LowFound
  <2>2. time[h] # periodStart => low < h
    BY <1>t, <1>h, <1>1, <2>1
  <2>3. spacing >= BlockTime => low < h
    <3>1. spacing >= BlockTime => low = current \/ time[low] < periodStart
      BY <1>3 DEF IInv, LowFound
    <3>2. ASSUME low = current, spacing >= BlockTime PROVE low < h
      <4>1. time[low] = time[h] /\ h < low
        BY <1>t, <1>h, <1>1, <2>1, <3>2
      <4>2. low - h \in Nat \ {0} /\ time[h] + (low - h) * spacing <= time[low]
        BY <1>t, <1>h, <2>1, <4>1 DEF IInv, Chain, Heights
      <4> DEFINE d == low - h
                 p == d * spacing
      <4>3. p > 0
        BY <1>t, <4>2
      <4>4. p \in Nat /\ time[h] \in Nat /\ time[h] + p <= time[low]
        BY <1>t, <1>h, <4>2
      <4> HIDE DEF p, d
      <4> QED
        BY <4>1, <4>3, <4>4
    <3> QED
      BY <1>t, <1>h, <1>1, <2>1, <3>1, <3>2
  <2>4. CASE high = current
    BY <1>h, <2>2, <2>3, <2>4
  <2>5. CASE high = low /\ low # current /\ periodEnd <= time[low]
    BY <1>t, <1>h, <1>1, <2>1, <2>3, <2>5 DEF IInv, LowFound
  <2>6. CASE high > low /\ periodEnd <= time[high] /\ (spacing >= BlockTime => periodEnd < time[high])
    BY <1>t, <1>h, <1>1, <2>2, <2>3, <2>6
  <2> QED
    BY <1>3, <2>4, <2>5, <2>6 DEF IInv, HighFound
<1> QED
  BY <1>t, <1>2, <1>3

(* Unless the search gives up at height 0, no block of the period but the  *)
(* latest is left out, whatever the chain, the period and the block time   *)
(* of the estimates; on a chain faster than the estimates, or when no      *)
(* start was found, the blocks of the second of a border excepted.         *)
THEOREM PeriodEnclosed == Spec => []BordersEnclose
BY HeightsEnclose, InvInit, InvStep, PTL DEF Spec

(* One request per border is enough on a chain that is not faster than the *)
(* estimates.                                                              *)
THEOREM RequestsFew == Spec => []OneRequestPerBorder
<1>1. IInv => OneRequestPerBorder
  <2> SUFFICES ASSUME IInv, spacing >= BlockTime
               PROVE  /\ pc = "start" => low = current \/ checked <= periodStart
                      /\ pc = "end" /\ low > 0 => high = low \/ checked >= periodEnd
    BY DEF OneRequestPerBorder
  <2>1. checked \in Nat /\ periodStart \in Nat /\ periodEnd \in Nat
    BY DEF IInv, TypeOK
  <2> QED
    BY <2>1 DEF IInv, LowFound, HighFound
<1> QED
  BY <1>1, InvInit, InvStep, PTL DEF Spec
=============================================================================
