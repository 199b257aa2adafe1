---------------------------- MODULE RetryProofs ----------------------------
(***************************************************************************)
(* Proofs about RetryService, for any payments, any limit of retries and   *)
(* any faults.                                                             *)
(***************************************************************************)
EXTENDS RetryService, TLAPS

(* What Execute holds in its locals is still true of the table: nobody     *)
(* else changes a row between the query and the update.                    *)
LocalsInv ==
  /\ \A t \in todo \cup toConfirm \cup toRetry : status[t] = "Pending"
  /\ todo \cap toConfirm = {} /\ todo \cap toRetry = {} /\ toConfirm \cap toRetry = {}
  /\ pc \in {"idle", "down"} => todo = {} /\ toConfirm = {} /\ toRetry = {}
  /\ pc # "save" => cur = NoTx
  /\ pc = "save" => /\ cur \in Txs /\ cur[2] < MaxRetries
                    /\ status[cur] = "Pending"
                    /\ latest[cur[1]] = cur[2] + 1
                    /\ cur \notin todo \cup toConfirm \cup toRetry

(* The retry count of a row is the number of its version.                  *)
CountInv == \A t \in Txs : status[t] # "" => retries[t] = t[2]

(* v is the last row of payment p.                                         *)
Open(p, v) ==
  /\ status[<<p, v>>] \in Statuses \ {"Replaced"}
  /\ \A u \in Versions : /\ u < v => status[<<p, u>>] = "Replaced"
                         /\ u > v => status[<<p, u>>] = ""

ChainInv ==
  \A p \in Payments :
    IF latest[p] = None THEN \A v \in Versions : status[<<p, v>>] = ""
    ELSE \E v \in Versions : Open(p, v)

RowsInv == TypeOK /\ LocalsInv /\ CountInv /\ ChainInv /\ BumpsBounded

-----------------------------------------------------------------------------
LEMMA VersionFacts ==
  /\ None \notin Versions /\ None \in Int /\ None <= MaxRetries
  /\ 0 \in Versions /\ 0 \in 0 .. MaxRetries
  /\ \A v \in Versions : v \in Nat
  /\ \A v \in Versions : v < MaxRetries => /\ v + 1 \in Versions /\ v + 1 # None
                                           /\ v + 1 <= MaxRetries /\ v + 1 \in 0 .. MaxRetries
  /\ \A u, v \in Versions : u < v \/ u = v \/ u > v
BY RetryAssumption DEF Versions, None

LEMMA TxFacts ==
  /\ \A p \in Payments, v \in Versions : <<p, v>> \in Txs
  /\ \A t \in Txs : t[1] \in Payments /\ t[2] \in Versions /\ t = <<t[1], t[2]>>
BY DEF Txs

(* Two rows of a payment that are not replaced are the same.               *)
LEMMA OpenIsUnique ==
  ASSUME NEW p, NEW u \in Versions, NEW v \in Versions,
         Open(p, v), status[<<p, u>>] \in Statuses \ {"Replaced"}
  PROVE  u = v
<1>1. u < v \/ u = v \/ u > v
  BY VersionFacts
<1>2. ~ (u < v)
  BY DEF Open
<1>3. ~ (u > v)
  BY DEF Open, Statuses
<1> QED
  BY <1>1, <1>2, <1>3

LEMMA RowsInit == Init => RowsInv
<1> SUFFICES ASSUME Init PROVE RowsInv
  OBVIOUS
<1>1. TypeOK
  BY VersionFacts DEF Init, TypeOK
<1>2. LocalsInv /\ CountInv
  BY DEF Init, LocalsInv, CountInv
<1>3. ChainInv
  BY TxFacts DEF Init, ChainInv
<1>4. BumpsBounded
  BY VersionFacts DEF Init, BumpsBounded
<1> QED
  BY <1>1, <1>2, <1>3, <1>4 DEF RowsInv

(* What says something about the table only changes with it.               *)
LEMMA RowsSame ==
  ASSUME RowsInv, UNCHANGED <<latest, status, retries>>
  PROVE  CountInv' /\ ChainInv' /\ BumpsBounded'
<1>1. CountInv' /\ BumpsBounded'
  BY DEF RowsInv, CountInv, BumpsBounded
<1>2. \A p \in Payments, v \in Versions : Open(p, v) <=> Open(p, v)'
  BY DEF Open
<1>3. ChainInv'
  BY <1>2 DEF RowsInv, ChainInv
<1> QED
  BY <1>1, <1>3

(* A call that ends leaves the table alone.                                *)
LEMMA RowsReturn ==
  ASSUME RowsInv, UNCHANGED <<rows, chain>>,
         pc' \in {"idle", "down"},
         todo' = {}, toConfirm' = {}, toRetry' = {}, cur' = NoTx
  PROVE  RowsInv'
<1>1. UNCHANGED <<latest, mined, status, retries, waited>>
  BY DEF rows, chain
<1>2. TypeOK'
  BY <1>1 DEF RowsInv, TypeOK
<1>3. LocalsInv'
  BY <1>1 DEF RowsInv, LocalsInv
<1> QED
  BY <1>1, <1>2, <1>3, RowsSame DEF RowsInv

(* Setting the status of a Pending row that is in one of the lists.        *)
LEMMA RowsSettle ==
  ASSUME RowsInv, NEW t \in toConfirm \cup toRetry, NEW s \in {"Completed", "Failed"},
         status' = [status EXCEPT ![t] = s],
         UNCHANGED <<chain, retries, waited>>
  PROVE  /\ status' \in [Txs -> Statuses \cup {""}]
         /\ CountInv' /\ ChainInv' /\ BumpsBounded'
<1>1. t \in Txs /\ status[t] = "Pending"
  BY DEF RowsInv, TypeOK, LocalsInv
<1>2. status' \in [Txs -> Statuses \cup {""}]
  BY <1>1 DEF RowsInv, TypeOK, Statuses
<1>3. CountInv'
  BY <1>1 DEF RowsInv, CountInv, TypeOK
<1>4. ASSUME NEW p \in Payments, NEW v \in Versions, Open(p, v) PROVE Open(p, v)'
  <2>1. \A u \in Versions : <<p, u>> \in Txs
    BY TxFacts
  <2>2. \A u \in Versions : status'[<<p, u>>] = IF t = <<p, u>> THEN s ELSE status[<<p, u>>]
    BY <1>1, <2>1 DEF RowsInv, TypeOK
  <2>3. t = <<p, v>> \/ \A u \in Versions : t # <<p, u>>
    <3> SUFFICES ASSUME NEW u \in Versions, t = <<p, u>> PROVE u = v
      OBVIOUS
    <3>1. status[<<p, u>>] \in Statuses \ {"Replaced"}
      BY <1>1 DEF Statuses
    <3> QED
      BY <1>4, <3>1, OpenIsUnique
  <2> QED
    BY <1>4, <2>2, <2>3, VersionFacts DEF Open, Statuses
<1>5. ChainInv'
  <2> SUFFICES ASSUME NEW p \in Payments
               PROVE  IF latest[p] = None THEN \A v \in Versions : status'[<<p, v>>] = ""
                      ELSE \E v \in Versions : Open(p, v)'
    BY DEF ChainInv, chain
  <2>1. CASE latest[p] = None
    BY <1>1, <2>1, TxFacts DEF RowsInv, ChainInv, TypeOK
  <2>2. CASE latest[p] # None
    BY <1>4, <2>2 DEF RowsInv, ChainInv
  <2> QED
    BY <2>1, <2>2
<1> QED
  BY <1>2, <1>3, <1>5 DEF RowsInv, BumpsBounded, chain

LEMMA RowsNewPayment ==
  ASSUME RowsInv, NEW p \in Payments, NewPayment(p)
  PROVE  RowsInv'
<1>1. TypeOK'
  BY VersionFacts, TxFacts DEF RowsInv, TypeOK, NewPayment, lists, Statuses
<1>2. \A v \in Versions : status[<<p, v>>] = ""
  BY DEF RowsInv, ChainInv, NewPayment
<1>3. \A t \in Txs : /\ status'[t] = IF t = <<p, 0>> THEN "Pending" ELSE status[t]
                     /\ retries'[t] = IF t = <<p, 0>> THEN 0 ELSE retries[t]
  BY DEF RowsInv, TypeOK, NewPayment
<1>4. LocalsInv'
  <2>1. <<p, 0>> \notin todo \cup toConfirm \cup toRetry
    BY <1>2, VersionFacts DEF RowsInv, LocalsInv
  <2> QED
    BY <1>3, <2>1 DEF RowsInv, LocalsInv, TypeOK, NewPayment, lists
<1>5. CountInv'
  <2> SUFFICES ASSUME NEW t \in Txs, status'[t] # "" PROVE retries'[t] = t[2]
    BY DEF CountInv
  <2>1. CASE t = <<p, 0>>
    BY <1>3, <2>1
  <2>2. CASE t # <<p, 0>>
    BY <1>3, <2>2 DEF RowsInv, CountInv
  <2> QED
    BY <2>1, <2>2
<1>6. ASSUME NEW q \in Payments
      PROVE  IF latest'[q] = None THEN \A v \in Versions : status'[<<q, v>>] = ""
             ELSE \E v \in Versions : Open(q, v)'
  <2>1. CASE q = p
    <3>1. \A u \in Versions : status'[<<p, u>>] = IF u = 0 THEN "Pending" ELSE ""
      BY <1>2, <1>3, TxFacts
    <3>2. \A u \in Versions : ~ (u < 0)
      BY VersionFacts
    <3>3. Open(p, 0)'
      BY <3>1, <3>2, VersionFacts DEF Open, Statuses
    <3>4. latest'[p] # None
      BY VersionFacts DEF NewPayment, RowsInv, TypeOK
    <3> QED
      BY <2>1, <3>3, <3>4, VersionFacts
  <2>2. CASE q # p
    <3>1. latest'[q] = latest[q] /\ \A v \in Versions : status'[<<q, v>>] = status[<<q, v>>]
      BY <2>2, <1>3, TxFacts DEF NewPayment, RowsInv, TypeOK
    <3>2. \A v \in Versions : Open(q, v) => Open(q, v)'
      BY <3>1 DEF Open
    <3> QED
      BY <3>1, <3>2 DEF RowsInv, ChainInv
  <2> QED
    BY <2>1, <2>2
<1>7. BumpsBounded'
  <2>1. 0 <= MaxRetries
    BY RetryAssumption
  <2> QED
    BY <2>1 DEF RowsInv, BumpsBounded, NewPayment, TypeOK
<1> QED
  BY <1>1, <1>4, <1>5, <1>6, <1>7 DEF RowsInv, ChainInv

(* The node replaces a version that is Pending and may still be retried.   *)
LEMMA RowsReplace ==
  ASSUME RowsInv, NEW t \in toRetry, ~Exceeded(t), Replace(t), UNCHANGED rows
  PROVE  /\ t \in Txs /\ t[2] < MaxRetries /\ status[t] = "Pending"
         /\ latest'[t[1]] = t[2] + 1
         /\ latest' \in [Payments -> Versions \cup {None}]
         /\ CountInv' /\ ChainInv' /\ BumpsBounded'
<1>1. t \in Txs /\ status[t] = "Pending"
  BY DEF RowsInv, TypeOK, LocalsInv
<1>2. retries[t] = t[2] /\ t[2] < MaxRetries /\ t[1] \in Payments /\ t[2] \in Versions
  <2>1. t[1] \in Payments /\ t[2] \in Versions /\ t[2] \in Nat
    BY <1>1, VersionFacts, TxFacts
  <2>2. retries[t] = t[2]
    BY <1>1 DEF RowsInv, CountInv
  <2> QED
    BY <2>1, <2>2, RetryAssumption DEF Exceeded
<1>3. t[2] + 1 \in Versions /\ t[2] + 1 # None /\ t[2] + 1 <= MaxRetries
  BY <1>2, VersionFacts
<1>4. latest' \in [Payments -> Versions \cup {None}] /\ latest'[t[1]] = t[2] + 1
  BY <1>2, <1>3 DEF RowsInv, TypeOK, Replace
<1>5. \A p \in Payments : latest'[p] = None <=> latest[p] = None
  BY <1>2, <1>3, VersionFacts DEF RowsInv, TypeOK, Replace
<1>6. CountInv' /\ ChainInv'
  <2>1. UNCHANGED <<status, retries>>
    BY DEF rows
  <2>2. \A p \in Payments, v \in Versions : Open(p, v) => Open(p, v)'
    BY <2>1 DEF Open
  <2> QED
    BY <1>5, <2>1, <2>2 DEF RowsInv, CountInv, ChainInv
<1>7. BumpsBounded'
  BY <1>2, <1>3 DEF RowsInv, BumpsBounded, TypeOK, Replace
<1> QED
  BY <1>1, <1>2, <1>4, <1>6, <1>7

LEMMA RowsSave ==
  ASSUME RowsInv, SaveRBF
  PROVE  RowsInv'
<1>0. PICK p \in Payments, c \in Versions : cur = <<p, c>>
  BY TxFacts DEF RowsInv, LocalsInv, SaveRBF
<1> DEFINE new == <<p, c + 1>>
<1>1. /\ cur \in Txs /\ c < MaxRetries /\ status[cur] = "Pending" /\ latest[p] = c + 1
      /\ cur \notin todo \cup toConfirm \cup toRetry
  BY <1>0 DEF RowsInv, LocalsInv, SaveRBF
<1>2. /\ c \in Nat /\ c + 1 \in Versions /\ c + 1 # None /\ c + 1 \in 0 .. MaxRetries
      /\ new \in Txs /\ new # cur /\ cur[1] = p /\ cur[2] = c
  BY <1>0, <1>1, VersionFacts, TxFacts
<1>3. Open(p, c)
  <2>1. PICK v \in Versions : Open(p, v)
    BY <1>1, <1>2 DEF RowsInv, ChainInv
  <2>2. v = c
    BY <1>0, <1>1, <2>1, OpenIsUnique DEF Statuses
  <2> QED
    BY <2>1, <2>2
<1>4. status[new] = ""
  <2>1. c + 1 > c
    BY <1>2
  <2> QED
    BY <1>2, <1>3, <2>1 DEF Open
<1>5. \A t \in Txs : status'[t] = IF t = new THEN "Pending"
                                  ELSE IF t = cur THEN "Replaced" ELSE status[t]
  BY <1>1, <1>2 DEF RowsInv, TypeOK, SaveRBF
<1>6. retries[cur] = c
  BY <1>1, <1>2 DEF RowsInv, CountInv
<1>7. \A t \in Txs : retries'[t] = IF t = new THEN c + 1 ELSE retries[t]
  BY <1>2, <1>6 DEF RowsInv, TypeOK, SaveRBF
<1>8. TypeOK'
  <2>1. status' \in [Txs -> Statuses \cup {""}]
    BY <1>1, <1>2 DEF SaveRBF, RowsInv, TypeOK, Statuses
  <2>2. retries' \in [Txs -> 0 .. MaxRetries]
    BY <1>2, <1>6 DEF SaveRBF, RowsInv, TypeOK
  <2> QED
    BY <2>1, <2>2 DEF RowsInv, TypeOK, SaveRBF, chain, lists
<1>9. LocalsInv'
  <2>1. \A t \in todo \cup toConfirm \cup toRetry : t \in Txs /\ t # new /\ t # cur
    BY <1>1, <1>4 DEF RowsInv, LocalsInv, TypeOK
  <2> QED
    BY <1>5, <2>1 DEF RowsInv, LocalsInv, SaveRBF, lists
<1>10. CountInv'
  <2> SUFFICES ASSUME NEW t \in Txs, status'[t] # "" PROVE retries'[t] = t[2]
    BY DEF CountInv
  <2>1. CASE t = new
    BY <1>7, <2>1
  <2>2. CASE t # new
    BY <1>1, <1>5, <1>7, <2>2 DEF RowsInv, CountInv
  <2> QED
    BY <2>1, <2>2
<1>11. ASSUME NEW q \in Payments
       PROVE  IF latest'[q] = None THEN \A v \in Versions : status'[<<q, v>>] = ""
              ELSE \E v \in Versions : Open(q, v)'
  <2>1. CASE q = p
    <3>1. \A u \in Versions : status'[<<p, u>>] = IF u = c + 1 THEN "Pending"
                                ELSE IF u = c THEN "Replaced" ELSE status[<<p, u>>]
      BY <1>0, <1>5, TxFacts
    <3>2. \A u \in Versions : /\ u < c + 1 => u = c \/ u < c
                              /\ u > c + 1 => u > c /\ u # c
      BY <1>2, VersionFacts
    <3>3. Open(p, c + 1)'
      BY <1>2, <1>3, <3>1, <3>2 DEF Open, Statuses
    <3>4. latest'[p] # None
      BY <1>1, <1>2 DEF SaveRBF, chain
    <3> QED
      BY <1>2, <2>1, <3>3, <3>4
  <2>2. CASE q # p
    <3>1. latest'[q] = latest[q] /\ \A v \in Versions : status'[<<q, v>>] = status[<<q, v>>]
      BY <1>0, <1>5, <2>2, TxFacts DEF SaveRBF, chain
    <3>2. \A v \in Versions : Open(q, v) => Open(q, v)'
      BY <3>1 DEF Open
    <3> QED
      BY <3>1, <3>2 DEF RowsInv, ChainInv
  <2> QED
    BY <2>1, <2>2
<1> QED
  BY <1>8, <1>9, <1>10, <1>11 DEF RowsInv, ChainInv, BumpsBounded, SaveRBF, chain

-----------------------------------------------------------------------------
LEMMA RowsStep == RowsInv /\ [Next]_vars => RowsInv'
<1> SUFFICES ASSUME RowsInv, [Next]_vars PROVE RowsInv'
  OBVIOUS
<1> USE DEF RowsInv
<1>1. CASE UNCHANGED vars
  BY <1>1, RowsSame DEF TypeOK, LocalsInv, vars, chain, rows, lists
<1>2. ASSUME NEW p \in Payments, NewPayment(p) PROVE RowsInv'
  BY <1>2, RowsNewPayment
<1>3. ASSUME NEW p \in Payments, NEW v \in Versions, Mine(p, v) PROVE RowsInv'
  BY <1>3, RowsSame DEF TypeOK, LocalsInv, Mine, rows, lists
<1>4. ASSUME NEW t \in Txs, DelayOver(t) PROVE RowsInv'
  BY <1>4, RowsSame DEF TypeOK, LocalsInv, DelayOver, chain, lists
<1>5. CASE Restart
  BY <1>5, RowsSame DEF TypeOK, LocalsInv, Restart, chain, rows, lists
<1>6. CASE Begin
  <2>1. todo' \subseteq Txs /\ \A t \in todo' : status[t] = "Pending"
    BY <1>6 DEF Begin
  <2>2. toConfirm' = {} /\ toRetry' = {}
    BY <1>6 DEF Begin, LocalsInv
  <2> QED
    BY <1>6, <2>1, <2>2, RowsSame DEF TypeOK, LocalsInv, Begin, chain, rows
<1>7. ASSUME NEW t \in Txs, Check(t) PROVE RowsInv'
  <2>1. TypeOK'
    BY <1>7 DEF TypeOK, Check, chain, rows
  <2>2. LocalsInv'
    BY <1>7 DEF LocalsInv, Check, chain, rows
  <2> QED
    BY <1>7, <2>1, <2>2, RowsSame DEF Check, chain, rows
<1>8. CASE AllChecked \/ AllConfirmed
  BY <1>8, RowsSame DEF TypeOK, LocalsInv, AllChecked, AllConfirmed, chain, rows, lists
<1>9. ASSUME NEW t \in Txs, Confirm(t) PROVE RowsInv'
  <2>1. CountInv' /\ ChainInv' /\ BumpsBounded' /\ status' \in [Txs -> Statuses \cup {""}]
    BY <1>9, RowsSettle DEF Confirm
  <2> QED
    BY <1>9, <2>1 DEF TypeOK, LocalsInv, Confirm, chain
<1>10. ASSUME NEW t \in Txs, Skip(t) PROVE RowsInv'
  BY <1>10, RowsSame DEF TypeOK, LocalsInv, Skip, chain, rows
<1>11. ASSUME NEW t \in Txs, GiveUp(t) PROVE RowsInv'
  <2>1. CountInv' /\ ChainInv' /\ BumpsBounded' /\ status' \in [Txs -> Statuses \cup {""}]
    BY <1>11, RowsSettle DEF GiveUp
  <2> QED
    BY <1>11, <2>1 DEF TypeOK, LocalsInv, GiveUp, chain
<1>12. ASSUME NEW t \in Txs, GiveUpNotMailed(t) PROVE RowsInv'
  <2>1. CountInv' /\ ChainInv' /\ BumpsBounded' /\ status' \in [Txs -> Statuses \cup {""}]
    BY <1>12, RowsSettle DEF GiveUpNotMailed
  <2> QED
    BY <1>12, <2>1 DEF TypeOK, LocalsInv, GiveUpNotMailed, Return, chain
<1>13. ASSUME NEW t \in Txs, BumpFee(t) PROVE RowsInv'
  <2>1. /\ t[2] < MaxRetries /\ status[t] = "Pending" /\ latest'[t[1]] = t[2] + 1
        /\ latest' \in [Payments -> Versions \cup {None}]
        /\ CountInv' /\ ChainInv' /\ BumpsBounded'
    BY <1>13, RowsReplace DEF BumpFee
  <2> QED
    BY <1>13, <2>1 DEF TypeOK, LocalsInv, BumpFee, Replace, rows
<1>14. ASSUME NEW t \in Txs, BumpReplyLost(t) PROVE RowsInv'
  <2>1. /\ latest' \in [Payments -> Versions \cup {None}]
        /\ CountInv' /\ ChainInv' /\ BumpsBounded'
    BY <1>14, RowsReplace DEF BumpReplyLost
  <2> QED
    BY <1>14, <2>1 DEF TypeOK, LocalsInv, BumpReplyLost, Replace, Return, rows
<1>15. CASE SaveRBF
  BY <1>15, RowsSave
<1>16. ASSUME UNCHANGED <<chain, rows>>, Return PROVE RowsInv'
  BY <1>16, RowsReturn DEF Return
<1>17. CASE AllRetried \/ RequestFails \/ UpdateFails \/ SaveFails
  BY <1>16, <1>17 DEF AllRetried, RequestFails, UpdateFails, SaveFails
<1>18. ASSUME NEW t \in Txs, Unknown(t) \/ BumpRefused(t) PROVE RowsInv'
  BY <1>16, <1>18 DEF Unknown, BumpRefused
<1>19. CASE Crash
  BY <1>19, RowsReturn DEF Crash
<1> QED
  BY <1>1, <1>2, <1>3, <1>4, <1>5, <1>6, <1>7, <1>8, <1>9, <1>10, <1>11, <1>12,
     <1>13, <1>14, <1>15, <1>17, <1>18, <1>19
     DEF Next, Environment, Progress, Failure

(* The rows, the locals of a call and the node stay within their types.    *)
THEOREM RowsTyped == Spec => []TypeOK
<1>1. RowsInv => TypeOK
  BY DEF RowsInv
<1> QED
  BY <1>1, RowsInit, RowsStep, PTL DEF Spec

(* The rows of a payment are a chain with one open row, whatever fails and *)
(* wherever the process stops.                                             *)
THEOREM ChainOfRows == Spec => []OneOpenRow
<1>1. RowsInv => OneOpenRow
  BY DEF RowsInv, ChainInv, Open, OneOpenRow
<1> QED
  BY <1>1, RowsInit, RowsStep, PTL DEF Spec

(* The fee of a payment is raised at most MaxRetries times.                *)
THEOREM BumpsLimited == Spec => []BumpsBounded
<1>1. RowsInv => BumpsBounded
  BY DEF RowsInv
<1> QED
  BY <1>1, RowsInit, RowsStep, PTL DEF Spec

(* No step takes a row out of Completed, Failed or Replaced.               *)
THEOREM FinalStatuses == Spec => StatusesFinal
<1> DEFINE Final(t) == status[t] \in {"Completed", "Failed", "Replaced"}
           Keeps == \A t \in Txs : Final(t) => status'[t] = status[t]
<1>1. ASSUME RowsInv, [Next]_vars PROVE [Keeps]_vars
  <2>1. CASE UNCHANGED status
    BY <2>1
  <2>2. ASSUME NEW p \in Payments, NewPayment(p) PROVE Keeps
    BY <1>1, <2>2, TxFacts, VersionFacts DEF NewPayment, RowsInv, TypeOK, ChainInv
  <2>3. ASSUME NEW t \in Txs, Confirm(t) \/ GiveUp(t) \/ GiveUpNotMailed(t) PROVE Keeps
    <3>1. status[t] = "Pending"
      BY <1>1, <2>3 DEF Confirm, GiveUp, GiveUpNotMailed, RowsInv, LocalsInv
    <3> QED
      BY <1>1, <2>3, <3>1 DEF Confirm, GiveUp, GiveUpNotMailed, RowsInv, TypeOK
  <2>4. CASE SaveRBF
    <3>1. PICK p \in Payments, c \in Versions : cur = <<p, c>>
      BY <1>1, <2>4, TxFacts DEF RowsInv, LocalsInv, SaveRBF
    <3>2. /\ cur \in Txs /\ status[cur] = "Pending" /\ latest[p] = c + 1
          /\ c \in Nat /\ c + 1 \in Versions /\ c + 1 # None
      BY <1>1, <2>4, <3>1, VersionFacts DEF SaveRBF, RowsInv, LocalsInv
    <3>3. PICK v \in Versions : Open(p, v)
      BY <1>1, <3>2 DEF RowsInv, ChainInv
    <3>4. v = c
      BY <3>1, <3>2, <3>3, OpenIsUnique DEF Statuses
    <3>5. c + 1 > c
      BY <3>2
    <3>6. status[<<p, c + 1>>] = ""
      BY <3>2, <3>3, <3>4, <3>5 DEF Open
    <3> QED
      BY <1>1, <2>4, <3>1, <3>2, <3>6 DEF SaveRBF, RowsInv, TypeOK
  <2> QED
    BY <1>1, <2>1, <2>2, <2>3, <2>4
       DEF Next, Environment, Progress, Failure, Mine, DelayOver, Restart, Begin, Check,
           AllChecked, AllConfirmed, Skip, BumpFee, BumpReplyLost, Unknown, BumpRefused,
           AllRetried, RequestFails, UpdateFails, SaveFails, Crash, vars, rows
<1> QED
  BY <1>1, RowsInit, RowsStep, PTL DEF Spec, StatusesFinal

-----------------------------------------------------------------------------
(* What is about to be confirmed is in the chain, and stays there.         *)
MinedInv == \A t \in toConfirm : Mined(t)

LEMMA MinedStep ==
  ASSUME RowsInv, MinedInv, CompletedIsMined, [Next]_vars
  PROVE  MinedInv' /\ CompletedIsMined'
<1>1. ASSUME NEW t \in Txs, Mined(t) PROVE Mined(t)'
  <2>1. t[1] \in Payments /\ t[2] # None
    BY VersionFacts, TxFacts
  <2> QED
    BY <1>1, <2>1
       DEF Mined, Next, Environment, Progress, Failure, NewPayment, Mine, DelayOver, Restart,
           Begin, Check, AllChecked, Confirm, AllConfirmed, Skip, GiveUp, GiveUpNotMailed,
           BumpFee, BumpReplyLost, Replace, Unknown, BumpRefused, SaveRBF, AllRetried,
           RequestFails, UpdateFails, SaveFails, Crash, RowsInv, TypeOK, vars, chain
<1>2. \A t \in toConfirm' : t \in toConfirm \/ (t \in Txs /\ Mined(t))
  <2>1. CASE \E t \in Txs : Check(t)
    BY <2>1 DEF Check
  <2>2. CASE \E t \in Txs : Confirm(t)
    BY <2>2 DEF Confirm
  <2>3. CASE toConfirm' = {}
    BY <2>3
  <2>4. CASE toConfirm' = toConfirm
    BY <2>4
  <2>5. [Environment]_vars => toConfirm' = toConfirm
    BY DEF Environment, NewPayment, Mine, DelayOver, vars, lists
  <2>6. Failure => toConfirm' = {}
    BY DEF Failure, RequestFails, UpdateFails, SaveFails, Crash, GiveUpNotMailed,
           BumpReplyLost, Return
  <2>7. Progress => \/ \E t \in Txs : Check(t) \/ Confirm(t)
                    \/ toConfirm' = {} \/ toConfirm' = toConfirm
    BY DEF Progress, Restart, Begin, AllChecked, AllConfirmed, SaveRBF, AllRetried, Unknown,
           Skip, GiveUp, BumpFee, BumpRefused, Return, lists
  <2> QED
    BY <2>1, <2>2, <2>3, <2>4, <2>5, <2>6, <2>7 DEF Next
<1>3. toConfirm \subseteq Txs
  BY DEF RowsInv, TypeOK
<1>4. MinedInv'
  BY <1>1, <1>2, <1>3 DEF MinedInv
<1>5. ASSUME NEW t \in Txs, status'[t] = "Completed"
      PROVE  status[t] = "Completed" \/ t \in toConfirm
  BY <1>5 DEF Next, Environment, Progress, Failure, NewPayment, Mine, DelayOver, Restart,
         Begin, Check, AllChecked, Confirm, AllConfirmed, Skip, GiveUp, GiveUpNotMailed,
         BumpFee, BumpReplyLost, Unknown, BumpRefused, SaveRBF, AllRetried,
         RequestFails, UpdateFails, SaveFails, Crash, RowsInv, TypeOK, vars, rows
<1> QED
  BY <1>1, <1>4, <1>5 DEF MinedInv, CompletedIsMined

(* A row is Completed only if its transaction is in a block.               *)
THEOREM CompletedMined == Spec => []CompletedIsMined
<1>1. Init => MinedInv /\ CompletedIsMined
  BY DEF Init, MinedInv, CompletedIsMined
<1> QED
  BY <1>1, RowsInit, RowsStep, MinedStep, PTL DEF Spec
=============================================================================
