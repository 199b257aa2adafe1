---------------------------- MODULE WorkersProofs ----------------------------
(***************************************************************************)
(* Proofs about Workers, for any number of wallets and pending payments    *)
(* and any faults.                                                         *)
(***************************************************************************)
EXTENDS Workers, TLAPS

(* What the proofs need of pc when the rest of TypeOK does not matter.     *)
PcType == pc \in [Workers -> Executing \cup {"start", "delay", "wait", "locking", "error", "done"}]

LEMMA PcFollows == TypeOK => PcType
BY DEF TypeOK, PcType

-----------------------------------------------------------------------------
LEMMA TypeInit == Init => TypeOK
<1> SUFFICES ASSUME Init PROVE TypeOK
  OBVIOUS
<1>1. 0 \in 0 .. MaxErrors /\ 0 \in 0 .. LoadFailLimit - 1
  BY WorkersAssumption
<1>2. loadFails \in [Workers -> [Wallets -> 0 .. LoadFailLimit - 1]]
  BY <1>1 DEF Init
<1>3. errors \in [Workers -> 0 .. MaxErrors]
  BY <1>1 DEF Init
<1> QED
  BY <1>2, <1>3 DEF Init, TypeOK, Executing

(* A failure counter set to a value below the limit.                       *)
LEMMA CounterSet ==
  ASSUME TypeOK, NEW w \in Workers, NEW f, NEW n \in 0 .. LoadFailLimit - 1
  PROVE  [loadFails EXCEPT ![w][f] = n] \in [Workers -> [Wallets -> 0 .. LoadFailLimit - 1]]
<1>1. [loadFails[w] EXCEPT ![f] = n] \in [Wallets -> 0 .. LoadFailLimit - 1]
  BY DEF TypeOK
<1> QED
  BY <1>1 DEF TypeOK

LEMMA TypeStep ==
  TypeOK /\ [Next]_vars => TypeOK'
<1> SUFFICES ASSUME TypeOK, [Next]_vars PROVE TypeOK'
  OBVIOUS
<1>0. CASE UNCHANGED vars
  BY <1>0 DEF TypeOK, vars, local, node, Executing, Jobs
<1>1. ASSUME NEW w \in Workers, Leave(w) PROVE TypeOK'
  BY <1>1, WorkersAssumption
     DEF TypeOK, Leave, Goto, local, node, Executing, Jobs
<1>2. ASSUME NEW w \in Workers, Connect(w) PROVE TypeOK'
  BY <1>2, WorkersAssumption
     DEF TypeOK, Connect, Goto, local, node, Executing, Jobs
<1>3. ASSUME NEW w \in Workers, ConnectFails(w) PROVE TypeOK'
  BY <1>3, WorkersAssumption
     DEF TypeOK, ConnectFails, Goto, local, node, Executing, Jobs
<1>4. ASSUME NEW w \in Workers, DelayOver(w) PROVE TypeOK'
  BY <1>4, WorkersAssumption
     DEF TypeOK, DelayOver, Goto, local, node, Executing, Jobs
<1>5. ASSUME NEW w \in Workers, SeeCancelled(w) PROVE TypeOK'
  BY <1>5, WorkersAssumption
     DEF TypeOK, SeeCancelled, Goto, local, node, Executing, Jobs
<1>6. ASSUME NEW w \in Workers, Unlock(w) PROVE TypeOK'
  BY <1>6, WorkersAssumption
     DEF TypeOK, Unlock, Goto, local, node, Executing, Jobs
<1>7. ASSUME NEW w \in Workers, HandleError(w) PROVE TypeOK'
  BY <1>7, WorkersAssumption
     DEF TypeOK, HandleError, Goto, local, node, Executing, Jobs
<1>8. ASSUME NEW w \in Workers, MailFails(w) PROVE TypeOK'
  BY <1>8, WorkersAssumption DEF TypeOK, MailFails, local, node, Executing, Jobs
<1>9. ASSUME NEW w \in Workers, LoadWallet(w) PROVE TypeOK'
  <2>1. loadFails' \in [Workers -> [Wallets -> 0 .. LoadFailLimit - 1]]
    BY <1>9, CounterSet, WorkersAssumption DEF LoadWallet
  <2>2. wallet[w] \in Wallets
    BY <1>9 DEF TypeOK, LoadWallet, Executing
  <2> QED
    BY <1>9, <2>1, <2>2 DEF TypeOK, LoadWallet, Goto, Executing, Jobs
<1>10. ASSUME NEW w \in Workers, LoadFails(w) PROVE TypeOK'
  <2> DEFINE limit == loadFails[w][wallet[w]] + 1 >= LoadFailLimit
             n == IF limit THEN 0 ELSE loadFails[w][wallet[w]] + 1
  <2>1. wallet[w] \in Wallets
    BY <1>10 DEF TypeOK, LoadFails, Executing
  <2>2. loadFails[w][wallet[w]] \in 0 .. LoadFailLimit - 1
    BY <2>1 DEF TypeOK
  <2>3. n \in 0 .. LoadFailLimit - 1
    BY <2>2, WorkersAssumption
  <2>4. loadFails' = [loadFails EXCEPT ![w][wallet[w]] = n]
    BY <1>10 DEF LoadFails
  <2>5. loadFails' \in [Workers -> [Wallets -> 0 .. LoadFailLimit - 1]]
    BY <2>3, <2>4, CounterSet
  <2>6. failed' \in [Workers -> BOOLEAN]
    BY <1>10, Zenon DEF TypeOK, LoadFails
  <2>7. loaded' \subseteq Wallets /\ unlocked' \subseteq loaded' /\ leftOpen' \subseteq loaded'
    BY <1>10, <2>1 DEF TypeOK, LoadFails, LoadedUnnoticed
  <2> QED
    BY <1>10, <2>5, <2>6, <2>7 DEF TypeOK, LoadFails, Goto, Executing, Jobs
<1>11. ASSUME NEW w \in Workers, UnlockWallet(w) PROVE TypeOK'
  BY <1>11, WorkersAssumption
     DEF TypeOK, UnlockWallet, Goto, local, node, Executing, Jobs
<1>12. ASSUME NEW w \in Workers, NotUnlocked(w) PROVE TypeOK'
  BY <1>12, WorkersAssumption
     DEF TypeOK, NotUnlocked, Goto, local, node, Executing, Jobs
<1>13. ASSUME NEW w \in Workers, StopSpending(w) PROVE TypeOK'
  BY <1>13, WorkersAssumption
     DEF TypeOK, StopSpending, Goto, local, node, Executing, Jobs
<1>14. ASSUME NEW w \in Workers, LockWallet(w) PROVE TypeOK'
  BY <1>14, WorkersAssumption
     DEF TypeOK, LockWallet, Goto, local, node, Executing, Jobs
<1>15. ASSUME NEW w \in Workers, UnloadWallet(w) PROVE TypeOK'
  BY <1>15, WorkersAssumption
     DEF TypeOK, UnloadWallet, Goto, local, node, Executing, Jobs,
         UnloadResults
<1>16. ASSUME NEW w \in Workers, Tick(w) PROVE TypeOK'
  BY <1>16, WorkersAssumption
     DEF TypeOK, Tick, Goto, local, node, Executing, Jobs
<1>17. ASSUME NEW w \in Workers, Lock(w) PROVE TypeOK'
  <2>1. failed' \in [Workers -> BOOLEAN]
    BY <1>17 DEF TypeOK, Lock
  <2>2. left' \in [Workers -> SUBSET (Wallets \cup Txs)]
        /\ \A v \in Workers : left'[v] \subseteq Jobs(v)
    BY <1>17 DEF TypeOK, Lock, Jobs
  <2> QED
    BY <1>17, <2>1, <2>2 DEF TypeOK, Lock, Goto, Executing, node
<1>18. ASSUME NEW w \in Workers, Spend(w) PROVE TypeOK'
  BY <1>18, WorkersAssumption
     DEF TypeOK, Spend, Goto, local, node, Executing, Jobs
<1>19. ASSUME NEW f \in Wallets, PickFarm(f) PROVE TypeOK'
  BY <1>19, WorkersAssumption
     DEF TypeOK, PickFarm, Goto, local, node, Executing, Jobs, UnloadResults
<1>20. ASSUME NEW f \in Wallets, SkipFarm(f) PROVE TypeOK'
  BY <1>20, WorkersAssumption DEF TypeOK, SkipFarm, local, node, Executing, Jobs
<1>21. ASSUME NEW t \in Txs, PickTx(t) PROVE TypeOK'
  <2>1. WalletOf[t] \in Wallets /\ WalletOf[t] # NoWallet
    BY WorkersAssumption
  <2> QED
    BY <1>21, <2>1 DEF TypeOK, PickTx, Goto, node, Executing, Jobs
<1>22. ASSUME NEW t \in Txs, GiveUpTx(t) PROVE TypeOK'
  BY <1>22, WorkersAssumption DEF TypeOK, GiveUpTx, local, node, Executing, Jobs
<1>23. CASE UnlockTimeout
  BY <1>23 DEF TypeOK, UnlockTimeout, local, node, Executing, Jobs
<1>24. CASE NodeRestart
  BY <1>24 DEF TypeOK, NodeRestart, local, node, Executing, Jobs
<1> QED
  BY <1>0, <1>1, <1>2, <1>3, <1>4, <1>5, <1>6, <1>7, <1>8, <1>9, <1>10, <1>11,
     <1>12, <1>13, <1>14, <1>15, <1>16, <1>17, <1>18, <1>19, <1>20, <1>21,
     <1>22, <1>23, <1>24
     DEF Next, Work

(* The state of both workers and of the node stays within its types, the   *)
(* error and failure counters within their limits.                         *)
THEOREM TypeCorrect == Spec => []TypeOK
BY TypeInit, TypeStep, PTL DEF Spec

-----------------------------------------------------------------------------
(* The inductive form of MutualExclusion: whoever executes holds the mutex *)
(* and is alone.                                                           *)
MutexInv ==
  /\ \A w \in Workers : pc[w] \in Executing => w \in holder
  /\ MutualExclusion

LEMMA MutexStep ==
  TypeOK /\ MutexInv /\ [Next]_vars => MutexInv'
<1> SUFFICES ASSUME TypeOK, MutexInv, [Next]_vars PROVE MutexInv'
  OBVIOUS
<1>0. CASE UNCHANGED vars
  BY <1>0 DEF MutexInv, vars, local, node, MutualExclusion, Executing
<1>1. ASSUME NEW w \in Workers, Leave(w) PROVE MutexInv'
  BY <1>1, PcFollows
     DEF MutexInv, Leave, Goto, local, node, MutualExclusion, Executing,
         PcType
<1>2. ASSUME NEW w \in Workers, Connect(w) PROVE MutexInv'
  BY <1>2, PcFollows
     DEF MutexInv, Connect, Goto, local, node, MutualExclusion, Executing,
         PcType
<1>3. ASSUME NEW w \in Workers, ConnectFails(w) PROVE MutexInv'
  BY <1>3, PcFollows
     DEF MutexInv, ConnectFails, Goto, local, node, MutualExclusion,
         Executing, PcType
<1>4. ASSUME NEW w \in Workers, DelayOver(w) PROVE MutexInv'
  BY <1>4, PcFollows
     DEF MutexInv, DelayOver, Goto, local, node, MutualExclusion, Executing,
         PcType
<1>5. ASSUME NEW w \in Workers, SeeCancelled(w) PROVE MutexInv'
  BY <1>5, PcFollows
     DEF MutexInv, SeeCancelled, Goto, local, node, MutualExclusion,
         Executing, PcType
<1>6. ASSUME NEW w \in Workers, Unlock(w) PROVE MutexInv'
  BY <1>6, PcFollows
     DEF MutexInv, Unlock, Goto, local, node, MutualExclusion, Executing,
         PcType
<1>7. ASSUME NEW w \in Workers, HandleError(w) PROVE MutexInv'
  BY <1>7, PcFollows
     DEF MutexInv, HandleError, Goto, local, node, MutualExclusion, Executing,
         PcType
<1>8. ASSUME NEW w \in Workers, MailFails(w) PROVE MutexInv'
  BY <1>8, PcFollows
     DEF MutexInv, MailFails, local, node, MutualExclusion, Executing, PcType
<1>9. ASSUME NEW w \in Workers, LoadWallet(w) PROVE MutexInv'
  BY <1>9, PcFollows
     DEF MutexInv, LoadWallet, Goto, local, node, MutualExclusion, Executing,
         PcType
<1>10. ASSUME NEW w \in Workers, LoadFails(w) PROVE MutexInv'
  BY <1>10, PcFollows
     DEF MutexInv, LoadFails, Goto, local, node, MutualExclusion, Executing,
         PcType
<1>11. ASSUME NEW w \in Workers, UnlockWallet(w) PROVE MutexInv'
  BY <1>11, PcFollows
     DEF MutexInv, UnlockWallet, Goto, local, node, MutualExclusion,
         Executing, PcType
<1>12. ASSUME NEW w \in Workers, NotUnlocked(w) PROVE MutexInv'
  BY <1>12, PcFollows
     DEF MutexInv, NotUnlocked, Goto, local, node, MutualExclusion, Executing,
         PcType
<1>13. ASSUME NEW w \in Workers, StopSpending(w) PROVE MutexInv'
  BY <1>13, PcFollows
     DEF MutexInv, StopSpending, Goto, local, node, MutualExclusion,
         Executing, PcType
<1>14. ASSUME NEW w \in Workers, LockWallet(w) PROVE MutexInv'
  BY <1>14, PcFollows
     DEF MutexInv, LockWallet, Goto, local, node, MutualExclusion, Executing,
         PcType
<1>15. ASSUME NEW w \in Workers, UnloadWallet(w) PROVE MutexInv'
  BY <1>15, PcFollows
     DEF MutexInv, UnloadWallet, Goto, local, node, MutualExclusion,
         Executing, PcType
<1>16. ASSUME NEW w \in Workers, Tick(w) PROVE MutexInv'
  BY <1>16, PcFollows
     DEF MutexInv, Tick, Goto, local, node, MutualExclusion, Executing, PcType
<1>17. ASSUME NEW w \in Workers, Lock(w) PROVE MutexInv'
  BY <1>17, PcFollows
     DEF MutexInv, Lock, Goto, local, node, MutualExclusion, Executing,
         PcType, MutexFree
<1>18. ASSUME NEW w \in Workers, Spend(w) PROVE MutexInv'
  BY <1>18, PcFollows
     DEF MutexInv, Spend, Goto, local, node, MutualExclusion, Executing,
         PcType
<1>19. ASSUME NEW f \in Wallets, PickFarm(f) PROVE MutexInv'
  BY <1>19, PcFollows
     DEF MutexInv, PickFarm, Goto, local, node, MutualExclusion, Executing,
         PcType
<1>20. ASSUME NEW f \in Wallets, SkipFarm(f) PROVE MutexInv'
  BY <1>20, PcFollows
     DEF MutexInv, SkipFarm, local, node, MutualExclusion, Executing, PcType
<1>21. ASSUME NEW t \in Txs, PickTx(t) PROVE MutexInv'
  BY <1>21, PcFollows
     DEF MutexInv, PickTx, Goto, local, node, MutualExclusion, Executing,
         PcType
<1>22. ASSUME NEW t \in Txs, GiveUpTx(t) PROVE MutexInv'
  BY <1>22, PcFollows
     DEF MutexInv, GiveUpTx, local, node, MutualExclusion, Executing, PcType
<1>23. CASE UnlockTimeout
  BY <1>23 DEF MutexInv, UnlockTimeout, local, node, MutualExclusion, Executing
<1>24. CASE NodeRestart
  BY <1>24 DEF MutexInv, NodeRestart, local, node, MutualExclusion, Executing
<1> QED
  BY <1>0, <1>1, <1>2, <1>3, <1>4, <1>5, <1>6, <1>7, <1>8, <1>9, <1>10, <1>11,
     <1>12, <1>13, <1>14, <1>15, <1>16, <1>17, <1>18, <1>19, <1>20, <1>21,
     <1>22, <1>23, <1>24
     DEF Next, Work

(* The services exclude each other (worker.go:60-62), whatever fails.      *)
THEOREM Exclusion == Spec => []MutualExclusion
<1>1. Init => MutexInv
  BY DEF Init, MutexInv, MutualExclusion, Executing
<1>2. MutexInv => MutualExclusion
  BY DEF MutexInv
<1> QED
  BY <1>1, <1>2, MutexStep, TypeCorrect, PTL DEF Spec

-----------------------------------------------------------------------------
(* Between loading and unloading, the wallet a service works on is loaded, *)
(* unless the node has restarted since and has none.                       *)
Open == {"unlock", "spend", "lock", "unload"}

OwnWallet ==
  \A w \in Workers :
    pc[w] \in Open => loaded = {} \/ wallet[w] \in loaded

LEMMA OwnStep ==
  TypeOK /\ MutexInv /\ OwnWallet /\ [Next]_vars => OwnWallet'
<1> SUFFICES ASSUME TypeOK, MutexInv, OwnWallet, [Next]_vars PROVE OwnWallet'
  OBVIOUS
<1>0. CASE UNCHANGED vars
  BY <1>0 DEF OwnWallet, vars, local, node, Open
<1>1. ASSUME NEW w \in Workers, Leave(w) PROVE OwnWallet'
  BY <1>1, PcFollows
     DEF OwnWallet, Leave, Goto, local, node, Open, PcType, MutexInv,
         MutualExclusion, Executing
<1>2. ASSUME NEW w \in Workers, Connect(w) PROVE OwnWallet'
  BY <1>2, PcFollows
     DEF OwnWallet, Connect, Goto, local, node, Open, PcType, MutexInv,
         MutualExclusion, Executing
<1>3. ASSUME NEW w \in Workers, ConnectFails(w) PROVE OwnWallet'
  BY <1>3, PcFollows
     DEF OwnWallet, ConnectFails, Goto, local, node, Open, PcType, MutexInv,
         MutualExclusion, Executing
<1>4. ASSUME NEW w \in Workers, DelayOver(w) PROVE OwnWallet'
  BY <1>4, PcFollows
     DEF OwnWallet, DelayOver, Goto, local, node, Open, PcType, MutexInv,
         MutualExclusion, Executing
<1>5. ASSUME NEW w \in Workers, SeeCancelled(w) PROVE OwnWallet'
  BY <1>5, PcFollows
     DEF OwnWallet, SeeCancelled, Goto, local, node, Open, PcType, MutexInv,
         MutualExclusion, Executing
<1>6. ASSUME NEW w \in Workers, Unlock(w) PROVE OwnWallet'
  BY <1>6, PcFollows
     DEF OwnWallet, Unlock, Goto, local, node, Open, PcType, MutexInv,
         MutualExclusion, Executing
<1>7. ASSUME NEW w \in Workers, HandleError(w) PROVE OwnWallet'
  BY <1>7, PcFollows
     DEF OwnWallet, HandleError, Goto, local, node, Open, PcType, MutexInv,
         MutualExclusion, Executing
<1>8. ASSUME NEW w \in Workers, MailFails(w) PROVE OwnWallet'
  BY <1>8, PcFollows
     DEF OwnWallet, MailFails, local, node, Open, PcType, MutexInv,
         MutualExclusion, Executing
<1>9. ASSUME NEW w \in Workers, LoadWallet(w) PROVE OwnWallet'
  BY <1>9, PcFollows
     DEF OwnWallet, LoadWallet, Goto, local, node, Open, PcType, MutexInv,
         MutualExclusion, Executing
<1>10. ASSUME NEW w \in Workers, LoadFails(w) PROVE OwnWallet'
  <2>1. pc' = [pc EXCEPT ![w] = "next"] /\ pc[w] \in Executing
    BY <1>10 DEF LoadFails, Goto, Executing
  <2>2. \A v \in Workers : v # w => pc[v] \notin Executing
    BY <2>1 DEF MutexInv, MutualExclusion
  <2> QED
    BY <2>1, <2>2, PcFollows DEF PcType, OwnWallet, Open, Executing
<1>11. ASSUME NEW w \in Workers, UnlockWallet(w) PROVE OwnWallet'
  BY <1>11, PcFollows
     DEF OwnWallet, UnlockWallet, Goto, local, node, Open, PcType, MutexInv,
         MutualExclusion, Executing
<1>12. ASSUME NEW w \in Workers, NotUnlocked(w) PROVE OwnWallet'
  BY <1>12, PcFollows
     DEF OwnWallet, NotUnlocked, Goto, local, node, Open, PcType, MutexInv,
         MutualExclusion, Executing
<1>13. ASSUME NEW w \in Workers, StopSpending(w) PROVE OwnWallet'
  BY <1>13, PcFollows
     DEF OwnWallet, StopSpending, Goto, local, node, Open, PcType, MutexInv,
         MutualExclusion, Executing
<1>14. ASSUME NEW w \in Workers, LockWallet(w) PROVE OwnWallet'
  BY <1>14, PcFollows
     DEF OwnWallet, LockWallet, Goto, local, node, Open, PcType, MutexInv,
         MutualExclusion, Executing
<1>15. ASSUME NEW w \in Workers, UnloadWallet(w) PROVE OwnWallet'
  BY <1>15, PcFollows
     DEF OwnWallet, UnloadWallet, Goto, local, node, Open, UnloadResults,
         PcType, MutexInv, MutualExclusion, Executing
<1>16. ASSUME NEW w \in Workers, Tick(w) PROVE OwnWallet'
  BY <1>16, PcFollows
     DEF OwnWallet, Tick, Goto, local, node, Open, PcType, MutexInv,
         MutualExclusion, Executing
<1>17. ASSUME NEW w \in Workers, Lock(w) PROVE OwnWallet'
  BY <1>17, PcFollows
     DEF OwnWallet, Lock, Goto, local, node, Open, PcType, MutexInv,
         MutualExclusion, Executing
<1>18. ASSUME NEW w \in Workers, Spend(w) PROVE OwnWallet'
  BY <1>18, PcFollows
     DEF OwnWallet, Spend, Goto, local, node, Open, PcType, MutexInv,
         MutualExclusion, Executing
<1>19. ASSUME NEW f \in Wallets, PickFarm(f) PROVE OwnWallet'
  <2>1. pc' = [pc EXCEPT !["pay"] = "load"] /\ pc["pay"] \in Executing
    BY <1>19 DEF PickFarm, Goto, Executing
  <2>2. pc["retry"] \notin Executing
    BY <2>1 DEF MutexInv, MutualExclusion, Workers
  <2> QED
    BY <2>1, <2>2, PcFollows DEF PcType, OwnWallet, Open, Executing, Workers
<1>20. ASSUME NEW f \in Wallets, SkipFarm(f) PROVE OwnWallet'
  BY <1>20, PcFollows
     DEF OwnWallet, SkipFarm, local, node, Open, PcType, MutexInv,
         MutualExclusion, Executing
<1>21. ASSUME NEW t \in Txs, PickTx(t) PROVE OwnWallet'
  BY <1>21, PcFollows
     DEF OwnWallet, PickTx, Goto, local, node, Open, PcType, MutexInv,
         MutualExclusion, Executing
<1>22. ASSUME NEW t \in Txs, GiveUpTx(t) PROVE OwnWallet'
  BY <1>22, PcFollows
     DEF OwnWallet, GiveUpTx, local, node, Open, PcType, MutexInv,
         MutualExclusion, Executing
<1>23. CASE UnlockTimeout
  BY <1>23 DEF OwnWallet, UnlockTimeout, local, node, Open
<1>24. CASE NodeRestart
  BY <1>24 DEF OwnWallet, NodeRestart, local, node, Open
<1> QED
  BY <1>0, <1>1, <1>2, <1>3, <1>4, <1>5, <1>6, <1>7, <1>8, <1>9, <1>10, <1>11,
     <1>12, <1>13, <1>14, <1>15, <1>16, <1>17, <1>18, <1>19, <1>20, <1>21,
     <1>22, <1>23, <1>24
     DEF Next, Work

(* No request spends from a wallet that is not the one of the farm the     *)
(* service is working on.                                                  *)
THEOREM OwnWalletSpent == Spec => []SpendsOwnWallet
<1>1. Init => MutexInv /\ OwnWallet
  BY DEF Init, MutexInv, MutualExclusion, OwnWallet, Executing, Open
<1>2. OwnWallet => SpendsOwnWallet
  BY DEF OwnWallet, SpendsOwnWallet, Open
<1> QED
  BY <1>1, <1>2, MutexStep, OwnStep, TypeCorrect, PTL DEF Spec

-----------------------------------------------------------------------------
(* Every loaded wallet that is not left open is in the hands of a service  *)
(* that will unload it.                                                    *)
ClosedInv == \A f \in loaded \ leftOpen : \E w \in Workers : pc[w] \in Open /\ wallet[w] = f

LEMMA ClosedStep ==
  TypeOK /\ ClosedInv /\ [Next]_vars => ClosedInv'
<1> SUFFICES ASSUME TypeOK, ClosedInv, [Next]_vars PROVE ClosedInv'
  OBVIOUS
<1>0. CASE UNCHANGED vars
  BY <1>0 DEF ClosedInv, vars, local, node, Open
<1>1. ASSUME NEW w \in Workers, Leave(w) PROVE ClosedInv'
  BY <1>1, PcFollows DEF ClosedInv, Leave, Goto, local, node, Open, PcType
<1>2. ASSUME NEW w \in Workers, Connect(w) PROVE ClosedInv'
  BY <1>2, PcFollows DEF ClosedInv, Connect, Goto, local, node, Open, PcType
<1>3. ASSUME NEW w \in Workers, ConnectFails(w) PROVE ClosedInv'
  BY <1>3, PcFollows
     DEF ClosedInv, ConnectFails, Goto, local, node, Open, PcType
<1>4. ASSUME NEW w \in Workers, DelayOver(w) PROVE ClosedInv'
  BY <1>4, PcFollows DEF ClosedInv, DelayOver, Goto, local, node, Open, PcType
<1>5. ASSUME NEW w \in Workers, SeeCancelled(w) PROVE ClosedInv'
  BY <1>5, PcFollows
     DEF ClosedInv, SeeCancelled, Goto, local, node, Open, PcType
<1>6. ASSUME NEW w \in Workers, Unlock(w) PROVE ClosedInv'
  BY <1>6, PcFollows DEF ClosedInv, Unlock, Goto, local, node, Open, PcType
<1>7. ASSUME NEW w \in Workers, HandleError(w) PROVE ClosedInv'
  BY <1>7, PcFollows DEF ClosedInv, HandleError, Goto, local, node, Open, PcType
<1>8. ASSUME NEW w \in Workers, MailFails(w) PROVE ClosedInv'
  BY <1>8, PcFollows DEF ClosedInv, MailFails, local, node, Open, PcType
<1>9. ASSUME NEW w \in Workers, LoadWallet(w) PROVE ClosedInv'
  BY <1>9, PcFollows DEF ClosedInv, LoadWallet, Goto, local, node, Open, PcType
<1>10. ASSUME NEW w \in Workers, LoadFails(w) PROVE ClosedInv'
  BY <1>10, PcFollows DEF ClosedInv, LoadFails, LoadedUnnoticed, Goto, Open, PcType
<1>11. ASSUME NEW w \in Workers, UnlockWallet(w) PROVE ClosedInv'
  BY <1>11, PcFollows
     DEF ClosedInv, UnlockWallet, Goto, local, node, Open, PcType
<1>12. ASSUME NEW w \in Workers, NotUnlocked(w) PROVE ClosedInv'
  BY <1>12, PcFollows
     DEF ClosedInv, NotUnlocked, Goto, local, node, Open, PcType
<1>13. ASSUME NEW w \in Workers, StopSpending(w) PROVE ClosedInv'
  BY <1>13, PcFollows
     DEF ClosedInv, StopSpending, Goto, local, node, Open, PcType
<1>14. ASSUME NEW w \in Workers, LockWallet(w) PROVE ClosedInv'
  BY <1>14, PcFollows DEF ClosedInv, LockWallet, Goto, local, node, Open, PcType
<1>15. ASSUME NEW w \in Workers, UnloadWallet(w) PROVE ClosedInv'
  BY <1>15, PcFollows
     DEF ClosedInv, UnloadWallet, Goto, local, node, Open, UnloadResults,
         PcType
<1>16. ASSUME NEW w \in Workers, Tick(w) PROVE ClosedInv'
  BY <1>16, PcFollows DEF ClosedInv, Tick, Goto, local, node, Open, PcType
<1>17. ASSUME NEW w \in Workers, Lock(w) PROVE ClosedInv'
  BY <1>17, PcFollows DEF ClosedInv, Lock, Goto, local, node, Open, PcType
<1>18. ASSUME NEW w \in Workers, Spend(w) PROVE ClosedInv'
  BY <1>18, PcFollows DEF ClosedInv, Spend, Goto, local, node, Open, PcType
<1>19. ASSUME NEW f \in Wallets, PickFarm(f) PROVE ClosedInv'
  BY <1>19, PcFollows
     DEF ClosedInv, PickFarm, Goto, local, node, Open, UnloadResults, PcType
<1>20. ASSUME NEW f \in Wallets, SkipFarm(f) PROVE ClosedInv'
  BY <1>20, PcFollows DEF ClosedInv, SkipFarm, local, node, Open, PcType
<1>21. ASSUME NEW t \in Txs, PickTx(t) PROVE ClosedInv'
  BY <1>21, PcFollows DEF ClosedInv, PickTx, Goto, local, node, Open, PcType
<1>22. ASSUME NEW t \in Txs, GiveUpTx(t) PROVE ClosedInv'
  BY <1>22, PcFollows DEF ClosedInv, GiveUpTx, local, node, Open, PcType
<1>23. CASE UnlockTimeout
  BY <1>23 DEF ClosedInv, UnlockTimeout, local, node, Open
<1>24. CASE NodeRestart
  BY <1>24 DEF ClosedInv, NodeRestart, local, node, Open
<1> QED
  BY <1>0, <1>1, <1>2, <1>3, <1>4, <1>5, <1>6, <1>7, <1>8, <1>9, <1>10, <1>11,
     <1>12, <1>13, <1>14, <1>15, <1>16, <1>17, <1>18, <1>19, <1>20, <1>21,
     <1>22, <1>23, <1>24
     DEF Next, Work

(* On every path through the services, the wallets are closed when the     *)
(* mutex is free, but for those the node refused to unload and those it    *)
(* loaded while it reported a failure.                                     *)
THEOREM WalletsClosed == Spec => []WalletsClosedWhenFree
<1>1. Init => MutexInv /\ ClosedInv
  BY DEF Init, MutexInv, MutualExclusion, ClosedInv, Executing
<1>2. MutexInv /\ ClosedInv => WalletsClosedWhenFree
  BY DEF MutexInv, ClosedInv, WalletsClosedWhenFree, Open, Executing
<1>3. TypeOK /\ ClosedInv /\ [Next]_vars => ClosedInv'
  BY ClosedStep
<1> QED
  BY <1>1, <1>2, <1>3, MutexStep, TypeCorrect, PTL DEF Spec
=============================================================================
