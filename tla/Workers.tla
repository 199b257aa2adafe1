------------------------------ MODULE Workers ------------------------------
(***************************************************************************)
(* The process: the two workers of cmd/aura-pay/main.go, each running      *)
(* worker.Start (worker.go) with its own service, the mutex they share,    *)
(* and the wallets of the Bitcoin node, which both services load, unlock,  *)
(* use, lock and unload (pay.go processFarm, retry.go retryTransaction,    *)
(* utils.go).  The requests that spend name no wallet: the node runs them  *)
(* on the only loaded one, and refuses them unless there is exactly one.   *)
(* What the services compute and record is in FarmPayments.                *)
(***************************************************************************)
EXTENDS Integers, FiniteSets

CONSTANTS
  Wallets,        \* one per farm
  Txs,            \* payments that may be pending
  WalletOf,       \* FarmBtcWalletName of each of them
  MaxErrors,      \* config.ServiceMaxErrorCount
  LoadFailLimit,  \* 15 in the code
  Faults          \* the kinds of failure that may happen

Workers  == {"pay", "retry"}
NoWallet == "no wallet"

FaultKinds == {"connect",  \* InitBtcRpcClient or InitDBConnection fails
               "query",    \* the first query of Execute fails
               "load",     \* LoadWallet fails, before or after the node loads
               "request",  \* a request between loading and unloading fails
               "unload",   \* UnloadWallet or WalletLock fails
               "mail",     \* sending an email fails: sendMail panics
               "node"}     \* the node restarts

ASSUME WorkersAssumption ==
  /\ NoWallet \notin Wallets
  /\ WalletOf \in [Txs -> Wallets]
  /\ MaxErrors \in Nat \ {0}
  /\ LoadFailLimit \in Nat \ {0}
  /\ Faults \subseteq FaultKinds

VARIABLES
  alive,      \* the process runs
  cancelled,  \* ctxCancel was called
  holder,     \* the workers that hold the mutex
  pc,         \* where each worker is
  left,       \* the farms or transactions its Execute has still to visit
  wallet,     \* the wallet it is working on
  failed,     \* Execute is returning an error
  errors,     \* errorCount
  loadFails,  \* btcWalletOpenFailsPerFarm
  loaded,     \* the node's loaded wallets
  unlocked,   \* those that are unlocked
  leftOpen    \* those it did not unload when asked to, or loaded unnoticed

local == <<left, wallet, failed, errors, loadFails>>
node  == <<loaded, unlocked, leftOpen>>
vars  == <<alive, cancelled, holder, pc, local, node>>

(* Inside Execute, between mutex.Lock and mutex.Unlock.                    *)
Executing == {"next", "load", "unlock", "spend", "lock", "unload"}

Init ==
  /\ alive = TRUE /\ cancelled = FALSE /\ holder = {}
  /\ pc = [w \in Workers |-> "start"]
  /\ left = [w \in Workers |-> {}]
  /\ wallet = [w \in Workers |-> NoWallet]
  /\ failed = [w \in Workers |-> FALSE]
  /\ errors = [w \in Workers |-> 0]
  /\ loadFails = [w \in Workers |-> [f \in Wallets |-> 0]]
  /\ loaded = {} /\ unlocked = {} /\ leftOpen = {}

Goto(w, label) == pc' = [pc EXCEPT ![w] = label]

-----------------------------------------------------------------------------
(* worker.Start *)

(* The outer loop ends when the context is cancelled.  The pay worker runs *)
(* in the main goroutine, so the process ends with it.                     *)
Leave(w) ==
  /\ pc[w] = "start" /\ cancelled
  /\ Goto(w, "done")
  /\ alive' = (w # "pay")
  /\ UNCHANGED <<cancelled, holder, local, node>>

Connect(w) ==
  /\ pc[w] = "start" /\ ~cancelled
  /\ Goto(w, "wait")
  /\ UNCHANGED <<alive, cancelled, holder, local, node>>

(* retry(err): wait for the delay or the cancellation and start again.     *)
ConnectFails(w) ==
  /\ "connect" \in Faults
  /\ pc[w] = "start" /\ ~cancelled
  /\ Goto(w, "delay")
  /\ UNCHANGED <<alive, cancelled, holder, local, node>>

DelayOver(w) ==
  /\ pc[w] = "delay"
  /\ Goto(w, "start")
  /\ UNCHANGED <<alive, cancelled, holder, local, node>>

(* select: when the ticker and the cancellation are both ready, either.    *)
Tick(w) ==
  /\ pc[w] = "wait"
  /\ Goto(w, "locking")
  /\ UNCHANGED <<alive, cancelled, holder, local, node>>

(* Mutant: the inner select does not listen to the context.                *)
SeeCancelled_Missing(w) == FALSE

SeeCancelled(w) ==
  /\ pc[w] = "wait" /\ cancelled
  /\ Goto(w, "start")
  /\ UNCHANGED <<alive, cancelled, holder, local, node>>

(* Mutant: the workers do not share the mutex.                             *)
MutexFree_Private(w) == w \notin holder

MutexFree(w) == holder = {}

(* What Execute visits: the farms (named by their wallets) or the pending  *)
(* transactions.                                                           *)
Jobs(w) == IF w = "pay" THEN Wallets ELSE Txs

(* mutex.Lock and the first queries of Execute: the approved farms, or the *)
(* pending transactions that have waited long enough.                      *)
Lock(w) ==
  /\ pc[w] = "locking"
  /\ MutexFree(w)
  /\ holder' = holder \cup {w}
  /\ Goto(w, "next")
  /\ \/ \E S \in SUBSET Jobs(w) : left' = [left EXCEPT ![w] = S] /\ UNCHANGED failed
     \/ "query" \in Faults /\ failed' = [failed EXCEPT ![w] = TRUE] /\ UNCHANGED left
  /\ UNCHANGED <<alive, cancelled, wallet, errors, loadFails, node>>

(* Mutant: the mutex is not unlocked when Execute returns an error.        *)
Unlock_NotOnError(w) ==
  /\ pc[w] = "next"
  /\ failed[w] \/ left[w] = {}
  /\ holder' = IF failed[w] THEN holder ELSE holder \ {w}
  /\ left' = [left EXCEPT ![w] = {}]
  /\ Goto(w, IF failed[w] THEN "error" ELSE "wait")
  /\ UNCHANGED <<alive, cancelled, wallet, failed, errors, loadFails, node>>

(* Execute returns and the mutex is unlocked.                              *)
Unlock(w) ==
  /\ pc[w] = "next"
  /\ failed[w] \/ left[w] = {}
  /\ holder' = holder \ {w}
  /\ left' = [left EXCEPT ![w] = {}]
  /\ Goto(w, IF failed[w] THEN "error" ELSE "wait")
  /\ UNCHANGED <<alive, cancelled, wallet, failed, errors, loadFails, node>>

(* errorCount is never reset; at the limit the context of both workers is  *)
(* cancelled.                                                              *)
HandleError(w) ==
  /\ pc[w] = "error"
  /\ errors' = [errors EXCEPT ![w] = IF @ < MaxErrors THEN @ + 1 ELSE @]
  /\ cancelled' = (cancelled \/ errors'[w] >= MaxErrors)
  /\ failed' = [failed EXCEPT ![w] = FALSE]
  /\ Goto(w, "start")
  /\ UNCHANGED <<alive, holder, left, wallet, loadFails, node>>

(* sendMail panics when the email cannot be sent.                          *)
MailFails(w) ==
  /\ "mail" \in Faults
  /\ pc[w] = "error"
  /\ alive' = FALSE
  /\ UNCHANGED <<cancelled, holder, pc, local, node>>

-----------------------------------------------------------------------------
(* One farm of PayService, or one transaction of RetryService. *)

(* Wallets the node unloads on request; a failure is only logged.          *)
UnloadResults(S) ==
  {loaded \ S} \cup (IF "unload" \in Faults THEN {loaded \ T : T \in SUBSET S} ELSE {})

(* PayService first unloads every wallet it finds loaded.                  *)
PickFarm(f) ==
  /\ pc["pay"] = "next" /\ ~failed["pay"] /\ f \in left["pay"]
  /\ left' = [left EXCEPT !["pay"] = @ \ {f}]
  /\ wallet' = [wallet EXCEPT !["pay"] = f]
  /\ loaded' \in UnloadResults(loaded)
  /\ unlocked' = unlocked \cap loaded'
  /\ leftOpen' = loaded'
  /\ Goto("pay", "load")
  /\ UNCHANGED <<alive, cancelled, holder, failed, errors, loadFails>>

(* validateFarm or listwallets fails: the next farm.                       *)
SkipFarm(f) ==
  /\ "request" \in Faults
  /\ pc["pay"] = "next" /\ ~failed["pay"] /\ f \in left["pay"]
  /\ left' = [left EXCEPT !["pay"] = @ \ {f}]
  /\ UNCHANGED <<alive, cancelled, holder, pc, wallet, failed, errors, loadFails, node>>

(* RetryService: a transaction whose retry count is not exceeded.          *)
PickTx(t) ==
  /\ pc["retry"] = "next" /\ ~failed["retry"] /\ t \in left["retry"]
  /\ left' = [left EXCEPT !["retry"] = @ \ {t}]
  /\ wallet' = [wallet EXCEPT !["retry"] = WalletOf[t]]
  /\ Goto("retry", "load")
  /\ UNCHANGED <<alive, cancelled, holder, failed, errors, loadFails, node>>

(* The retry count of the transaction is exceeded: the next one, unless    *)
(* its new status or the email fails.                                      *)
GiveUpTx(t) ==
  /\ pc["retry"] = "next" /\ ~failed["retry"] /\ t \in left["retry"]
  /\ left' = [left EXCEPT !["retry"] = @ \ {t}]
  /\ failed' \in {failed} \cup
       (IF "request" \in Faults THEN {[failed EXCEPT !["retry"] = TRUE]} ELSE {})
  /\ UNCHANGED <<alive, cancelled, holder, pc, wallet, errors, loadFails, node>>

LoadWallet(w) ==
  LET f == wallet[w] IN
  /\ pc[w] = "load"
  /\ f \notin loaded
  /\ loaded' = loaded \cup {f}
  /\ loadFails' = [loadFails EXCEPT ![w][f] = 0]
  /\ Goto(w, "unlock")
  /\ UNCHANGED <<alive, cancelled, holder, left, wallet, failed, errors, unlocked, leftOpen>>

(* A load that failed: the node has not loaded the wallet, or it has and   *)
(* its answer was lost.  Nobody will ask it to unload that one until       *)
(* PayService visits its next farm.                                        *)
LoadedUnnoticed(f) ==
  /\ loaded' \in {loaded} \cup (IF "load" \in Faults THEN {loaded \cup {f}} ELSE {})
  /\ leftOpen' = leftOpen \cup (loaded' \ loaded)
  /\ UNCHANGED unlocked

(* Mutants: the counter is not reset at the limit; loaded = false is not   *)
(* looked at.                                                              *)
LoadFails_NotReset(w) ==
  LET f == wallet[w]
      limit == loadFails[w][f] + 1 >= LoadFailLimit
  IN
  /\ pc[w] = "load"
  /\ f \in loaded \/ "load" \in Faults
  /\ loadFails' = [loadFails EXCEPT ![w][f] = @ + 1]
  /\ failed' = [failed EXCEPT ![w] = limit /\ w = "retry"]
  /\ wallet' = [wallet EXCEPT ![w] = NoWallet]
  /\ LoadedUnnoticed(f)
  /\ Goto(w, "next")
  /\ UNCHANGED <<alive, cancelled, holder, left, errors>>
LoadFails_GoesOn(w) ==
  LET f == wallet[w]
      limit == loadFails[w][f] + 1 >= LoadFailLimit
  IN
  /\ pc[w] = "load"
  /\ f \in loaded \/ "load" \in Faults
  /\ loadFails' = [loadFails EXCEPT ![w][f] = IF limit THEN 0 ELSE @ + 1]
  /\ failed' = [failed EXCEPT ![w] = limit /\ w = "retry"]
  /\ LoadedUnnoticed(f)
  /\ Goto(w, IF limit THEN "next" ELSE "unlock")
  /\ UNCHANGED <<alive, cancelled, holder, left, wallet, errors>>

(* Every LoadFailLimit-th failure in a row is an error: PayService logs it *)
(* and takes the next farm, RetryService returns it.                       *)
LoadFails(w) ==
  LET f == wallet[w]
      limit == loadFails[w][f] + 1 >= LoadFailLimit
  IN
  /\ pc[w] = "load"
  /\ f \in loaded \/ "load" \in Faults
  /\ loadFails' = [loadFails EXCEPT ![w][f] = IF limit THEN 0 ELSE @ + 1]
  /\ failed' = [failed EXCEPT ![w] = limit /\ w = "retry"]
  /\ wallet' = [wallet EXCEPT ![w] = NoWallet]
  /\ LoadedUnnoticed(f)
  /\ Goto(w, "next")
  /\ UNCHANGED <<alive, cancelled, holder, left, errors>>

(* WalletPassphrase, on the only loaded wallet.                            *)
UnlockWallet(w) ==
  /\ pc[w] = "unlock"
  /\ \E f \in Wallets : loaded = {f} /\ unlocked' = {f}
  /\ Goto(w, "spend")
  /\ UNCHANGED <<alive, cancelled, holder, local, loaded, leftOpen>>

(* Mutant: the unloading is deferred only after the wallet is unlocked.    *)
NotUnlocked_StaysLoaded(w) ==
  /\ pc[w] = "unlock"
  /\ \/ w = "pay" /\ UNCHANGED failed
     \/ /\ "request" \in Faults \/ loaded # {wallet[w]}
        /\ failed' = [failed EXCEPT ![w] = (w = "retry")]
  /\ wallet' = [wallet EXCEPT ![w] = NoWallet]
  /\ Goto(w, "next")
  /\ UNCHANGED <<alive, cancelled, holder, left, errors, loadFails, node>>

(* Nothing to do for the farm, or a request fails, before the unlocking.   *)
NotUnlocked(w) ==
  /\ pc[w] = "unlock"
  /\ \/ w = "pay" /\ UNCHANGED failed
     \/ /\ "request" \in Faults \/ loaded # {wallet[w]}
        /\ failed' = [failed EXCEPT ![w] = (w = "retry")]
  /\ Goto(w, "unload")
  /\ UNCHANGED <<alive, cancelled, holder, left, wallet, errors, loadFails, node>>

(* sendmany or bumpfee; PayService may send several times for one farm.    *)
Spend(w) ==
  /\ pc[w] = "spend"
  /\ \E f \in unlocked : loaded = {f}
  /\ Goto(w, IF w = "pay" THEN "spend" ELSE "lock")
  /\ UNCHANGED <<alive, cancelled, holder, local, node>>

(* The last output is processed, or an error ends the farm; an error ends  *)
(* Execute of RetryService.                                                *)
StopSpending(w) ==
  /\ pc[w] = "spend"
  /\ \/ w = "pay" /\ UNCHANGED failed
     \/ /\ w = "retry"
        /\ "request" \in Faults \/ loaded # unlocked \/ loaded = {}
        /\ failed' = [failed EXCEPT ![w] = TRUE]
  /\ Goto(w, "lock")
  /\ UNCHANGED <<alive, cancelled, holder, left, wallet, errors, loadFails, node>>

(* The deferred lockWallet and unloadWallet, in this order.                *)
LockWallet(w) ==
  /\ pc[w] = "lock"
  /\ unlocked' \in {IF \E f \in Wallets : loaded = {f} THEN {} ELSE unlocked}
                     \cup (IF "unload" \in Faults THEN {unlocked} ELSE {})
  /\ Goto(w, "unload")
  /\ UNCHANGED <<alive, cancelled, holder, local, loaded, leftOpen>>

UnloadWallet(w) ==
  /\ pc[w] = "unload"
  /\ loaded' \in UnloadResults({wallet[w]})
  /\ unlocked' = unlocked \cap loaded'
  /\ leftOpen' = loaded' \cap (leftOpen \cup {wallet[w]})
  /\ wallet' = [wallet EXCEPT ![w] = NoWallet]
  /\ Goto(w, "next")
  /\ UNCHANGED <<alive, cancelled, holder, left, failed, errors, loadFails>>

-----------------------------------------------------------------------------
(* The node locks a wallet 60 seconds after it was unlocked, and may       *)
(* restart with no wallet loaded.                                          *)
UnlockTimeout ==
  /\ unlocked # {}
  /\ unlocked' = {}
  /\ UNCHANGED <<alive, cancelled, holder, pc, local, loaded, leftOpen>>

NodeRestart ==
  /\ "node" \in Faults
  /\ loaded # {}
  /\ loaded' = {} /\ unlocked' = {} /\ leftOpen' = {}
  /\ UNCHANGED <<alive, cancelled, holder, pc, local>>

(* One step of a worker, but for the ticker.                               *)
Work(w) ==
  /\ alive
  /\ \/ Leave(w) \/ Connect(w) \/ ConnectFails(w) \/ DelayOver(w)
     \/ SeeCancelled(w) \/ Unlock(w) \/ HandleError(w) \/ MailFails(w)
     \/ w = "pay" /\ \E f \in Wallets : PickFarm(f) \/ SkipFarm(f)
     \/ w = "retry" /\ \E t \in Txs : PickTx(t) \/ GiveUpTx(t)
     \/ LoadWallet(w) \/ LoadFails(w) \/ UnlockWallet(w) \/ NotUnlocked(w)
     \/ StopSpending(w) \/ LockWallet(w) \/ UnloadWallet(w)

Next ==
  \/ \E w \in Workers : Work(w) \/ (alive /\ (Tick(w) \/ Lock(w) \/ Spend(w)))
  \/ UnlockTimeout
  \/ NodeRestart

Spec == Init /\ [][Next]_vars

(* Goroutines are scheduled; a select whose cancellation stays ready is    *)
(* not won by the ticker forever (SF on SeeCancelled); a waiter of the     *)
(* mutex gets it in the end (sync.Mutex hands it over after a millisecond  *)
(* of starvation); a farm has finitely many outputs.                       *)
FairSpec ==
  Spec /\ \A w \in Workers :
    /\ WF_vars(Work(w))
    /\ WF_vars(alive /\ Tick(w))
    /\ SF_vars(alive /\ SeeCancelled(w))
    /\ SF_vars(alive /\ Lock(w))
    /\ WF_vars(alive /\ Spend(w))
-----------------------------------------------------------------------------
(* Properties. *)

TypeOK ==
  /\ alive \in BOOLEAN /\ cancelled \in BOOLEAN
  /\ holder \subseteq Workers
  /\ pc \in [Workers -> Executing \cup {"start", "delay", "wait", "locking", "error", "done"}]
  /\ left \in [Workers -> SUBSET (Wallets \cup Txs)]
  /\ \A w \in Workers : left[w] \subseteq Jobs(w)
  /\ wallet \in [Workers -> Wallets \cup {NoWallet}]
  /\ \A w \in Workers : (wallet[w] # NoWallet) <=> (pc[w] \in Executing \ {"next"})
  /\ failed \in [Workers -> BOOLEAN]
  /\ errors \in [Workers -> 0 .. MaxErrors]
  /\ loadFails \in [Workers -> [Wallets -> 0 .. LoadFailLimit - 1]]
  /\ loaded \subseteq Wallets /\ unlocked \subseteq loaded /\ leftOpen \subseteq loaded

(* The two services never run at the same time (worker.go:60-62): both     *)
(* drive the one node, whose requests apply to whatever wallet is loaded.  *)
MutualExclusion ==
  \A v, w \in Workers : pc[v] \in Executing /\ pc[w] \in Executing => v = w

(* sendmany and bumpfee name no wallet.  When they can succeed, the wallet *)
(* they act on is the one of the farm the service is working on, whatever  *)
(* wallets earlier failures left loaded or unlocked (pay.go:88-109,        *)
(* retry.go:144-156).                                                      *)
SpendsOwnWallet ==
  \A w \in Workers : \A f \in Wallets :
    pc[w] = "spend" /\ loaded = {f} /\ f \in unlocked => f = wallet[w]

(* No wallet is loaded, and so none is unlocked, while the services are    *)
(* not at work, but for two kinds: those the node did not unload when it   *)
(* was asked to, and those it loaded while loadwallet reported an error,   *)
(* for which no unloading is deferred (pay_support.go:393-403).  On every  *)
(* other path out of the functions the deferred calls run                  *)
(* (pay.go:109,134, retry.go:148,154; "This ensures that the wallet is     *)
(* locked and unloaded even if an error occurs", retry.go:121).            *)
WalletsClosedWhenFree == holder = {} => loaded \subseteq leftOpen

(* A worker that waits for the mutex gets it, unless the process ends.     *)
LockGranted ==
  \A w \in Workers : (pc[w] = "locking") ~> (pc[w] \in Executing \/ ~alive)

(* Once either worker has called ctxCancel (worker.go:73) the process      *)
(* ends, also if the other one is waiting, connecting or at work.          *)
Shutdown == cancelled ~> ~alive
=============================================================================
