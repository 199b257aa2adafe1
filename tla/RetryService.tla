---------------------------- MODULE RetryService ----------------------------
(***************************************************************************)
(* RetryService.Execute (services/retry.go) and the table                  *)
(* statistics_tx_hash_status: payments that were sent are Pending until    *)
(* they are in a block (Completed); the fee of one that waits too long is  *)
(* raised by a replacement (the old row becomes Replaced, the new one is   *)
(* Pending), at most MaxRetries times (then Failed).  The node and the     *)
(* miners go their own way between any two steps.  PayService adds         *)
(* payments; it never runs at the same time (MutualExclusion of Workers),  *)
(* and loading and unlocking wallets is in Workers too.                    *)
(***************************************************************************)
EXTENDS Integers, FiniteSets

CONSTANTS
  Payments,    \* calls of sendmany
  MaxRetries,  \* config.RBFTransactionRetryMaxCount
  Faults       \* the kinds of failure that may happen

FaultKinds == {"node",      \* a request fails before it has an effect
               "db",        \* an update of one status fails
               "mail",      \* the email about a failed transaction is not sent
               "lostReply", \* bumpfee is executed and its reply never arrives
               "save",      \* SaveRBFTransactionInformation is rolled back
               "crash",     \* the process stops
               "oldMined"}  \* miners may take a transaction that was replaced

ASSUME RetryAssumption == MaxRetries \in Nat /\ Faults \subseteq FaultKinds

(* The transactions of a payment: version 0 by sendmany, then one for each *)
(* replacement.                                                            *)
Versions == 0 .. MaxRetries + 1
Txs      == Payments \X Versions
None     == -1

Statuses == {"Pending", "Completed", "Failed", "Replaced"}

VARIABLES
  latest,     \* the node: the last version of each payment that was broadcast
  mined,      \* the chain: the version that is in a block
  status,     \* the rows of statistics_tx_hash_status ("" for no row)
  retries,    \* their retry_count
  waited,     \* rows sent at least RBFTransactionRetryDelayInSeconds ago
  pc,         \* where Execute is
  todo,       \* unconfirmedTransactionHashes not yet checked
  toConfirm,  \* txToConfirm
  toRetry,    \* txToRetry
  cur         \* the transaction whose fee was raised

chain == <<latest, mined>>
rows  == <<status, retries, waited>>
lists == <<todo, toConfirm, toRetry>>
vars  == <<chain, rows, pc, lists, cur>>

NoTx == <<None, None>>

Init ==
  /\ latest = [p \in Payments |-> None] /\ mined = [p \in Payments |-> None]
  /\ status = [t \in Txs |-> ""] /\ retries = [t \in Txs |-> 0] /\ waited = {}
  /\ pc = "idle" /\ todo = {} /\ toConfirm = {} /\ toRetry = {} /\ cur = NoTx

-----------------------------------------------------------------------------
(* What happens outside the service. *)

(* PayService has sent a payment and saved its hash.                       *)
NewPayment(p) ==
  /\ pc = "idle" /\ latest[p] = None
  /\ latest' = [latest EXCEPT ![p] = 0]
  /\ status' = [status EXCEPT ![<<p, 0>>] = "Pending"]
  /\ retries' = [retries EXCEPT ![<<p, 0>>] = 0]
  /\ UNCHANGED <<mined, waited, pc, lists, cur>>

Mine(p, v) ==
  /\ latest[p] # None /\ mined[p] = None
  /\ v \in 0 .. latest[p]
  /\ v = latest[p] \/ "oldMined" \in Faults
  /\ mined' = [mined EXCEPT ![p] = v]
  /\ UNCHANGED <<latest, rows, pc, lists, cur>>

DelayOver(t) ==
  /\ status[t] = "Pending" /\ t \notin waited
  /\ waited' = waited \cup {t}
  /\ UNCHANGED <<chain, status, retries, pc, lists, cur>>

(* The node has the transaction, in a block or in the mempool.             *)
Mined(t) == mined[t[1]] = t[2]
Known(t) == Mined(t) \/ (mined[t[1]] = None /\ latest[t[1]] = t[2])

-----------------------------------------------------------------------------
Return == pc' = "idle" /\ todo' = {} /\ toConfirm' = {} /\ toRetry' = {} /\ cur' = NoTx

(* GetTxHashesByStatus; their order is left open.                          *)
Begin ==
  /\ pc = "idle"
  /\ pc' = "check"
  /\ todo' = {t \in Txs : status[t] = "Pending"}
  /\ UNCHANGED <<chain, rows, toConfirm, toRetry, cur>>

(* Mutants: the two lists swapped; confirmed transactions in both lists;   *)
(* all transactions only in the second.                                    *)
Check_Swapped(t) ==
  /\ pc = "check" /\ t \in todo /\ Known(t)
  /\ todo' = todo \ {t}
  /\ toConfirm' = IF Mined(t) THEN toConfirm ELSE toConfirm \cup {t}
  /\ toRetry' = IF Mined(t) THEN toRetry \cup {t} ELSE toRetry
  /\ UNCHANGED <<chain, rows, pc, cur>>
Check_Both(t) ==
  /\ pc = "check" /\ t \in todo /\ Known(t)
  /\ todo' = todo \ {t}
  /\ toConfirm' = IF Mined(t) THEN toConfirm \cup {t} ELSE toConfirm
  /\ toRetry' = toRetry \cup {t}
  /\ UNCHANGED <<chain, rows, pc, cur>>
Check_NoneConfirmed(t) ==
  /\ pc = "check" /\ t \in todo /\ Known(t)
  /\ todo' = todo \ {t}
  /\ toRetry' = toRetry \cup {t}
  /\ UNCHANGED <<chain, rows, pc, toConfirm, cur>>

(* GetRawTransactionVerbose.                                               *)
Check(t) ==
  /\ pc = "check" /\ t \in todo /\ Known(t)
  /\ todo' = todo \ {t}
  /\ toConfirm' = IF Mined(t) THEN toConfirm \cup {t} ELSE toConfirm
  /\ toRetry' = IF Mined(t) THEN toRetry ELSE toRetry \cup {t}
  /\ UNCHANGED <<chain, rows, pc, cur>>

(* One transaction the node does not know ends the call.                   *)
Unknown(t) ==
  /\ pc = "check" /\ t \in todo /\ ~Known(t)
  /\ Return
  /\ UNCHANGED <<chain, rows>>

AllChecked ==
  /\ pc = "check" /\ todo = {}
  /\ pc' = "confirm"
  /\ UNCHANGED <<chain, rows, lists, cur>>

(* UpdateTransactionsStatus: one update after the other.                   *)
Confirm(t) ==
  /\ pc = "confirm" /\ t \in toConfirm
  /\ status' = [status EXCEPT ![t] = "Completed"]
  /\ toConfirm' = toConfirm \ {t}
  /\ UNCHANGED <<chain, retries, waited, pc, todo, toRetry, cur>>

AllConfirmed ==
  /\ pc = "confirm" /\ toConfirm = {}
  /\ pc' = "retry"
  /\ UNCHANGED <<chain, rows, lists, cur>>

(* Not enough time has passed, or the wallet could not be loaded (an error *)
(* only every 15th time).                                                  *)
Skip(t) ==
  /\ pc = "retry" /\ t \in toRetry
  /\ t \in waited => retries[t] < MaxRetries /\ "node" \in Faults
  /\ toRetry' = toRetry \ {t}
  /\ UNCHANGED <<chain, rows, pc, todo, toConfirm, cur>>

(* Mutant: one retry more.                                                 *)
Exceeded_OneMore(t) == retries[t] > MaxRetries

(* retryCountExceeded.                                                     *)
Exceeded(t) == retries[t] >= MaxRetries

GiveUp(t) ==
  /\ pc = "retry" /\ t \in toRetry /\ t \in waited /\ Exceeded(t)
  /\ status' = [status EXCEPT ![t] = "Failed"]
  /\ toRetry' = toRetry \ {t}
  /\ UNCHANGED <<chain, retries, waited, pc, todo, toConfirm, cur>>

GiveUpNotMailed(t) ==
  /\ "mail" \in Faults
  /\ pc = "retry" /\ t \in toRetry /\ t \in waited /\ Exceeded(t)
  /\ status' = [status EXCEPT ![t] = "Failed"]
  /\ Return
  /\ UNCHANGED <<chain, retries, waited>>

(* The node replaces the latest version of a payment that is not mined.    *)
Replace(t) ==
  /\ mined[t[1]] = None /\ latest[t[1]] = t[2]
  /\ latest' = [latest EXCEPT ![t[1]] = t[2] + 1]
  /\ UNCHANGED mined

BumpFee(t) ==
  /\ pc = "retry" /\ t \in toRetry /\ t \in waited /\ ~Exceeded(t)
  /\ Replace(t)
  /\ pc' = "save"
  /\ toRetry' = toRetry \ {t}
  /\ cur' = t
  /\ UNCHANGED <<rows, todo, toConfirm>>

(* It was mined since it was checked.                                      *)
BumpRefused(t) ==
  /\ pc = "retry" /\ t \in toRetry /\ t \in waited /\ ~Exceeded(t)
  /\ mined[t[1]] # None
  /\ Return
  /\ UNCHANGED <<chain, rows>>

(* Mutants: the old row stays Pending; the retry count is not raised.      *)
SaveRBF_OldPending ==
  LET new == <<cur[1], cur[2] + 1>> IN
  /\ pc = "save"
  /\ status' = [status EXCEPT ![new] = "Pending"]
  /\ retries' = [retries EXCEPT ![new] = retries[cur] + 1]
  /\ pc' = "retry" /\ cur' = NoTx
  /\ UNCHANGED <<chain, waited, lists>>
SaveRBF_SameCount ==
  LET new == <<cur[1], cur[2] + 1>> IN
  /\ pc = "save"
  /\ status' = [status EXCEPT ![cur] = "Replaced", ![new] = "Pending"]
  /\ retries' = [retries EXCEPT ![new] = retries[cur]]
  /\ pc' = "retry" /\ cur' = NoTx
  /\ UNCHANGED <<chain, waited, lists>>

(* SaveRBFTransactionInformation, one database transaction.                *)
SaveRBF ==
  LET new == <<cur[1], cur[2] + 1>> IN
  /\ pc = "save"
  /\ status' = [status EXCEPT ![cur] = "Replaced", ![new] = "Pending"]
  /\ retries' = [retries EXCEPT ![new] = retries[cur] + 1]
  /\ pc' = "retry" /\ cur' = NoTx
  /\ UNCHANGED <<chain, waited, lists>>

AllRetried ==
  /\ pc = "retry" /\ toRetry = {}
  /\ Return
  /\ UNCHANGED <<chain, rows>>

-----------------------------------------------------------------------------
(* The errors that end a call. *)

RequestFails ==
  /\ "node" \in Faults
  /\ \/ pc = "check" /\ \E t \in todo : Known(t)
     \/ pc = "retry" /\ \E t \in toRetry \cap waited : ~Exceeded(t) /\ mined[t[1]] = None
  /\ Return
  /\ UNCHANGED <<chain, rows>>

UpdateFails ==
  /\ "db" \in Faults
  /\ \/ pc = "confirm" /\ toConfirm # {}
     \/ pc = "retry" /\ \E t \in toRetry \cap waited : Exceeded(t)
  /\ Return
  /\ UNCHANGED <<chain, rows>>

BumpReplyLost(t) ==
  /\ "lostReply" \in Faults
  /\ pc = "retry" /\ t \in toRetry /\ t \in waited /\ ~Exceeded(t)
  /\ Replace(t)
  /\ Return
  /\ UNCHANGED rows

SaveFails ==
  /\ "save" \in Faults
  /\ pc = "save"
  /\ Return
  /\ UNCHANGED <<chain, rows>>

Crash ==
  /\ "crash" \in Faults
  /\ pc \notin {"idle", "down"}
  /\ pc' = "down"
  /\ todo' = {} /\ toConfirm' = {} /\ toRetry' = {} /\ cur' = NoTx
  /\ UNCHANGED <<chain, rows>>

Restart ==
  /\ pc = "down"
  /\ pc' = "idle"
  /\ UNCHANGED <<chain, rows, lists, cur>>

-----------------------------------------------------------------------------
Environment ==
  \/ \E p \in Payments : NewPayment(p) \/ (\E v \in Versions : Mine(p, v))
  \/ \E t \in Txs : DelayOver(t)

Progress ==
  \/ Restart \/ Begin \/ AllChecked \/ AllConfirmed \/ SaveRBF \/ AllRetried
  \/ \E t \in Txs : Check(t) \/ Unknown(t) \/ Confirm(t) \/ Skip(t)
                      \/ GiveUp(t) \/ BumpFee(t) \/ BumpRefused(t)

Failure ==
  \/ RequestFails \/ UpdateFails \/ SaveFails \/ Crash
  \/ \E t \in Txs : GiveUpNotMailed(t) \/ BumpReplyLost(t)

Next == Environment \/ Progress \/ Failure

Spec == Init /\ [][Next]_vars

(* The worker calls Execute on every tick, and Execute always ends.        *)
FairSpec == Spec /\ WF_vars(Progress)
-----------------------------------------------------------------------------
(* Properties. *)

TypeOK ==
  /\ latest \in [Payments -> Versions \cup {None}]
  /\ mined \in [Payments -> Versions \cup {None}]
  /\ status \in [Txs -> Statuses \cup {""}]
  /\ retries \in [Txs -> 0 .. MaxRetries]
  /\ waited \subseteq Txs
  /\ pc \in {"idle", "check", "confirm", "retry", "save", "down"}
  /\ todo \subseteq Txs /\ toConfirm \subseteq Txs /\ toRetry \subseteq Txs
  /\ cur \in Txs \cup {NoTx}

(* Wherever a call stops, the rows of a payment are a chain: replaced      *)
(* versions and one last row that is not replaced (retry.go:161, sql_db.go *)
(* SaveRBFTransactionInformation).  Two rows that are not would be checked *)
(* and bumped independently; none would forget the payment.                *)
OneOpenRow ==
  \A p \in Payments : latest[p] # None =>
    \E v \in Versions :
      /\ status[<<p, v>>] \in Statuses \ {"Replaced"}
      /\ \A u \in Versions : IF u < v THEN status[<<p, u>>] = "Replaced"
                             ELSE u > v => status[<<p, u>>] = ""

(* The fee of a payment is raised at most RBFTransactionRetryMaxCount      *)
(* times on the node, whatever was recorded of it (retry.go:181).          *)
BumpsBounded == \A p \in Payments : latest[p] <= MaxRetries

(* A row is Completed only if that version is the one in the chain, though *)
(* it was looked up before the update (retry.go:86-94).                    *)
CompletedIsMined == \A t \in Txs : status[t] = "Completed" => Mined(t)

(* The updates name only the hash (write.go:176), not the status they      *)
(* expect; still no row leaves Completed, Failed or Replaced.              *)
StatusesFinal ==
  [][\A t \in Txs : status[t] \in {"Completed", "Failed", "Replaced"}
                      => status'[t] = status[t]]_vars

Recorded(p) == \E v \in Versions : status[<<p, v>>] \in {"Completed", "Failed"}

(* A payment that is in a block is eventually Completed, or Failed if it   *)
(* was given up before, if failures stop at some point (retry.go:32-34:    *)
(* "Checks the confirmation status of pending transactions, updates the    *)
(* status for those with confirmations").                                  *)
MinedIsRecorded ==
  <>[][~Failure]_vars => \A p \in Payments : (mined[p] # None) ~> Recorded(p)

(* The version the node has, or the one that was mined, has the open row.  *)
AllKnown ==
  \A p \in Payments :
    latest[p] # None => /\ status[<<p, latest[p]>>] # ""
                        /\ mined[p] \in {None, latest[p]}

(* The same, as long as the database keeps up with the node: no reply or   *)
(* save is lost for good after a bumpfee, and no replaced version is       *)
(* mined.  One payment that breaks this blocks all of them (retry.go:69). *)
KnownIsRecorded ==
  (<>[][~Failure]_vars /\ [](pc # "save" => AllKnown))
    => \A p \in Payments : (mined[p] # None) ~> Recorded(p)
=============================================================================
