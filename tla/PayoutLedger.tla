---------------------------- MODULE PayoutLedger ----------------------------
(***************************************************************************)
(* What the payment service promises to the destinations of the rewards,   *)
(* without nodes, databases or steps that can fail half way: every deposit *)
(* is settled at most once and all at once; settling adds the whole        *)
(* deposit to what the destinations are owed, and a destination that is    *)
(* owed at least the threshold is paid all of it but for less than a       *)
(* satoshi.  (The contract described at pay.go:531-553 and                 *)
(* pay_support.go:152-156.)                                                *)
(***************************************************************************)
EXTENDS Integers

CONSTANTS
  Utxos,          \* the deposits
  Distributions,  \* for each of them, the ways to share out all of it
  Address, Direct, Threshold, Satoshi

VARIABLES settled,   \* the deposits that are settled
          owed,      \* what each destination has accumulated
          paidOut    \* what it was paid

ledger == <<settled, owed, paidOut>>

Init ==
  /\ settled = {}
  /\ owed = [a \in Address |-> 0]
  /\ paidOut = [a \in Address |-> 0]

Due(d, a) == owed[a] + d[a]

(* Settle the deposit u by the distribution d, paying the destinations P.  *)
(* A destination paid directly is paid as soon as it reaches the           *)
(* threshold; an NFT owner also needs a registered payout address.         *)
Settle(u, d, P) ==
  /\ u \notin settled
  /\ d \in Distributions[u]
  /\ \A a \in P : d[a] > 0 /\ Due(d, a) >= Threshold
  /\ \A a \in Direct \ P : d[a] > 0 => Due(d, a) < Threshold
  /\ settled' = settled \cup {u}
  /\ owed' = [a \in Address |-> IF a \in P THEN Due(d, a) % Satoshi ELSE Due(d, a)]
  /\ paidOut' = [a \in Address |->
                   IF a \in P THEN paidOut[a] + (Due(d, a) - (Due(d, a) % Satoshi))
                              ELSE paidOut[a]]

Next == \E u \in Utxos : \E d \in Distributions[u], P \in SUBSET Address : Settle(u, d, P)

Spec == Init /\ [][Next]_ledger
=============================================================================
