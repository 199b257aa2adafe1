------------------------------ MODULE MCWorkers ------------------------------
(***************************************************************************)
(* Two farms, each with one pending payment.                               *)
(***************************************************************************)
EXTENDS Workers

CONSTANTS f1, f2, t1, t2

MCWallets  == {f1, f2}
MCWalletOf == [t \in Txs |-> IF t = t1 THEN f1 ELSE f2]
=============================================================================
