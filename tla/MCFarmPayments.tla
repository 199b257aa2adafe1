--------------------------- MODULE MCFarmPayments ---------------------------
(***************************************************************************)
(* Small farms for TLC: two or three deposits, one or two addresses paid   *)
(* directly and two NFT owners, one of whom may change the registered      *)
(* address.  A satoshi holds two units and the threshold is two satoshis,  *)
(* so that the amounts below are paid, accumulated and rounded.            *)
(***************************************************************************)
EXTENDS FarmPayments

CONSTANTS u1, u2, u3, farm, o1, o2, b1, b2, b3

MCUtxos2    == {u1, u2}
MCUtxos3    == {u1, u2, u3}
MCTxOf      == [u \in Utxos |-> u]
MCAmount    == [u \in Utxos |-> 7]
MCTime      == [u \in Utxos |-> CASE u = u1 -> 2 [] u = u2 -> 3 [] OTHER -> 3]
MCTimeApart == [u \in Utxos |-> CASE u = u1 -> 2 [] u = u2 -> 3 [] OTHER -> 4]
MCOwners    == {o1, o2}

MCDirect    == {farm}
MCPayout    == [o \in MCOwners |-> IF o = o1 THEN {b1} ELSE {b2}]
MCPayoutChanged == [o \in MCOwners |-> IF o = o1 THEN {b1, b3} ELSE {b2}]

(* The owner o1 may also register the address the farm owner is paid at.   *)
MCDirectMerged == {farm, b1}

(* Both owners are paid by the same BTC address.                           *)
MCPayoutShared == [o \in MCOwners |-> {b1}]

Share(f, p, q) == [a \in Address |-> CASE a = farm -> f [] a = o1 -> p
                                       [] a = o2 -> q [] OTHER -> 0]

MCSharesGood == {Share(3, 3, 1), Share(1, 5, 1)}

MCSharesShared == {Share(1, 5, 1), Share(1, 3, 3)}

(* A distribution names b1 or the owner who may be paid there, never both; *)
(* one does not add up.                                                    *)
MCSharesMerged ==
  {Share(3, 3, 1), Share(3, 3, 2),
   [a \in Address |-> CASE a = farm -> 4 [] a = b1 -> 3 [] OTHER -> 0]}
=============================================================================
