------------------------- MODULE MCTransferHistory -------------------------
(***************************************************************************)
(* Up to three transactions in the blocks 1 to 4, of which 1 and 4 are the *)
(* borders and 2 is before the period; pages of two.                       *)
(***************************************************************************)
EXTENDS TransferHistory

CONSTANTS c, other, n1

E(t, d)     == [type |-> t, denom |-> d]
MCDenoms    == {c, other}
MCBlockTime == [h \in 1..4 |-> h]
MCContents  ==
  {<<E("buy_nft", c)>>, <<E("transfer_nft", c)>>,
   <<E("transfer_nft", c), E("transfer_nft", c)>>,
   <<E("buy_nft", c), E("transfer_nft", c)>>,
   <<E("transfer_nft", other), E("transfer_nft", c)>>}
=============================================================================
