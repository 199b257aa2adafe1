--------------------------- MODULE MCBlockBorders ---------------------------
(***************************************************************************)
(* Estimates of two seconds per block, chains with at least one, two or    *)
(* three seconds between their blocks.                                     *)
(***************************************************************************)
EXTENDS BlockBorders

MCSpacings == {1, 2, 3}
=============================================================================
