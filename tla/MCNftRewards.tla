---------------------------- MODULE MCNftRewards ----------------------------
(***************************************************************************)
(* Two NFTs, one of which expires while the other one goes on, two people, *)
(* two deposits.  The decimal places are few: some ratios are rounded up   *)
(* and some down, and the income after the fee, a power of three, has      *)
(* places enough for its products with them.  For NftRounding, four NFTs   *)
(* of the same hash power, each of which has its ratio rounded up.         *)
(***************************************************************************)
EXTENDS NftRewards, TLC

CONSTANTS n1, n2, n3, n4, alice, bob, d1, d2

MCNfts      == {n1, n2}
MCPeople    == {alice, bob}
MCHash      == [n \in MCNfts |-> IF n = n1 THEN 1 ELSE 3]
MCExpiry    == [n \in MCNfts |-> IF n = n1 THEN 3 ELSE 9]
MCSymmetry  == Permutations(MCPeople) \cup Permutations(Deposits)

MCFourNfts  == {n1, n2, n3, n4}
MCOnePerson == {alice}
MCOneHash   == [n \in MCFourNfts |-> 1]
MCLongLived == [n \in MCFourNfts |-> 9]
MCAlike     == Permutations(MCFourNfts)
=============================================================================
