------------------------------ MODULE MCFriends -----------------------------
(***************************************************************************)
(* Two users and three lists after the full one.                           *)
(***************************************************************************)
EXTENDS Friends

MCSymmetry == Permutations(Ids)
=============================================================================
