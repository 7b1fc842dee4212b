----------------------------- MODULE MCBackpack -----------------------------
(* Three items and up to four messages: the first two load the backpack.   *)
EXTENDS Backpack

CONSTANTS i1, i2, i3

MCItems == {i1, i2, i3}
=============================================================================
