-------------------------------- MODULE MCChat ------------------------------
(***************************************************************************)
(* Three users and two calls of chunk().                                   *)
(***************************************************************************)
EXTENDS Chat
=============================================================================
