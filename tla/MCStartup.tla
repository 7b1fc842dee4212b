------------------------------ MODULE MCStartup -----------------------------
(***************************************************************************)
(* A user, a license that is redeemed and a free one.                      *)
(***************************************************************************)
EXTENDS Startup

CONSTANTS c1, c2, p1, p2

MCPackageOf == (c1 :> p1) @@ (c2 :> p2)
=============================================================================
