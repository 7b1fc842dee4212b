--------------------------- MODULE MCAuthTickets ----------------------------
(* Two blocks for one app and one for another, so that blocks for the same *)
(* app and for different ones overlap, nest, or follow each other.         *)
EXTENDS AuthTickets

CONSTANTS a1, a2, b1, b2, b3

MCApps == {a1, a2}
MCBlocks == {b1, b2, b3}
MCAppOf == [b \in MCBlocks |-> IF b = b3 THEN a2 ELSE a1]
=============================================================================
