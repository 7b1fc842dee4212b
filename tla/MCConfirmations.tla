-------------------------- MODULE MCConfirmations ---------------------------
(* Two calls confirm one trade, while Steam also wants the    *)
(* other confirmed; a second has two ticks, so that codes are asked for    *)
(* early and late in it.                                                   *)
EXTENDS Confirmations

CONSTANTS t1, t2, k1, k2

MCTags == {"list", "allow"}
MCTrades == {t1, t2}
MCTasks == {k1, k2}
MCSameTrade == [k \in MCTasks |-> t1]
=============================================================================
