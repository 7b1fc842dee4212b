----------------------------- MODULE MCCallOnce -----------------------------
(* Three callers: one that runs the function, one that holds the lock and  *)
(* follows, and one that queues behind it; five calls among them.          *)
EXTENDS CallOnce

CONSTANTS c1, c2, c3

MCCallers == {c1, c2, c3}
=============================================================================
