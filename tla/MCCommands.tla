----------------------------- MODULE MCCommands -----------------------------
(* Three messages of one bucket, so that a call may be refused for one that *)
(* was refused, and one of another; three tasks that wait for one event,   *)
(* so that a walk may delete several listeners and keep one.               *)
EXTENDS Commands, TLC

CONSTANTS c1, c2, c3, c4, w1, w2, w3, b1, b2

MCCalls == {c1, c2, c3, c4}
MCWaiters == {w1, w2, w3}
MCBucketOf == [c \in MCCalls |-> IF c = c4 THEN b2 ELSE b1]
MCEventOf == [w \in MCWaiters |-> "message"]
MCSymmetry == Permutations({c1, c2, c3}) \union Permutations(MCWaiters)
=============================================================================
