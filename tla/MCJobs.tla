------------------------------- MODULE MCJobs -------------------------------
(* Jobs on a counter that wraps after three ids, so that ids are reused    *)
(* while an earlier call is still waiting.                                 *)
EXTENDS Jobs

CONSTANTS c1, c2, c3

MCCalls == {c1, c2, c3}
MCUmCalls == {c1, c2}
=============================================================================
