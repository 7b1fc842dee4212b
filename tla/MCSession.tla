------------------------------ MODULE MCSession ------------------------------
(* Session with few enough sockets and logins to explore every schedule.   *)
EXTENDS Session
=============================================================================
