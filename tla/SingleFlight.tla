---------------------------- MODULE SingleFlight ----------------------------
(***************************************************************************)
(* What utils.call_once(wait=True) promises its callers: the function runs *)
(* at most once at a time, and a caller is answered only by a run of the   *)
(* function that ended after it called, its own or another caller's.  A    *)
(* caller may always leave without an answer.                              *)
(***************************************************************************)
CONSTANT Callers

VARIABLES inside,   \* the callers whose call has not returned
          leading,  \* the caller that runs the function, if any
          owed,     \* the callers inside when a run ended: each may be answered
          answered  \* the callers whose last call was answered

vars == <<inside, leading, owed, answered>>

Init == inside = {} /\ leading = {} /\ owed = {} /\ answered = {}

\* A call, which may be refused at once.
Enter(c) ==
    /\ c \notin inside
    /\ inside' \in {inside, inside \union {c}}
    /\ answered' = answered \ {c}
    /\ UNCHANGED <<leading, owed>>

\* A caller, new or waiting, starts a run.
Lead(c) ==
    /\ leading = {}
    /\ leading' = {c}
    /\ inside' = inside \union {c}
    /\ owed' = owed \ {c}
    /\ answered' = answered \ {c}

\* The run ends, its leader leaves, and it will do for all who wait.
End(c) ==
    /\ leading = {c}
    /\ leading' = {}
    /\ inside' = inside \ {c}
    /\ owed' = inside \ {c}
    /\ answered' \in {answered, answered \union {c}}

Answer(c) ==
    /\ c \in owed
    /\ inside' = inside \ {c}
    /\ owed' = owed \ {c}
    /\ answered' = answered \union {c}
    /\ UNCHANGED leading

\* A caller leaves without an answer; if it led, its run did not end.
Leave(c) ==
    /\ c \in inside
    /\ inside' = inside \ {c}
    /\ owed' = owed \ {c}
    /\ leading' = leading \ {c}
    /\ UNCHANGED answered

Next == \E c \in Callers : Enter(c) \/ Lead(c) \/ End(c) \/ Answer(c) \/ Leave(c)

Spec == Init /\ [][Next]_vars
=============================================================================
