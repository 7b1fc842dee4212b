------------------------------- MODULE Logon --------------------------------
(***************************************************************************)
(* What the handlers of the first messages of a session share: the         *)
(* client's intents, ConnectionState.login_complete, for which handlers    *)
(* wait, and the socket's task group, which the exception of any of them   *)
(* ends.                                                                   *)
(***************************************************************************)

VARIABLES intents, \* the client's intents
          login,   \* login_complete
          lost     \* a handler raised

logon == <<intents, login, lost>>

LogonTypeOK ==
    /\ intents \subseteq {"Users", "ChatGroups"}
    /\ {login, lost} \subseteq BOOLEAN

LogonInit ==
    /\ intents \in SUBSET {"Users", "ChatGroups"}
    /\ login = FALSE
    /\ lost = FALSE

LoginCompletes ==
    /\ ~login
    /\ login' = TRUE
    /\ UNCHANGED <<intents, lost>>

Raise == lost' = TRUE /\ UNCHANGED <<intents, login>>
=============================================================================
