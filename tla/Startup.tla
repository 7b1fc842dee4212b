------------------------------ MODULE Startup -------------------------------
(***************************************************************************)
(* From the logon to the event "ready": SteamWebSocket.dispatch_ready      *)
(* (gateway.py) waits for the friends and the licenses, while their lists  *)
(* go on coming, users become friends or go, and the program asks for more *)
(* licenses.                                                               *)
(*                                                                         *)
(* Friends and Licenses share the logon and the event loop: while one      *)
(* handler of Friends runs, nothing else does.                             *)
(*                                                                         *)
(* Abstractions.  The chat groups, emoticons and wallet, for which         *)
(* dispatch_ready waits too, are taken to be there.                        *)
(***************************************************************************)
EXTENDS FiniteSets, Friends, Licenses

CONSTANT MaxEvents \* bound: later lists and calls

ASSUME StartupAssumption == MaxEvents \in Nat /\ MaxLists \in Nat /\ MaxLists > MaxEvents

VARIABLES ready, \* where dispatch_ready is
          extra  \* how many lists of licenses came on their own

vars == <<logon, befriending, licensing, ready, extra>>

TypeOK ==
    /\ LogonTypeOK /\ FriendsTypeOK /\ LicensesTypeOK
    /\ ready \in {"friends", "licenses", "ready"}
    /\ extra \in 0..MaxEvents

Init ==
    /\ LogonInit /\ FriendsInit /\ LicensesInit
    /\ ready = "friends" /\ extra = 0

----------------------------------------------------------------------------

\* Friends are waited for with the intent of chat groups.
FriendsReady ==
    /\ ready = "friends" /\ running = 0
    /\ "ChatGroups" \in intents => handledFriends
    /\ ready' = "licenses"
    /\ UNCHANGED <<logon, befriending, licensing, extra>>

LicensesReady ==
    /\ ready = "licenses" /\ handled /\ running = 0
    /\ ready' = "ready"
    /\ UNCHANGED <<logon, befriending, licensing, extra>>

Events ==
    (Len(posts) - 1) + extra + Cardinality({c \in Calls : call[c] # "idle"})

\* What Steam and the program do on their own.
Outside ==
    /\ Events < MaxEvents /\ ~lost
    /\ \/ Changes /\ UNCHANGED <<licensing, extra>>
       \/ SendAgain /\ extra' = extra + 1 /\ UNCHANGED befriending
       \/ (\E c \in Calls : Ask(c)) /\ UNCHANGED <<befriending, extra>>
    /\ UNCHANGED ready

FriendsHandlers == FriendsHandler /\ ~lost /\ UNCHANGED <<licensing, ready, extra>>

\* A step of Licenses.
Licensing(A) == A /\ ~lost /\ running = 0 /\ UNCHANGED <<befriending, ready, extra>>

LicensesHandler == \E k \in 1..MaxLists : Licensing(LicenseHandler(k))
Answered(c) == Licensing(Grant(c) \/ Answer(c) \/ Fail(c))
Called(c) == Licensing(LicenseCall(c))

Next ==
    \/ LoginCompletes /\ UNCHANGED <<befriending, licensing, ready, extra>>
    \/ Outside
    \/ FriendsHandlers
    \/ LicensesHandler
    \/ \E c \in Calls : Answered(c) \/ Called(c) \/ Licensing(Cancel(c))
    \/ ~lost /\ (FriendsReady \/ LicensesReady)

\* Steam answers, and the event loop comes to every task that can go on.
Fairness ==
    /\ WF_vars(LoginCompletes /\ UNCHANGED <<befriending, licensing, ready, extra>>)
    /\ WF_vars(FriendsHandlers)
    /\ WF_vars(LicensesHandler)
    /\ \A c \in Calls : WF_vars(Answered(c)) /\ WF_vars(Called(c))
    /\ WF_vars(~lost /\ (FriendsReady \/ LicensesReady))

Spec == Init /\ [][Next]_vars /\ Fairness

----------------------------------------------------------------------------

\* The session is lost to a license only if it was one that a call was about
\* to return with, or that a call that timed out had waited for.
LostToALicense ==
    lost => \E c \in Redeems : \/ call[c] = "unwinding"
                               \/ /\ call[c] \in {"asking", "granted", "waiting"}
                                  /\ fut[c] = "result"

\* request_free_licenses goes on without the license only after a list that
\* was on its way when it asked, or that Steam sent before its answer, was
\* taken for the one it waits for.
FreeIsHeld ==
    \A c \in Frees : call[c] = "returned" =>
        \/ PackageOf[c] \in licenses
        \/ \E k \in unheard[c] : handler[k] = "done" /\ PackageOf[c] \notin lists[k]

\* A call that waits for a list that Steam has no reason to send.
Stuck(c) == call[c] = "waiting" /\ c \in again

\* The client gets ready, unless a license ends the session, or nothing sets
\* the event of the friends (the intent of chat groups without that of users),
\* or the one of the licenses (a request for free licenses cleared it and
\* failed, or asked for what was owned).
ReadyEventually ==
    <>[] \/ ready = "ready" \/ lost
         \/ intents = {"ChatGroups"}
         \/ ~handled /\ \E c \in Frees : call[c] = "failed" \/ Stuck(c)

\* A call that waits for the lock of the licenses gets it, unless the one that
\* has it asked for a license that was owned.
LockPasses ==
    \A c \in Calls : (call[c] = "queued") ~>
        (call[c] # "queued" \/ lost \/ \E d \in Calls : Stuck(d))
=============================================================================
