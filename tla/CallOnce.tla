------------------------------ MODULE CallOnce ------------------------------
(***************************************************************************)
(* utils.call_once(wait=True), for one instance whose method it wraps:     *)
(* HTTPClient.login and get_api_key, SteamWebSocket.access_token,          *)
(* ConnectionState.cs_servers.  The first caller leads a flight: it runs   *)
(* the function.  A caller that comes during the flight follows it: it     *)
(* awaits the flight's future, and holds the lock while it does, so later  *)
(* callers queue for the lock.                                             *)
(*                                                                         *)
(* Abstractions.  asyncio.Lock wakes its waiters in order; here any of     *)
(* them may be next.  The wrapped function returns, raises, or is          *)
(* cancelled with its caller.                                              *)
(***************************************************************************)
EXTENDS Integers

CONSTANTS Callers,     \* the tasks that call the function, each any number of times
          NoCaller,    \* who holds the lock when nobody does
          MaxFlights   \* bound: how many calls are made, so how many futures there are

ASSUME NoCallerAssumption == NoCaller \notin Callers
ASSUME MaxFlightsAssumption == MaxFlights \in Nat

VARIABLES pc,      \* where each caller is
          holder,  \* who holds the lock across an await
          called,  \* self in being_called
          flights, \* how many flights there were
          future,  \* each flight's future
          on,      \* the flight each caller leads or follows
          asked,   \* whether the caller's task was cancelled during the call
          got,     \* how the caller's last call ended
          since,   \* the first flight that ended, or will, after the call was made
          quit,    \* the flights whose future a follower's cancellation cancelled
          dropped, \* the flights whose leader was cancelled
          calls

vars == <<pc, holder, called, flights, future, on, asked, got, since, quit, dropped, calls>>

Flights == 1 .. MaxFlights
Places == {"out", "queued", "follower", "leader"}
Endings == {"result", "error"}
FutureStates == Endings \union {"absent", "pending", "cancelled"}
Answers == Endings \union {"none", "cancelled", "invalid"}

TypeOK ==
    /\ pc \in [Callers -> Places]
    /\ holder \in Callers \union {NoCaller}
    /\ called \in BOOLEAN
    /\ flights \in 0 .. MaxFlights
    /\ future \in [Flights -> FutureStates]
    /\ on \in [Callers -> 0 .. MaxFlights]
    /\ asked \in [Callers -> BOOLEAN]
    /\ got \in [Callers -> Answers]
    /\ since \in [Callers -> 0 .. MaxFlights + 1]
    /\ quit \subseteq Flights
    /\ dropped \subseteq Flights
    /\ calls \in 0 .. MaxFlights

Init ==
    /\ pc = [c \in Callers |-> "out"]
    /\ holder = NoCaller
    /\ called = FALSE
    /\ flights = 0
    /\ future = [f \in Flights |-> "absent"]
    /\ on = [c \in Callers |-> 0]
    /\ asked = [c \in Callers |-> FALSE]
    /\ got = [c \in Callers |-> "none"]
    /\ since = [c \in Callers |-> 0]
    /\ quit = {}
    /\ dropped = {}
    /\ calls = 0

----------------------------------------------------------------------------

\* "async with lock": a caller queues behind the holder and behind a queue.
LockFree == holder = NoCaller /\ \A c \in Callers : pc[c] # "queued"

\* Somebody runs the function.
Running == \E c \in Callers : pc[c] = "leader"

\* Nobody is in being_called: the caller leads a new flight, outside the lock.
Lead(c) ==
    /\ ~called
    /\ flights < MaxFlights
    /\ called' = TRUE
    /\ flights' = flights + 1
    /\ future' = [future EXCEPT ![flights + 1] = "pending"]
    /\ on' = [on EXCEPT ![c] = flights + 1]
    /\ pc' = [pc EXCEPT ![c] = "leader"]
    /\ UNCHANGED <<holder, got>>

\* Somebody is: the caller awaits the future, which raises at once if it was
\* cancelled and suspends the caller, lock in hand, otherwise.
Follow(c) ==
    /\ called
    /\ on' = [on EXCEPT ![c] = flights]
    /\ IF future[flights] = "pending"
       THEN /\ pc' = [pc EXCEPT ![c] = "follower"]
            /\ holder' = c
            /\ UNCHANGED got
       ELSE /\ pc' = [pc EXCEPT ![c] = "out"]
            /\ got' = [got EXCEPT ![c] = future[flights]]
            /\ UNCHANGED holder
    /\ UNCHANGED <<called, flights, future>>

\* A call.
Call(c) ==
    /\ pc[c] = "out"
    /\ calls < MaxFlights
    /\ calls' = calls + 1
    /\ asked' = [asked EXCEPT ![c] = FALSE]
    /\ UNCHANGED <<quit, dropped>>
    /\ since' = [since EXCEPT ![c] = IF Running THEN flights ELSE flights + 1]
    /\ IF LockFree
       THEN Lead(c) \/ Follow(c)
       ELSE pc' = [pc EXCEPT ![c] = "queued"] /\ UNCHANGED <<holder, called, flights, future, on, got>>

\* A queued caller gets the lock.
Acquire(c) ==
    /\ pc[c] = "queued"
    /\ holder = NoCaller
    /\ Lead(c) \/ Follow(c)
    /\ UNCHANGED <<asked, since, quit, dropped, calls>>

\* A bug a mutant checks: being_called is not cleared in "finally".
FinishKeepingTheCall(c, ending) ==
    /\ pc[c] = "leader"
    /\ pc' = [pc EXCEPT ![c] = "out"]
    /\ future' = [future EXCEPT ![on[c]] = ending]
    /\ got' = [got EXCEPT ![c] = ending]
    /\ UNCHANGED <<holder, called, flights, on, asked, since, quit, dropped, calls>>

\* A bug a mutant checks: an exception is raised but not put into the future.
FinishSilently(c, ending) ==
    /\ pc[c] = "leader"
    /\ pc' = [pc EXCEPT ![c] = "out"]
    /\ called' = FALSE
    /\ future' = [future EXCEPT ![on[c]] = IF ending = "error" THEN @ ELSE ending]
    /\ got' = [got EXCEPT ![c] = ending]
    /\ UNCHANGED <<holder, flights, on, asked, since, quit, dropped, calls>>

\* The function returns or raises: the future is settled, which raises
\* InvalidStateError if a follower's cancellation has cancelled it.
Finish(c, ending) ==
    /\ pc[c] = "leader"
    /\ pc' = [pc EXCEPT ![c] = "out"]
    /\ called' = FALSE
    /\ IF future[on[c]] = "pending"
       THEN future' = [future EXCEPT ![on[c]] = ending] /\ got' = [got EXCEPT ![c] = ending]
       ELSE got' = [got EXCEPT ![c] = "invalid"] /\ UNCHANGED future
    /\ UNCHANGED <<holder, flights, on, asked, since, quit, dropped, calls>>

\* A follower's future is done: the follower goes on and releases the lock.
Resume(c) ==
    /\ pc[c] = "follower"
    /\ future[on[c]] # "pending"
    /\ pc' = [pc EXCEPT ![c] = "out"]
    /\ got' = [got EXCEPT ![c] = IF asked[c] THEN "cancelled" ELSE future[on[c]]]
    /\ holder' = NoCaller
    /\ UNCHANGED <<called, flights, future, on, asked, since, quit, dropped, calls>>

----------------------------------------------------------------------------
(* Task.cancel() *)

CancelQueued(c) ==
    /\ pc[c] = "queued"
    /\ pc' = [pc EXCEPT ![c] = "out"]
    /\ asked' = [asked EXCEPT ![c] = TRUE]
    /\ got' = [got EXCEPT ![c] = "cancelled"]
    /\ UNCHANGED <<holder, called, flights, future, on, since, quit, dropped, calls>>

\* The task cancels the future it awaits, the one the leader will settle.
CancelFollower(c) ==
    /\ pc[c] = "follower" /\ ~asked[c]
    /\ asked' = [asked EXCEPT ![c] = TRUE]
    /\ future' = [future EXCEPT ![on[c]] = IF @ = "pending" THEN "cancelled" ELSE @]
    /\ quit' = IF future[on[c]] = "pending" THEN quit \union {on[c]} ELSE quit
    /\ UNCHANGED <<pc, holder, called, flights, on, got, since, dropped, calls>>

\* CancelledError is no Exception: "finally" runs, but the future stays as it is.
CancelLeader(c) ==
    /\ pc[c] = "leader"
    /\ pc' = [pc EXCEPT ![c] = "out"]
    /\ called' = FALSE
    /\ asked' = [asked EXCEPT ![c] = TRUE]
    /\ got' = [got EXCEPT ![c] = "cancelled"]
    /\ dropped' = dropped \union {on[c]}
    /\ UNCHANGED <<holder, flights, future, on, since, quit, calls>>

----------------------------------------------------------------------------
Step(c) ==
    \/ Call(c) \/ Acquire(c) \/ Resume(c)
    \/ \E ending \in Endings : Finish(c, ending)
    \/ CancelQueued(c) \/ CancelFollower(c) \/ CancelLeader(c)

Next == \E c \in Callers : Step(c)

(* The event loop resumes what is ready, the wrapped function ends.        *)
Goes(c) == Acquire(c) \/ Resume(c) \/ \E ending \in Endings : Finish(c, ending)
Fairness == WF_vars(\E c \in Callers : Goes(c))

Spec == Init /\ [][Next]_vars /\ Fairness

----------------------------------------------------------------------------
(* The function is called once: two callers never run it side by side,     *)
(* though callers come, fail and are cancelled in any order.               *)
CalledOnce ==
    \A c, d \in Callers : pc[c] = "leader" /\ pc[d] = "leader" => c = d

(* No caller is given the outcome of a call of the function that had ended *)
(* before it called: call_once shares flights, it never caches.            *)
NeverStale ==
    \A c \in Callers : pc[c] = "out" /\ got[c] \in Endings => on[c] >= since[c]

(* A caller that nobody cancelled gets CancelledError or InvalidStateError *)
(* only from a flight in which a follower was cancelled: a leader's own    *)
(* cancellation reaches nobody else.                                       *)
OnlyFollowersCancel ==
    \A c \in Callers : pc[c] = "out" /\ got[c] \in {"cancelled", "invalid"} /\ ~asked[c]
        => on[c] \in quit

(* A follower whose future nobody will settle any more follows a leader    *)
(* that was cancelled: returning and raising strand nobody.                *)
OnlyDroppedFlightsStrand ==
    \A c \in Callers : pc[c] = "follower" /\ future[on[c]] = "pending" /\ on[c] \notin dropped
        => \E d \in Callers : pc[d] = "leader" /\ on[d] = on[c]

(* Every call returns, those that queue behind a follower and those that   *)
(* follow a cancelled caller as well, unless a leader was cancelled.       *)
EveryCallReturns == \A c \in Callers : pc[c] # "out" ~> pc[c] = "out" \/ dropped # {}

----------------------------------------------------------------------------
(* The promise, in terms of these variables. *)

\* The flights whose function returned or raised.
Ended == {f \in 1 .. flights : f \notin dropped /\ ~\E c \in Callers : pc[c] = "leader" /\ on[c] = f}

Inside == {c \in Callers : pc[c] # "out"}
Leading == {c \in Callers : pc[c] = "leader"}
Owed == {c \in Callers : pc[c] \in {"queued", "follower"} /\ \E f \in Ended : since[c] <= f}
Answered == {c \in Callers : pc[c] = "out" /\ got[c] \in Endings}

Promise ==
    INSTANCE SingleFlight WITH inside <- Inside, leading <- Leading, owed <- Owed, answered <- Answered

(* call_once implements SingleFlight.                                      *)
SharesFlights == Promise!Spec
=============================================================================
