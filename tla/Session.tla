------------------------------- MODULE Session -------------------------------
(***************************************************************************)
(* The life of a connection: Client.login and Client.close (client.py),    *)
(* SteamWebSocket.from_client, poll_event and the keep-alive thread        *)
(* (gateway.py), and ConnectionState.handle_close (state.py).              *)
(*                                                                         *)
(* Three things share a web socket: the task that runs login(), tasks that *)
(* call close() or handle_close(), and one keep-alive thread per socket    *)
(* that logged on.  They reach it in two ways: Client.ws is the newest     *)
(* socket, and ConnectionState.ws caches the one it found when it was      *)
(* first read.                                                             *)
(*                                                                         *)
(* Abstractions.  The list of CMs may run out at any attempt.  Messages    *)
(* are left out: what matters of them is that the logon was answered, that *)
(* everything on_ready waits for was handled, and that a handler failed.   *)
(* Handlers run as tasks of a task group: Client._tg until login is done,  *)
(* the socket's own afterwards.                                            *)
(***************************************************************************)
EXTENDS Integers

CONSTANTS MaxSockets,  \* bound: how many web sockets are opened
          MaxLogins    \* bound: how often the user calls login()

ASSUME MaxSocketsAssumption == MaxSockets \in Nat \ {0}
ASSUME MaxLoginsAssumption == MaxLogins \in Nat \ {0}

VARIABLES main,          \* where the task that runs login() is
          outcome,       \* how the last login() ended
          closer,        \* where the task that runs close() is
          clientWs,      \* Client.ws: the number of a socket, 0 for None
          stateWs,       \* ConnectionState.ws: the cached one, 0 if not read yet
          sock,          \* each socket's connection
          keep,          \* each socket's keep-alive thread
          closed,        \* Client._closed
          handled,       \* whether all that on_ready waits for was handled
          readyTasks,    \* the attempts whose dispatch_ready task still waits
          disconnected,  \* whether on_disconnect was dispatched for this login
          established,   \* whether this login() got as far as a session
          firstWs,       \* the sockets from here on belong to the current aiohttp session
          logins

vars == <<main, outcome, closer, clientWs, stateWs, sock, keep, closed, handled,
          readyTasks, disconnected, established, firstWs, logins>>

Sockets == 1 .. MaxSockets

\* Login is under way from the handshake until from_client returns.
LoggingIn == {"handshake", "answered", "settle"}

Stages == {"out", "connect", "throttle", "poll", "interrupted"} \union LoggingIn
Outcomes == {"none", "returned", "group", "nocms", "runtime", "cancelled"}
CloserStages == {"idle", "socket", "http", "done"}
Connections == {"absent", "open", "silent", "eof", "closed"}
Threads == {"absent", "running", "stopped"}

TypeOK ==
    /\ main \in Stages
    /\ outcome \in Outcomes
    /\ closer \in CloserStages
    /\ clientWs \in 0 .. MaxSockets
    /\ stateWs \in 0 .. MaxSockets
    /\ sock \in [Sockets -> Connections]
    /\ keep \in [Sockets -> Threads]
    /\ closed \in BOOLEAN
    /\ handled \in BOOLEAN
    /\ readyTasks \subseteq Sockets
    /\ disconnected \in BOOLEAN
    /\ established \in BOOLEAN
    /\ firstWs \in 1 .. MaxSockets + 1
    /\ logins \in 0 .. MaxLogins

Init ==
    /\ main = "out"
    /\ outcome = "none"
    /\ closer = "idle"
    /\ clientWs = 0
    /\ stateWs = 0
    /\ sock = [k \in Sockets |-> "absent"]
    /\ keep = [k \in Sockets |-> "absent"]
    /\ closed = TRUE
    /\ handled = FALSE
    /\ readyTasks = {}
    /\ disconnected = FALSE
    /\ established = FALSE
    /\ firstWs = 1
    /\ logins = 0

----------------------------------------------------------------------------
(* How exceptions travel. *)

RaisedExceptions == {"oserror", "closed", "client", "timeout", "http"}

\* asyncio.TaskGroup lets a cancellation through and raises anything else
\* that ends its body, or one of its tasks, as an ExceptionGroup.
ThroughTaskGroup(exc) == IF exc = "cancelled" THEN exc ELSE "group"

\* login_func has raised: its except clause retries what it names.
LoginRaises(exc) ==
    IF exc \in RaisedExceptions
    THEN main' = "throttle" /\ UNCHANGED outcome
    ELSE main' = "out" /\ outcome' = exc

\* "async with self.ws" has raised: its except clause tells the user and
\* goes round the loop for what it names.
SessionRaises(exc) ==
    IF exc \in RaisedExceptions
    THEN /\ disconnected' = TRUE
         /\ main' = IF closed THEN "out" ELSE "throttle"
         /\ outcome' = IF closed THEN "returned" ELSE outcome
    ELSE main' = "out" /\ outcome' = exc /\ UNCHANGED disconnected

\* state.ws is a cached property: the first read decides, later ones repeat.
CachedWs == IF stateWs = 0 THEN clientWs ELSE stateWs
ReadStateWs == stateWs' = CachedWs

StopIfPresent(thread) == IF thread = "running" THEN "stopped" ELSE thread

(* handle_close: close the socket unless it is closed, stop the keep-alive *)
(* thread if there is one, raise ConnectionClosed (the caller's business). *)
HandleClose ==
    /\ ReadStateWs
    /\ sock' = [sock EXCEPT ![CachedWs] = "closed"]
    /\ keep' = [keep EXCEPT ![CachedWs] = StopIfPresent(@)]

Gone(k) == sock[k] \in {"eof", "closed"}

----------------------------------------------------------------------------
(* login() *)

\* login() starts with clear(), which re-opens the client and forgets what
\* was handled, and makes a new aiohttp session; Client.ws and
\* ConnectionState.ws are not among what it clears.
Login ==
    /\ main = "out"
    /\ closer \in {"idle", "done"}
    /\ logins < MaxLogins
    /\ logins' = logins + 1
    /\ main' = "connect"
    /\ outcome' = "none"
    /\ closer' = "idle"
    /\ closed' = FALSE
    /\ handled' = FALSE
    /\ disconnected' = FALSE
    /\ established' = FALSE
    /\ firstWs' = clientWs + 1
    /\ UNCHANGED <<clientWs, stateWs, sock, keep, readyTasks>>

\* cm.connect() succeeds; dispatch_ready starts its task before the logon.
Connect ==
    /\ main = "connect"
    /\ clientWs < MaxSockets
    /\ closer # "done"
    /\ LET k == clientWs + 1 IN
          /\ clientWs' = k
          /\ sock' = [sock EXCEPT ![k] = "open"]
          /\ readyTasks' = readyTasks \union {k}
    /\ main' = "handshake"
    /\ UNCHANGED <<outcome, closer, stateWs, keep, closed, handled, disconnected, established, firstWs, logins>>

\* cm.connect() fails in a way "except aiohttp.ClientError" does not name, no
\* CM is left, or the aiohttp session has been closed.
ConnectFails ==
    /\ main = "connect"
    /\ \E exc \in {"oserror", "nocms"} \union {e \in {"runtime"} : closer = "done"} : LoginRaises(exc)
    /\ UNCHANGED <<closer, clientWs, stateWs, sock, keep, closed, handled, readyTasks,
                   disconnected, established, firstWs, logins>>

\* timeout(60): the attempt is dropped where it stands.  Its socket and its
\* keep-alive thread are not.
LoginTimesOut ==
    /\ main \in {"connect"} \union LoggingIn
    /\ LoginRaises("timeout")
    /\ UNCHANGED <<closer, clientWs, stateWs, sock, keep, closed, handled, readyTasks,
                   disconnected, established, firstWs, logins>>

\* throttle() is over: "while not self.is_closed()".
Throttled ==
    /\ main = "throttle"
    /\ IF closed THEN main' = "out" /\ outcome' = "returned"
                 ELSE main' = "connect" /\ UNCHANGED outcome
    /\ UNCHANGED <<closer, clientWs, stateWs, sock, keep, closed, handled, readyTasks,
                   disconnected, established, firstWs, logins>>

\* The logon is answered with OK; the task has not been resumed yet.
LogonAnswered ==
    /\ main = "handshake"
    /\ sock[clientWs] = "open"
    /\ main' = "answered"
    /\ UNCHANGED <<outcome, closer, clientWs, stateWs, sock, keep, closed, handled, readyTasks,
                   disconnected, established, firstWs, logins>>

\* The logon is answered with anything else: handle_close() inside poll().
LogonRefused ==
    /\ main = "handshake"
    /\ sock[clientWs] = "open"
    /\ HandleClose
    /\ LoginRaises(ThroughTaskGroup("closed"))
    /\ UNCHANGED <<closer, clientWs, closed, handled, readyTasks, disconnected, established, firstWs, logins>>

\* The task goes on: the keep-alive thread is started, login_complete set.
LogonCompletes ==
    /\ main = "answered"
    /\ main' = "settle"
    /\ keep' = [keep EXCEPT ![clientWs] = "running"]
    /\ UNCHANGED <<outcome, closer, clientWs, stateWs, sock, closed, handled, readyTasks,
                   disconnected, established, firstWs, logins>>

\* The requests after the logon are sent (fetch_notifications through
\* state.ws) and from_client returns.
Settle ==
    /\ main = "settle"
    /\ ReadStateWs
    /\ ~Gone(clientWs) /\ ~Gone(CachedWs)
    /\ main' = "poll"
    /\ established' = TRUE
    /\ UNCHANGED <<outcome, closer, clientWs, sock, keep, closed, handled, readyTasks, disconnected, firstWs, logins>>

\* While logging in, poll() reads the new socket in a task of its own, and
\* the requests go to both; whichever is gone makes send or poll_event call
\* handle_close.
LoginConnectionLost ==
    /\ main \in LoggingIn
    /\ Gone(clientWs) \/ (main = "settle" /\ Gone(CachedWs))
    /\ HandleClose
    /\ LoginRaises(ThroughTaskGroup("closed"))
    /\ UNCHANGED <<closer, clientWs, closed, handled, readyTasks, disconnected, established, firstWs, logins>>

\* state.ws.poll_event() finds its socket closed.
SessionLost ==
    /\ main = "poll"
    /\ Gone(stateWs)
    /\ HandleClose
    /\ SessionRaises(ThroughTaskGroup("closed"))
    /\ UNCHANGED <<closer, clientWs, closed, handled, readyTasks, established, firstWs, logins>>

\* Until login is done a handler runs in Client._tg, which aborts and cancels
\* login(); afterwards it ends the session's task group.
TaskRaises(exc) ==
    IF main = "poll" THEN SessionRaises(ThroughTaskGroup(exc))
                     ELSE LoginRaises("cancelled") /\ UNCHANGED disconnected

\* CMsgClientLoggedOff comes and handle_logoff's task calls handle_close.
LoggedOff ==
    /\ main \in LoggingIn \union {"poll"}
    /\ sock[IF main = "poll" THEN stateWs ELSE clientWs] = "open"
    /\ HandleClose
    /\ TaskRaises("closed")
    /\ UNCHANGED <<closer, clientWs, closed, handled, readyTasks, established, firstWs, logins>>

\* A handler's task raises.
HandlerRaises ==
    /\ main \in LoggingIn \union {"poll"}
    /\ TaskRaises("http")
    /\ UNCHANGED <<closer, clientWs, stateWs, sock, keep, closed, handled, readyTasks, established, firstWs, logins>>

\* A handler reads state.ws, as handle_multi does, before login is done.
HandlerReadsWs ==
    /\ main \in LoggingIn
    /\ ReadStateWs
    /\ UNCHANGED <<main, outcome, closer, clientWs, sock, keep, closed, handled, readyTasks,
                   disconnected, established, firstWs, logins>>

\* The last of the events dispatch_ready waits for is set.
AllHandled ==
    /\ main \in {"settle", "poll"}
    /\ handled' = TRUE
    /\ UNCHANGED <<main, outcome, closer, clientWs, stateWs, sock, keep, closed, readyTasks,
                   disconnected, established, firstWs, logins>>

\* A dispatch_ready task wakes and dispatches on_ready.
DispatchReady(k) ==
    /\ k \in readyTasks
    /\ handled
    /\ readyTasks' = readyTasks \ {k}
    /\ UNCHANGED <<main, outcome, closer, clientWs, stateWs, sock, keep, closed, handled,
                   disconnected, established, firstWs, logins>>

----------------------------------------------------------------------------
(* close(), by the user, by __aexit__, or by login() when it is cancelled. *)

StartClose ==
    /\ ~closed
    /\ closed' = TRUE
    /\ closer' = IF clientWs = 0 THEN "http" ELSE "socket"

Close ==
    /\ StartClose
    /\ UNCHANGED <<main, outcome, clientWs, stateWs, sock, keep, handled, readyTasks,
                   disconnected, established, firstWs, logins>>

\* change_presence(apps=[]) and handle_close(); ConnectionClosed is caught.
CloseSocket ==
    /\ closer = "socket"
    /\ HandleClose
    /\ closer' = "http"
    /\ UNCHANGED <<main, outcome, clientWs, closed, handled, readyTasks, disconnected, established, firstWs, logins>>

\* A bug a mutant checks: close() without http.close().
CloseWithoutHttp ==
    /\ closer = "http"
    /\ closer' = "done"
    /\ UNCHANGED <<main, outcome, clientWs, stateWs, sock, keep, closed, handled, readyTasks,
                   disconnected, established, firstWs, logins>>

\* http.close(): aiohttp closes every connection of its session.
CloseHttp ==
    /\ closer = "http"
    /\ closer' = "done"
    /\ sock' = [k \in Sockets |-> IF k >= firstWs /\ sock[k] \in {"open", "silent"}
                                  THEN "eof" ELSE sock[k]]
    /\ UNCHANGED <<main, outcome, clientWs, stateWs, keep, closed, handled, readyTasks,
                   disconnected, established, firstWs, logins>>

\* "except asyncio.CancelledError": close() unless it was called already.
Interrupt ==
    /\ main = "poll"
    /\ IF closed THEN main' = "out" /\ outcome' = "returned" /\ UNCHANGED <<closed, closer>>
                 ELSE main' = "interrupted" /\ StartClose /\ UNCHANGED outcome
    /\ UNCHANGED <<clientWs, stateWs, sock, keep, handled, readyTasks, disconnected, established, firstWs, logins>>

Interrupted ==
    /\ main = "interrupted"
    /\ closer = "done"
    /\ main' = "out"
    /\ outcome' = "returned"
    /\ UNCHANGED <<closer, clientWs, stateWs, sock, keep, closed, handled, readyTasks,
                   disconnected, established, firstWs, logins>>

----------------------------------------------------------------------------
(* The keep-alive threads and the network. *)

\* Someone calls ws.receive(), which ticks the thread of socket k.
Reads(k) == IF main = "poll" THEN stateWs = k ELSE main \in LoggingIn /\ clientWs = k

\* A bug a mutant checks: the thread stops and leaves the socket as it is.
ExpireWithoutClose(k) ==
    /\ keep[k] = "running"
    /\ ~(sock[k] = "open" /\ Reads(k))
    /\ keep' = [keep EXCEPT ![k] = "stopped"]
    /\ UNCHANGED <<main, outcome, closer, clientWs, stateWs, sock, closed, handled, readyTasks,
                   disconnected, established, firstWs, logins>>

\* Nothing received for a minute: ws.close(4000), and the thread stops.
Expire(k) ==
    /\ keep[k] = "running"
    /\ ~(sock[k] = "open" /\ Reads(k))
    /\ sock' = [sock EXCEPT ![k] = "closed"]
    /\ keep' = [keep EXCEPT ![k] = "stopped"]
    /\ UNCHANGED <<main, outcome, closer, clientWs, stateWs, closed, handled, readyTasks,
                   disconnected, established, firstWs, logins>>

\* A heartbeat on a socket that is gone: send() calls handle_close, and the
\* exception stops the thread.
HeartbeatFails(k) ==
    /\ keep[k] = "running"
    /\ Gone(k)
    /\ ReadStateWs
    /\ sock' = [sock EXCEPT ![CachedWs] = "closed"]
    /\ keep' = [[keep EXCEPT ![CachedWs] = StopIfPresent(@)] EXCEPT ![k] = "stopped"]
    /\ UNCHANGED <<main, outcome, closer, clientWs, closed, handled, readyTasks,
                   disconnected, established, firstWs, logins>>

\* The peer closes the connection, or stops answering without a word.
PeerLeaves(k) ==
    /\ sock[k] = "open"
    /\ \E how \in {"eof", "silent"} : sock' = [sock EXCEPT ![k] = how]
    /\ UNCHANGED <<main, outcome, closer, clientWs, stateWs, keep, closed, handled, readyTasks,
                   disconnected, established, firstWs, logins>>

LoginTask ==
    \/ Connect \/ ConnectFails \/ LoginTimesOut \/ Throttled
    \/ LogonAnswered \/ LogonRefused \/ LogonCompletes \/ Settle
    \/ LoginConnectionLost \/ SessionLost \/ Interrupted

CloseTask == CloseSocket \/ CloseHttp

Next ==
    \/ Login \/ Close \/ Interrupt
    \/ LoginTask
    \/ CloseTask
    \/ LoggedOff \/ HandlerRaises \/ HandlerReadsWs \/ AllHandled
    \/ \E k \in Sockets : DispatchReady(k) \/ Expire(k) \/ HeartbeatFails(k) \/ PeerLeaves(k)

(* The event loop runs what is ready, login() is bounded by its timeout,   *)
(* the read of a closed socket returns, and the threads keep beating.      *)
Fairness ==
    /\ WF_vars(LoginTask) /\ WF_vars(CloseTask)
    /\ \A k \in Sockets : WF_vars(Expire(k)) /\ WF_vars(HeartbeatFails(k)) /\ WF_vars(DispatchReady(k))

Spec == Init /\ [][Next]_vars /\ Fairness

----------------------------------------------------------------------------
(* A session is watched: while login() polls a socket that could go silent *)
(* without a word, the keep-alive thread of that socket is running, though *)
(* other sockets' threads and close() may have stopped threads meanwhile.  *)
(* The exception is a session that polls a socket other than its own.      *)
SessionIsWatched ==
    main = "poll" /\ stateWs = clientWs /\ ~Gone(stateWs) => keep[stateWs] = "running"

(* Once close() is finished no login that was under way becomes a session, *)
(* wherever close() overtook it; only calling login() again does.          *)
NoSessionAfterClose == [][main # "poll" /\ main' = "poll" => closer # "done"]_vars

(* A connection that goes silent is noticed: its keep-alive thread closes  *)
(* the socket, which ends the session.                                     *)
SilenceIsNoticed ==
    main = "poll" /\ stateWs = clientWs /\ sock[stateWs] = "silent"
        ~> main # "poll" \/ stateWs # clientWs

(* close() ends login(), whatever login() is doing when it is called.      *)
CloseEndsLogin == closed ~> main = "out"

(* close() leaves no keep-alive thread of the current login running, those *)
(* of abandoned attempts included; the thread is not a daemon, so one that *)
(* kept running would keep the process alive.                              *)
CloseEndsThreads ==
    closer = "done" ~> closer # "done" \/ \A k \in Sockets : k >= firstWs => keep[k] # "running"
=============================================================================
