--------------------------- MODULE SessionProofs ---------------------------
(***************************************************************************)
(* Proofs about Session, for any number of sockets and of logins.          *)
(*                                                                         *)
(* A session is watched because the thread of the newest socket runs from  *)
(* the moment its logon completes until that very socket is gone (Watched):*)
(* whatever stops a thread closes its socket in the same step.  No login   *)
(* survives close() because http.close() leaves none of the login's        *)
(* sockets usable and no new one can be opened (Finished).                 *)
(***************************************************************************)
EXTENDS Session, TLAPS

USE MaxSocketsAssumption, MaxLoginsAssumption

\* Sockets are numbered in the order they are opened.
Numbered ==
    /\ stateWs <= clientWs
    /\ firstWs <= clientWs + 1
    /\ \A k \in Sockets : sock[k] # "absent" <=> k <= clientWs
    /\ \A k \in Sockets : keep[k] = "running" => k <= clientWs
    /\ main \in LoggingIn => clientWs >= firstWs
    /\ main = "poll" => stateWs >= 1

Watched ==
    main \in {"settle", "poll"} /\ ~Gone(clientWs) => keep[clientWs] = "running"

Finished ==
    closer = "done" => \A k \in Sockets : k >= firstWs => Gone(k) \/ sock[k] = "absent"

IndInv == TypeOK /\ Numbered /\ Watched /\ Finished

----------------------------------------------------------------------------
(* Nothing is open, running or finished at first.                          *)
LEMMA InitIndInv == Init => IndInv
<1> SUFFICES ASSUME Init PROVE IndInv
  OBVIOUS
<1>1. TypeOK
  <2>1. main \in Stages /\ outcome \in Outcomes /\ closer \in CloserStages
    BY DEF Init, Stages, Outcomes, CloserStages
  <2>2. sock \in [Sockets -> Connections] /\ keep \in [Sockets -> Threads]
    BY DEF Init, Connections, Threads
  <2>3. clientWs \in 0 .. MaxSockets /\ stateWs \in 0 .. MaxSockets /\ firstWs \in 1 .. MaxSockets + 1
    BY DEF Init
  <2>4. logins \in 0 .. MaxLogins
    BY DEF Init
  <2> QED BY <2>1, <2>2, <2>3, <2>4 DEF Init, TypeOK
<1>2. Numbered /\ Watched /\ Finished
  BY DEF Init, Numbered, Watched, Finished, Sockets, LoggingIn, Gone
<1> QED BY <1>1, <1>2 DEF IndInv

(* handle_close keeps the types and the numbering, and leaves the socket it *)
(* closed gone; every other socket and thread is as it was.                *)
LEMMA HandleCloseFact ==
    ASSUME IndInv, HandleClose, clientWs >= 1
    PROVE  /\ CachedWs \in Sockets /\ CachedWs <= clientWs
           /\ stateWs' = CachedWs /\ stateWs' \in 0 .. MaxSockets
           /\ sock' \in [Sockets -> Connections]
           /\ keep' \in [Sockets -> Threads]
           /\ sock'[CachedWs] = "closed"
           /\ \A k \in Sockets : k # CachedWs => sock'[k] = sock[k] /\ keep'[k] = keep[k]
  BY DEF IndInv, TypeOK, Numbered, HandleClose, ReadStateWs, CachedWs, StopIfPresent, Sockets,
         Connections, Threads

(* What handle_close does to the invariant, wherever login() goes next.    *)
LEMMA HandleCloseStep ==
    ASSUME IndInv, HandleClose, clientWs >= 1,
           UNCHANGED <<clientWs, firstWs>>,
           main' \in LoggingIn => main = main',
           main' = "settle" => main = "settle",
           main' = "poll" => main = "poll",
           closer' = "done" => closer = "done"
    PROVE  (Numbered /\ Watched /\ Finished)'
<1> USE HandleCloseFact DEF IndInv
<1>1. Numbered'
  BY DEF TypeOK, Numbered, Sockets, LoggingIn
<1>2. Watched'
  BY DEF TypeOK, Numbered, Watched, Gone, Sockets
<1>3. Finished'
  BY DEF TypeOK, Finished, Gone, Sockets
<1> QED BY <1>1, <1>2, <1>3

(* An exception that leaves login_func ends the attempt, one that leaves   *)
(* the session ends the session.                                           *)
LEMMA RaisesFact ==
    ASSUME TypeOK,
           NEW exc \in {"oserror", "nocms", "runtime", "timeout", "group", "cancelled"},
           LoginRaises(exc) \/ SessionRaises(exc)
    PROVE  main' \in {"out", "throttle"} /\ outcome' \in Outcomes
  BY DEF Outcomes, TypeOK, LoginRaises, SessionRaises, RaisedExceptions

(* Raising in a handler's task ends login() one way or the other.          *)
LEMMA TaskRaisesFact ==
    ASSUME TypeOK, NEW exc \in {"closed", "http"}, TaskRaises(exc)
    PROVE  /\ main' \in {"out", "throttle"}
           /\ outcome' \in Outcomes
           /\ disconnected' \in BOOLEAN
  BY DEF Outcomes, TypeOK, TaskRaises, LoginRaises, SessionRaises, RaisedExceptions, ThroughTaskGroup

(* The steps in which handle_close runs.                                   *)
LEMMA LosingStep ==
    ASSUME IndInv,
           LogonRefused \/ LoginConnectionLost \/ SessionLost \/ LoggedOff \/ CloseSocket
    PROVE  IndInv'
<1> USE DEF IndInv
<1>1. CASE LogonRefused \/ LoginConnectionLost
  <2>1. clientWs >= 1 /\ HandleClose /\ LoginRaises("group") /\ UNCHANGED <<clientWs, firstWs, closer>>
    BY <1>1 DEF LogonRefused, LoginConnectionLost, ThroughTaskGroup, TypeOK, Numbered, LoggingIn
  <2>2. main' \in {"out", "throttle"} /\ outcome' \in Outcomes
    BY <2>1, RaisesFact
  <2>3. TypeOK'
    BY <1>1, <2>1, <2>2, HandleCloseFact DEF TypeOK, LogonRefused, LoginConnectionLost, Stages
  <2> QED BY <2>1, <2>2, <2>3, HandleCloseStep DEF LoggingIn
<1>2. CASE SessionLost
  <2>1. clientWs >= 1 /\ HandleClose /\ SessionRaises("group") /\ UNCHANGED <<clientWs, firstWs, closer>>
    BY <1>2 DEF SessionLost, ThroughTaskGroup, TypeOK, Numbered, LoggingIn
  <2>2. main' \in {"out", "throttle"} /\ outcome' \in Outcomes
    BY <2>1, RaisesFact
  <2>3. TypeOK'
    BY <1>2, <2>1, <2>2, HandleCloseFact DEF TypeOK, SessionLost, SessionRaises, Stages
  <2> QED BY <2>1, <2>2, <2>3, HandleCloseStep DEF LoggingIn
<1>3. CASE LoggedOff
  <2>1. clientWs >= 1 /\ HandleClose /\ TaskRaises("closed") /\ UNCHANGED <<clientWs, firstWs, closer>>
    BY <1>3 DEF LoggedOff, TypeOK, Numbered, LoggingIn
  <2>2. TypeOK'
    BY <1>3, <2>1, TaskRaisesFact, HandleCloseFact DEF TypeOK, LoggedOff, Stages
  <2> QED BY <2>1, <2>2, TaskRaisesFact, HandleCloseStep DEF LoggingIn
<1>4. CASE CloseSocket
  <2>1. CASE clientWs >= 1
    <3>1. TypeOK'
      BY <1>4, <2>1, HandleCloseFact DEF TypeOK, CloseSocket, Sockets, CloserStages
    <3> QED BY <1>4, <2>1, <3>1, HandleCloseStep DEF CloseSocket
  <2>2. CASE clientWs = 0
    <3>1. sock' = sock /\ keep' = keep /\ stateWs' = 0
      BY <1>4, <2>2 DEF TypeOK, Numbered, CloseSocket, HandleClose, ReadStateWs, CachedWs, Sockets
    <3>2. TypeOK'
      BY <1>4, <3>1 DEF TypeOK, CloseSocket, CloserStages
    <3>3. (Numbered /\ Watched /\ Finished)'
      BY <1>4, <2>2, <3>1 DEF TypeOK, Numbered, Watched, Finished, CloseSocket, Sockets, LoggingIn, Gone
    <3> QED BY <3>2, <3>3
  <2> QED BY <2>1, <2>2 DEF TypeOK
<1> QED BY <1>1, <1>2, <1>3, <1>4

(* The other steps of login().                                             *)
LEMMA LoginStep ==
    ASSUME IndInv,
           Login \/ Connect \/ ConnectFails \/ LoginTimesOut \/ Throttled
             \/ LogonAnswered \/ LogonCompletes \/ Settle \/ Interrupted
    PROVE  IndInv'
<1> USE DEF IndInv
<1>1. CASE Login
  <2>1. TypeOK'
    <3>1. logins' \in 0 .. MaxLogins /\ firstWs' \in 1 .. MaxSockets + 1
      BY <1>1 DEF Login, TypeOK
    <3> QED BY <1>1, <3>1 DEF Login, TypeOK, Stages, Outcomes, CloserStages
  <2>2. (Numbered /\ Watched /\ Finished)'
    BY <1>1 DEF Login, TypeOK, Numbered, Watched, Finished, Sockets, LoggingIn, Gone
  <2> QED BY <2>1, <2>2
<1>2. CASE Connect
  <2>1. TypeOK'
    BY <1>2 DEF Connect, TypeOK, Sockets, Stages, LoggingIn, Outcomes, CloserStages, Connections, Threads
  <2>2. Numbered'
    BY <1>2 DEF Connect, TypeOK, Numbered, Sockets, LoggingIn
  <2>3. Watched'
    BY <1>2 DEF Connect, TypeOK, Numbered, Watched, Sockets, LoggingIn, Gone
  <2>4. Finished'
    BY <1>2 DEF Connect, TypeOK, Numbered, Finished, Sockets, LoggingIn, Gone
  <2> QED BY <2>1, <2>2, <2>3, <2>4
<1>3. CASE ConnectFails \/ LoginTimesOut
  <2>1. \E exc \in {"oserror", "nocms", "runtime", "timeout"} : LoginRaises(exc)
    BY <1>3 DEF ConnectFails, LoginTimesOut
  <2>2. main' \in {"out", "throttle"} /\ outcome' \in Outcomes
    BY <2>1, RaisesFact
  <2>3. TypeOK'
    BY <1>3, <2>2 DEF ConnectFails, LoginTimesOut, TypeOK, Stages
  <2>4. (Numbered /\ Watched /\ Finished)'
    BY <1>3, <2>2 DEF ConnectFails, LoginTimesOut, TypeOK, Numbered, Watched, Finished, Sockets, LoggingIn, Gone
  <2> QED BY <2>3, <2>4
<1>4. CASE Throttled \/ LogonAnswered \/ Interrupted
  <2>1. TypeOK'
    BY <1>4 DEF Throttled, LogonAnswered, Interrupted, TypeOK, Sockets, Stages, LoggingIn, Outcomes, CloserStages, Connections, Threads
  <2>2. Numbered'
    BY <1>4 DEF Throttled, LogonAnswered, Interrupted, TypeOK, Numbered, Sockets, LoggingIn
  <2>3. Watched'
    BY <1>4 DEF Throttled, LogonAnswered, Interrupted, TypeOK, Numbered, Watched, Sockets, LoggingIn, Gone
  <2>4. Finished'
    BY <1>4 DEF Throttled, LogonAnswered, Interrupted, TypeOK, Numbered, Finished, Sockets, LoggingIn, Gone
  <2> QED BY <2>1, <2>2, <2>3, <2>4
<1>5. CASE LogonCompletes
  <2>1. TypeOK'
    BY <1>5 DEF LogonCompletes, TypeOK, Sockets, Stages, LoggingIn, Outcomes, CloserStages, Connections, Threads
  <2>2. Numbered'
    BY <1>5 DEF LogonCompletes, TypeOK, Numbered, Sockets, LoggingIn
  <2>3. Watched'
    BY <1>5 DEF LogonCompletes, TypeOK, Numbered, Watched, Sockets, LoggingIn, Gone
  <2>4. Finished'
    BY <1>5 DEF LogonCompletes, TypeOK, Numbered, Finished, Sockets, LoggingIn, Gone
  <2> QED BY <2>1, <2>2, <2>3, <2>4
<1>6. CASE Settle
  <2>1. TypeOK'
    BY <1>6 DEF Settle, ReadStateWs, CachedWs, TypeOK, Sockets, Stages, LoggingIn, Outcomes, CloserStages, Connections, Threads
  <2>2. Numbered'
    BY <1>6 DEF Settle, ReadStateWs, CachedWs, TypeOK, Numbered, Sockets, LoggingIn
  <2>3. Watched'
    BY <1>6 DEF Settle, ReadStateWs, CachedWs, TypeOK, Numbered, Watched, Sockets, LoggingIn, Gone
  <2>4. Finished'
    BY <1>6 DEF Settle, ReadStateWs, CachedWs, TypeOK, Numbered, Finished, Sockets, LoggingIn, Gone
  <2> QED BY <2>1, <2>2, <2>3, <2>4
<1> QED BY <1>1, <1>2, <1>3, <1>4, <1>5, <1>6

(* Handlers, close(), the keep-alive threads and the network.              *)
LEMMA OtherStep ==
    ASSUME IndInv,
           \/ Close \/ Interrupt \/ CloseHttp \/ HandlerRaises \/ HandlerReadsWs \/ AllHandled
           \/ \E k \in Sockets : DispatchReady(k) \/ Expire(k) \/ HeartbeatFails(k) \/ PeerLeaves(k)
           \/ UNCHANGED vars
    PROVE  IndInv'
<1> USE DEF IndInv
<1>1. CASE Close \/ Interrupt
  <2>1. TypeOK'
    BY <1>1 DEF Close, Interrupt, StartClose, TypeOK, Sockets, Stages, LoggingIn, Outcomes, CloserStages, Connections, Threads
  <2>2. Numbered'
    BY <1>1 DEF Close, Interrupt, StartClose, TypeOK, Numbered, Sockets, LoggingIn
  <2>3. Watched'
    BY <1>1 DEF Close, Interrupt, StartClose, TypeOK, Numbered, Watched, Sockets, LoggingIn, Gone
  <2>4. Finished'
    BY <1>1 DEF Close, Interrupt, StartClose, TypeOK, Numbered, Finished, Sockets, LoggingIn, Gone
  <2> QED BY <2>1, <2>2, <2>3, <2>4
<1>2. CASE CloseHttp
  <2>1. TypeOK'
    BY <1>2 DEF CloseHttp, TypeOK, Sockets, Stages, LoggingIn, Outcomes, CloserStages, Connections, Threads
  <2>2. Numbered'
    BY <1>2 DEF CloseHttp, TypeOK, Numbered, Sockets, LoggingIn
  <2>3. Watched'
    BY <1>2 DEF CloseHttp, TypeOK, Numbered, Watched, Sockets, LoggingIn, Gone
  <2>4. Finished'
    BY <1>2 DEF CloseHttp, TypeOK, Finished, Connections, Gone
  <2> QED BY <2>1, <2>2, <2>3, <2>4
<1>3. CASE HandlerRaises
  <2>1. /\ main' \in {"out", "throttle"}
        /\ outcome' \in Outcomes
        /\ disconnected' \in BOOLEAN
    BY <1>3, TaskRaisesFact DEF HandlerRaises
  <2>2. TypeOK'
    BY <1>3, <2>1 DEF HandlerRaises, TypeOK, Stages
  <2>3. (Numbered /\ Watched /\ Finished)'
    BY <1>3, <2>1 DEF HandlerRaises, TypeOK, Numbered, Watched, Finished, Sockets, LoggingIn, Gone
  <2> QED BY <2>2, <2>3
<1>4. CASE HandlerReadsWs \/ AllHandled \/ UNCHANGED vars
  <2>1. TypeOK'
    BY <1>4 DEF HandlerReadsWs, AllHandled, vars, ReadStateWs, CachedWs, TypeOK
  <2>2. (Numbered /\ Watched /\ Finished)'
    BY <1>4 DEF HandlerReadsWs, AllHandled, vars, ReadStateWs, CachedWs, TypeOK, Numbered, Watched,
                Finished, Sockets, LoggingIn, Gone
  <2> QED BY <2>1, <2>2
<1>5. ASSUME NEW k \in Sockets, DispatchReady(k) \/ Expire(k) \/ PeerLeaves(k)
      PROVE  IndInv'
  <2>1. TypeOK'
    BY <1>5 DEF DispatchReady, Expire, PeerLeaves, TypeOK, Connections, Threads
  <2>2. Numbered'
    BY <1>5 DEF DispatchReady, Expire, PeerLeaves, TypeOK, Numbered, Sockets, LoggingIn
  <2>3. Watched'
    BY <1>5 DEF DispatchReady, Expire, PeerLeaves, TypeOK, Numbered, Watched, Sockets, Gone
  <2>4. Finished'
    BY <1>5 DEF DispatchReady, Expire, PeerLeaves, TypeOK, Finished, Sockets, Gone
  <2> QED BY <2>1, <2>2, <2>3, <2>4
<1>6. ASSUME NEW k \in Sockets, HeartbeatFails(k)
      PROVE  IndInv'
  <2>1. TypeOK'
    BY <1>6 DEF HeartbeatFails, ReadStateWs, CachedWs, StopIfPresent, TypeOK, Sockets, Stages, LoggingIn, Outcomes, CloserStages, Connections, Threads
  <2>2. Numbered'
    BY <1>6 DEF HeartbeatFails, ReadStateWs, CachedWs, StopIfPresent, TypeOK, Numbered, Sockets, LoggingIn
  <2>3. Watched'
    BY <1>6 DEF HeartbeatFails, ReadStateWs, CachedWs, StopIfPresent, TypeOK, Numbered, Watched, Sockets, LoggingIn, Gone
  <2>4. Finished'
    BY <1>6 DEF HeartbeatFails, ReadStateWs, CachedWs, StopIfPresent, TypeOK, Numbered, Finished, Sockets, LoggingIn, Gone
  <2> QED BY <2>1, <2>2, <2>3, <2>4
<1> QED BY <1>1, <1>2, <1>3, <1>4, <1>5, <1>6

----------------------------------------------------------------------------
(* The inductive invariant: every action of the specification keeps it.    *)
THEOREM Invariance == Spec => []IndInv
<1>1. IndInv /\ [Next]_vars => IndInv'
  BY LosingStep, LoginStep, OtherStep DEF Next, LoginTask, CloseTask
<1> QED BY InitIndInv, <1>1, PTL DEF Spec

(* The variables keep their types: no thread ends up in an AttributeError. *)
THEOREM TypeCorrect == Spec => []TypeOK
<1>1. IndInv => TypeOK
  BY DEF IndInv
<1> QED BY Invariance, <1>1, PTL

(* A session that polls its own socket has a running keep-alive thread     *)
(* until that socket is gone.                                              *)
THEOREM SessionWatched == Spec => []SessionIsWatched
<1>1. IndInv => SessionIsWatched
  BY DEF IndInv, Watched, SessionIsWatched
<1> QED BY Invariance, <1>1, PTL

(* No login that close() overtook becomes a session.                       *)
THEOREM ClosedForGood == Spec => NoSessionAfterClose
<1>1. IndInv /\ [Next]_vars => [main # "poll" /\ main' = "poll" => closer # "done"]_vars
  <2> SUFFICES ASSUME IndInv, Next, main # "poll", main' = "poll", closer = "done"
               PROVE  FALSE
    OBVIOUS
  <2>1. Settle
    BY DEF Next, Login, Close, Interrupt, LoginTask, CloseTask, Connect, ConnectFails, LoginTimesOut,
           Throttled, LogonAnswered, LogonRefused, LogonCompletes, LoginConnectionLost, SessionLost,
           Interrupted, LoggedOff, HandlerRaises, HandlerReadsWs, AllHandled, CloseSocket, CloseHttp,
           DispatchReady, Expire, HeartbeatFails, PeerLeaves, LoginRaises, SessionRaises, TaskRaises
  <2>2. clientWs \in Sockets /\ clientWs >= firstWs /\ ~Gone(clientWs) /\ sock[clientWs] # "absent"
    BY <2>1 DEF IndInv, TypeOK, Numbered, Settle, Sockets, LoggingIn
  <2> QED BY <2>2 DEF IndInv, Finished
<1> QED BY Invariance, <1>1, PTL DEF Spec, NoSessionAfterClose
=============================================================================
