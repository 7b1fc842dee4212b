-------------------------------- MODULE Jobs --------------------------------
(***************************************************************************)
(* Requests and their answers on one CM web socket (steam/gateway.py).      *)
(*                                                                         *)
(* A coroutine that calls send_um_and_wait or send_proto_and_wait takes    *)
(* the next job id, registers a listener (a future and a check), sends,    *)
(* and awaits the future.  receive() runs synchronously for each message:  *)
(* it walks the listeners in order, and settles and removes those whose    *)
(* check accepts the message.  Everything else here is what may happen     *)
(* between two awaits: other callers, cancellation, unsolicited messages,  *)
(* messages that cannot be parsed, and the socket going away.              *)
(*                                                                         *)
(* Abstractions.  The listeners are a set: every one that accepts a        *)
(* message is settled in the same synchronous walk, so their order tells   *)
(* nothing apart.  A message is whether it is a unified message, its        *)
(* job_id_target, and (a history component) which request it answers.      *)
(* Callers that pass their own check are not here.  serial, born,          *)
(* answered and lost are history variables: the code does not keep them.   *)
(***************************************************************************)
EXTENDS Integers

CONSTANTS Calls,      \* the calls of send_um_and_wait and send_proto_and_wait
          UmCalls,    \* those that are send_um_and_wait
          Modulus,    \* 10000 in the code: job ids are 1 .. Modulus - 1
          MaxSerial   \* bound: how many job ids are handed out

ASSUME UmAssumption == UmCalls \subseteq Calls
ASSUME ModulusAssumption == Modulus \in Nat /\ Modulus >= 2
ASSUME MaxSerialAssumption == MaxSerial \in Nat

VARIABLES currentJobId,  \* SteamWebSocket._current_job_id
          listeners,     \* SteamWebSocket.listeners: the calls that have an entry
          job,           \* the id a call compares job_id_target with
          fut,           \* the state of a call's future
          pc,            \* where the calling coroutine is
          atServer,      \* requests the server has not answered
          socketOpen,
          serial,        \* how many ids have been handed out
          born,          \* which of them a call was given
          answered,      \* the request whose answer settled a call's future
          lost           \* the requests whose answer receive() gave up on

vars == <<currentJobId, listeners, job, fut, pc, atServer, socketOpen,
          serial, born, answered, lost>>

Serials == 0 .. MaxSerial
Requests == [serial : 1 .. MaxSerial, job : 1 .. Modulus - 1, um : BOOLEAN]

TypeOK ==
    /\ currentJobId \in 0 .. Modulus - 1
    /\ listeners \subseteq Calls
    /\ job \in [Calls -> 0 .. Modulus - 1]
    /\ fut \in [Calls -> {"none", "pending", "result", "cancelled"}]
    /\ pc \in [Calls -> {"idle", "sending", "awaiting", "returned", "raised", "cancelled"}]
    /\ atServer \subseteq Requests
    /\ socketOpen \in BOOLEAN
    /\ serial \in Serials
    /\ born \in [Calls -> Serials]
    /\ answered \in [Calls -> Serials]
    /\ lost \subseteq Serials

Init ==
    /\ currentJobId = 0
    /\ listeners = {}
    /\ job = [c \in Calls |-> 0]
    /\ fut = [c \in Calls |-> "none"]
    /\ pc = [c \in Calls |-> "idle"]
    /\ atServer = {}
    /\ socketOpen = TRUE
    /\ serial = 0
    /\ born = [c \in Calls |-> 0]
    /\ answered = [c \in Calls |-> 0]
    /\ lost = {}

----------------------------------------------------------------------------
\* A bug a mutant checks: 0 is not passed over.
NextJobIdZero(x) == (x + 1) % Modulus

(* next_job_id: (x + 1) % 10000 or 1, so that 0, the job_id_target of a    *)
(* message that answers nothing, is never handed out.                      *)
NextJobId(x) == LET next == (x + 1) % Modulus IN IF next = 0 THEN 1 ELSE next

TakeJobId ==
    /\ serial < MaxSerial
    /\ serial' = serial + 1
    /\ currentJobId' = NextJobId(currentJobId)

\* The bytes are written before the coroutine first suspends.
Transmit(um) ==
    atServer' = IF socketOpen
                THEN atServer \union {[serial |-> serial', job |-> currentJobId', um |-> um]}
                ELSE atServer

(* send_um_and_wait and send_proto_and_wait up to the await in send().  On *)
(* a closed socket send() calls handle_close, which raises ConnectionClosed *)
(* in the caller; the listener it has just registered stays behind.        *)
Request(c) ==
    /\ pc[c] = "idle"
    /\ TakeJobId
    /\ job' = [job EXCEPT ![c] = currentJobId']
    /\ born' = [born EXCEPT ![c] = serial']
    /\ fut' = [fut EXCEPT ![c] = "pending"]
    /\ listeners' = listeners \union {c}
    /\ Transmit(c \in UmCalls)
    /\ pc' = [pc EXCEPT ![c] = IF socketOpen THEN "sending" ELSE "raised"]
    /\ UNCHANGED <<socketOpen, answered, lost>>

\* send_um on its own: it takes an id and is answered, and nobody waits.
SendUm ==
    /\ TakeJobId
    /\ Transmit(TRUE)
    /\ UNCHANGED <<listeners, job, fut, pc, socketOpen, born, answered, lost>>

\* send() has finished; the coroutine awaits its future.
Sent(c) ==
    /\ pc[c] = "sending"
    /\ pc' = [pc EXCEPT ![c] = "awaiting"]
    /\ UNCHANGED <<currentJobId, listeners, job, fut, atServer, socketOpen,
                   serial, born, answered, lost>>

\* The event loop resumes a coroutine whose future has a result.
Return(c) ==
    /\ pc[c] = "awaiting"
    /\ fut[c] = "result"
    /\ pc' = [pc EXCEPT ![c] = "returned"]
    /\ UNCHANGED <<currentJobId, listeners, job, fut, atServer, socketOpen,
                   serial, born, answered, lost>>

(* The calling task is cancelled (a timeout, a task group that aborts).    *)
(* Only a future that is being awaited is cancelled with it.               *)
Cancel(c) ==
    /\ pc[c] \in {"sending", "awaiting"}
    /\ pc' = [pc EXCEPT ![c] = "cancelled"]
    /\ fut' = IF pc[c] = "awaiting" /\ fut[c] = "pending"
              THEN [fut EXCEPT ![c] = "cancelled"]
              ELSE fut
    /\ UNCHANGED <<currentJobId, listeners, job, atServer, socketOpen,
                   serial, born, answered, lost>>

----------------------------------------------------------------------------
(* receive().  A listener registered with an emsg sees only that emsg, one *)
(* registered with None sees every message.                                *)
Concerns(c, m) == m.um \/ c \notin UmCalls

Accepts(c, m) == Concerns(c, m) /\ fut[c] # "cancelled" /\ m.target = job[c]

\* A bug a mutant checks: whoever sees a message goes.
RemovedIfConcerned(c, m) == Concerns(c, m)

Removed(c, m) == Concerns(c, m) /\ (fut[c] = "cancelled" \/ m.target = job[c])

Dispatch(m) ==
    LET settled == {c \in listeners : Accepts(c, m)} IN
    /\ fut' = [c \in Calls |-> IF c \in settled THEN "result" ELSE fut[c]]
    /\ answered' = [c \in Calls |-> IF c \in settled THEN m.serial ELSE answered[c]]
    /\ listeners' = {c \in listeners : ~Removed(c, m)}

\* The answer to a request, in whatever order the server answers.
Answer(r) ==
    /\ socketOpen
    /\ r \in atServer
    /\ atServer' = atServer \ {r}
    /\ Dispatch([um |-> r.um, target |-> r.job, serial |-> r.serial])
    /\ UNCHANGED <<currentJobId, job, pc, socketOpen, serial, born, lost>>

\* A message that answers nothing: its job_id_target has the default, 0.
Push(um) ==
    /\ socketOpen
    /\ Dispatch([um |-> um, target |-> 0, serial |-> 0])
    /\ UNCHANGED <<currentJobId, job, pc, atServer, socketOpen, serial, born, lost>>

(* The two early returns of receive(): the message cannot be parsed, or    *)
(* the handler registered for its emsg raises.  No listener sees it.       *)
Discard(r) ==
    /\ socketOpen
    /\ r \in atServer
    /\ atServer' = atServer \ {r}
    /\ lost' = lost \union {r.serial}
    /\ UNCHANGED <<currentJobId, listeners, job, fut, pc, socketOpen, serial, born, answered>>

(* The socket is gone: poll_event reads no more and no listener is settled *)
(* or cancelled.                                                           *)
Close ==
    /\ socketOpen
    /\ socketOpen' = FALSE
    /\ UNCHANGED <<currentJobId, listeners, job, fut, pc, atServer, serial, born, answered, lost>>

Next ==
    \/ \E c \in Calls : Request(c) \/ Sent(c) \/ Return(c) \/ Cancel(c)
    \/ SendUm
    \/ \E r \in atServer : Answer(r) \/ Discard(r)
    \/ \E um \in BOOLEAN : Push(um)
    \/ Close

(* The event loop resumes what is ready, and a server that stays connected *)
(* answers.  Nothing makes a call be issued, be cancelled or be lost.      *)
Fairness ==
    /\ \A c \in Calls : WF_vars(Sent(c)) /\ WF_vars(Return(c))
    /\ \A n \in 1 .. MaxSerial :
          WF_vars(\E r \in atServer : r.serial = n /\ (Answer(r) \/ Discard(r)))

Spec == Init /\ [][Next]_vars /\ Fairness

----------------------------------------------------------------------------
(* receive() settles a listener's future without asking whether it is      *)
(* settled already: set_result on a finished future raises out of the      *)
(* loop, and the listeners after it would miss the message.  It cannot     *)
(* happen, because every listener's future is still pending or cancelled.  *)
NoSettledListener ==
    \A c \in listeners : fut[c] \in {"pending", "cancelled"}

(* No wakeup is lost: a future nobody has settled is still listed, so the  *)
(* answer that arrives next finds it, even while the caller is still       *)
(* suspended in send().                                                    *)
NoLostWaiter ==
    \A c \in Calls : fut[c] = "pending" => c \in listeners

(* A call returns the answer to its own request.  The only other answers   *)
(* it can return are those of requests at least Modulus - 1 ids away, when *)
(* next_job_id has come round to an id that is still in use; an            *)
(* unsolicited message (serial 0) is never among them.                     *)
Correlated ==
    \A c \in Calls : fut[c] = "result" =>
        /\ answered[c] # 0
        /\ \/ answered[c] = born[c]
           \/ answered[c] - born[c] >= Modulus - 1
           \/ born[c] - answered[c] >= Modulus - 1

(* Once settled, a future keeps its result: no later message replaces the  *)
(* answer a caller has been given but has not yet been resumed with.       *)
ResultsAreFinal ==
    [][\A c \in Calls : fut[c] = "result" => fut'[c] = "result" /\ answered'[c] = answered[c]]_vars

(* A caller that awaits an answer is resumed, unless its answer was one    *)
(* receive() gave up on or the socket was closed.  Close is the hazard:    *)
(* nothing wakes the callers it leaves behind.                             *)
AnsweredEventually ==
    \A c \in Calls :
        pc[c] = "awaiting" ~> pc[c] # "awaiting" \/ born[c] \in lost \/ ~socketOpen
=============================================================================
