--------------------------- MODULE Confirmations ----------------------------
(***************************************************************************)
(* TradeOffer.confirm (trade.py) and what it waits for: ConnectionState's  *)
(* wait_for_confirmation, poll_confirmations, fill_confirmations and the   *)
(* confirmation queue (state.py), and the request that confirms (guard.py).*)
(*                                                                         *)
(* Tasks confirm trades, also two the same one; one task polls the list of *)
(* confirmations that Steam wants; each request takes a code.              *)
(*                                                                         *)
(* Abstractions.  The queue is the set of trades with at least one copy of *)
(* their confirmation in it.  _confirmations, which nothing reads, is left *)
(* out.                                                                    *)
(***************************************************************************)
EXTENDS ConfirmationCodes

CONSTANTS Trades,   \* the trades, and whatever else Steam wants confirmed
          Tasks,    \* the calls of confirm()
          TradeOf,  \* the trade each of them confirms
          NoTask

ASSUME TradeOfAssumption == TradeOf \in [Tasks -> Trades]
ASSUME NoTaskAssumption == NoTask \notin Tasks
ASSUME TagsAssumption == Tags = {"list", "allow"}

VARIABLES steam,  \* which confirmations Steam wants, or has
          task,   \* where each call of confirm() is
          waiter, \* _waiting_for: whose future is to be set for a trade
          queued, \* the trades in confirmation_queue
          poll,   \* where the task that polls is
          asked,  \* whether a task that calls poll_confirmations has yet to run
          listed  \* the list Steam answered with

vars == <<steam, task, waiter, queued, poll, asked, listed, codeVars>>

Wants == {"none", "pending", "done"}
PollStages == {"off", "code", "fetch", "answered", "rest", "dead"}
Stages == {"none", "waiting", "resolved", "code", "acting", "confirmed", "refused",
           "raised", "cancelled"}

TypeOK ==
    /\ CodesTypeOK
    /\ steam \in [Trades -> Wants]
    /\ task \in [Tasks -> Stages]
    /\ waiter \in [Trades -> Tasks \union {NoTask}]
    /\ queued \subseteq Trades
    /\ poll \in PollStages
    /\ asked \in BOOLEAN
    /\ listed \subseteq Trades

Init ==
    /\ CodesInit
    /\ steam = [t \in Trades |-> "none"]
    /\ task = [k \in Tasks |-> "none"]
    /\ waiter = [t \in Trades |-> NoTask]
    /\ queued = {}
    /\ poll = "off"
    /\ asked = FALSE
    /\ listed = {}

----------------------------------------------------------------------------
(* Steam and the user's phone. *)

Want(t) ==
    /\ steam[t] = "none"
    /\ steam' = [steam EXCEPT ![t] = "pending"]
    /\ UNCHANGED <<task, waiter, queued, poll, asked, listed, codeVars>>

\* It is confirmed or cancelled there.
Settle(t) ==
    /\ steam[t] = "pending"
    /\ steam' = [steam EXCEPT ![t] = "done"]
    /\ UNCHANGED <<task, waiter, queued, poll, asked, listed, codeVars>>

----------------------------------------------------------------------------
(* TradeOffer.confirm(), called when Steam has said it wants it. *)

\* One copy leaves the queue; there may be more.
RemoveFromQueue(t) == queued' \in {queued, queued \ {t}}

\* Poll, and look whether the queue has it already; else wait, in the place
\* of who waited before.
Confirm(k) ==
    LET t == TradeOf[k]
    IN  /\ task[k] = "none"
        /\ steam[t] # "none"
        /\ asked' = TRUE
        /\ IF t \in queued
           THEN /\ task' = [task EXCEPT ![k] = "code"]
                /\ RemoveFromQueue(t)
                /\ UNCHANGED waiter
           ELSE /\ task' = [task EXCEPT ![k] = "waiting"]
                /\ waiter' = [waiter EXCEPT ![t] = k]
                /\ UNCHANGED queued
        /\ UNCHANGED <<steam, poll, listed, codeVars>>

\* The future was set: take the confirmation out of the queue, which raises
\* ValueError if another call took it.
Resume(k) ==
    LET t == TradeOf[k]
    IN  /\ task[k] = "resolved"
        /\ IF t \in queued
           THEN task' = [task EXCEPT ![k] = "code"] /\ RemoveFromQueue(t)
           ELSE task' = [task EXCEPT ![k] = "raised"] /\ UNCHANGED queued
        /\ UNCHANGED <<steam, waiter, poll, asked, listed, codeVars>>

GetAllowCode(k) ==
    /\ task[k] = "code"
    /\ GetCode("allow")
    /\ task' = [task EXCEPT ![k] = "acting"]
    /\ UNCHANGED <<steam, waiter, queued, poll, asked, listed>>

\* Steam does it, or refuses what is settled: ConfirmationError.
Perform(k) ==
    LET t == TradeOf[k]
    IN  /\ task[k] = "acting"
        /\ task' = [task EXCEPT ![k] = IF steam[t] = "pending" THEN "confirmed" ELSE "refused"]
        /\ steam' = [steam EXCEPT ![t] = "done"]
        /\ UNCHANGED <<waiter, queued, poll, asked, listed, codeVars>>

\* The task is cancelled; its future stays in _waiting_for.
Cancel(k) ==
    /\ task[k] = "waiting"
    /\ task' = [task EXCEPT ![k] = "cancelled"]
    /\ UNCHANGED <<steam, waiter, queued, poll, asked, listed, codeVars>>

----------------------------------------------------------------------------
(* poll_confirmations *)

\* It returns at once if it is running.
StartPoll ==
    /\ asked
    /\ poll # "dead"
    /\ asked' = FALSE
    /\ poll' = IF poll = "off" THEN "code" ELSE poll
    /\ UNCHANGED <<steam, task, waiter, queued, listed, codeVars>>

GetListCode ==
    /\ poll = "code"
    /\ GetCode("list")
    /\ poll' = "fetch"
    /\ UNCHANGED <<steam, task, waiter, queued, asked, listed>>

\* Steam makes its list; it is on its way.
Answer ==
    /\ poll = "fetch"
    /\ poll' = "answered"
    /\ listed' = {t \in Trades : steam[t] = "pending"}
    /\ UNCHANGED <<steam, task, waiter, queued, asked, codeVars>>

\* Status 429: sleep, and start again with another code.
AskAgain ==
    /\ poll = "fetch"
    /\ poll' = "code"
    /\ UNCHANGED <<steam, task, waiter, queued, asked, listed, codeVars>>

\* Any other failure leaves poll_confirmations and ends the session.
FetchFails ==
    /\ poll = "fetch"
    /\ poll' = "dead"
    /\ UNCHANGED <<steam, task, waiter, queued, asked, listed, codeVars>>

In(stage) == {k \in Tasks : task[k] = stage}

\* Where the polling task goes once the queue is q.
NextPoll(q) == IF q # {} THEN "rest" ELSE "off"

\* A bug a mutant checks: the waiters are not looked up.
QueueWithoutResolving ==
    /\ poll = "answered"
    /\ \A t \in listed : waiter[t] \notin In("cancelled")
    /\ queued' = queued \union listed
    /\ poll' = NextPoll(queued')
    /\ listed' = {}
    /\ UNCHANGED <<steam, task, waiter, asked, codeVars>>

\* A bug a mutant checks: what is waited for is not queued.
QueueUnawaited ==
    /\ poll = "answered"
    /\ \A t \in listed : waiter[t] \notin In("cancelled")
    /\ queued' = queued \union {t \in listed : waiter[t] = NoTask}
    /\ task' = [k \in Tasks |-> IF \E t \in listed : waiter[t] = k THEN "resolved" ELSE task[k]]
    /\ waiter' = [t \in Trades |-> IF t \in listed THEN NoTask ELSE waiter[t]]
    /\ poll' = NextPoll(queued')
    /\ listed' = {}
    /\ UNCHANGED <<steam, asked, codeVars>>

\* Queue.__iadd__, then "while self.confirmation_queue.queue" before anyone
\* resumes.
QueueListed ==
    /\ poll = "answered"
    /\ \A t \in listed : waiter[t] \notin In("cancelled")
    /\ queued' = queued \union listed
    /\ task' = [k \in Tasks |-> IF \E t \in listed : waiter[t] = k THEN "resolved" ELSE task[k]]
    /\ waiter' = [t \in Trades |-> IF t \in listed THEN NoTask ELSE waiter[t]]
    /\ poll' = NextPoll(queued')
    /\ listed' = {}
    /\ UNCHANGED <<steam, asked, codeVars>>

\* The future of a cancelled task is among them: InvalidStateError.
QueueListedRaises ==
    /\ poll = "answered"
    /\ queued' = queued \union listed
    /\ \E t \in listed : waiter[t] \in In("cancelled")
    /\ \E reached \in SUBSET {t \in listed : waiter[t] \in In("waiting")} :
          /\ task' = [k \in Tasks |-> IF \E t \in reached : waiter[t] = k THEN "resolved" ELSE task[k]]
          /\ waiter' = [t \in Trades |-> IF t \in reached THEN NoTask ELSE waiter[t]]
    /\ poll' = "dead"
    /\ listed' = {}
    /\ UNCHANGED <<steam, asked, codeVars>>

\* The sleep is over.
Rest ==
    /\ poll = "rest"
    /\ poll' = "code"
    /\ UNCHANGED <<steam, task, waiter, queued, asked, listed, codeVars>>

----------------------------------------------------------------------------
PassTime == Tick /\ UNCHANGED <<steam, task, waiter, queued, poll, asked, listed>>
FireTimer(tag) == Release(tag) /\ UNCHANGED <<steam, task, waiter, queued, poll, asked, listed>>

Poll == StartPoll \/ GetListCode \/ QueueListed \/ QueueListedRaises \/ Rest
Goes(k) == Resume(k) \/ GetAllowCode(k) \/ Perform(k)

Next ==
    \/ \E t \in Trades : Want(t) \/ Settle(t)
    \/ \E k \in Tasks : Confirm(k) \/ Goes(k) \/ Cancel(k)
    \/ Poll \/ Answer \/ AskAgain \/ FetchFails
    \/ PassTime \/ \E tag \in Tags : FireTimer(tag)

(* The event loop runs what is ready, and time passes.  Steam answers some *)
(* time, however often it says that there were too many requests.          *)
Fairness ==
    /\ WF_vars(PassTime) /\ \A tag \in Tags : WF_vars(FireTimer(tag))
    /\ WF_vars(Poll) /\ SF_vars(Answer)
    /\ \A k \in Tasks : WF_vars(Goes(k))

Spec == Init /\ [][Next]_vars /\ Fairness

----------------------------------------------------------------------------
(* Nobody waits for a confirmation that is in the queue, but a task whose   *)
(* place in _waiting_for another took.                                     *)
NoLostWaiter ==
    poll # "dead" => \A t \in queued : waiter[t] \notin In("waiting")

\* The calls of confirm() that took their confirmation out of the queue.
Took == {k \in Tasks : task[k] \in {"code", "acting", "confirmed", "refused"}}

(* The queue loses a confirmation between the setting of its future and    *)
(* the resumption of who waits for it only to another call of confirm()    *)
(* for the same trade.                                                     *)
OnlyRivalsRaise ==
    \A k \in Tasks : task[k] = "raised" => \E j \in Took : TradeOf[j] = TradeOf[k]

(* A call of confirm() whose confirmation Steam wants is resumed, if no    *)
(* list made before is on its way when it comes, unless the confirmation   *)
(* is settled on the phone, the session ends, or another call overtakes it.*)
AskedForIsFound ==
    \A k \in Tasks :
        /\ task[k] = "waiting" /\ waiter[TradeOf[k]] = k
        /\ poll \in {"code", "fetch", "rest"} \/ (poll = "off" /\ asked)
        ~> \/ task[k] # "waiting" \/ waiter[TradeOf[k]] # k
           \/ steam[TradeOf[k]] = "done" \/ poll = "dead"
=============================================================================
