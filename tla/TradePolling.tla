---------------------------- MODULE TradePolling ----------------------------
(***************************************************************************)
(* How the client learns of trade offers: ConnectionState.poll_trades,     *)
(* fill_trades, _process_trades, fetch_trade, wait_for_trade and the trade *)
(* queue (state.py), and PartialUser._send_trade, which waits in it        *)
(* (abc.py).                                                               *)
(*                                                                         *)
(* One task polls (poll_trades is wrapped in call_once without wait);      *)
(* tasks that send or fetch a trade run beside it, and Steam's view of a   *)
(* trade moves on beside them all.  Both polling and fetch_trade update    *)
(* what the client knows; only polling resolves who waits for a trade.     *)
(*                                                                         *)
(* Abstractions.  Every trade has items and a partner who can be fetched.  *)
(* A trade's final states are one.  The queue is the set of trades with at *)
(* least one copy in it.  An answer with status 429 is a slow one; what    *)
(* else get_trade_offers raises ends the session (AnswerRaises).  Bound:   *)
(* one call of fetch_trade is under way at a time.  A behaviour stops when  *)
(* the session does.                                                       *)
(***************************************************************************)
CONSTANTS Sent,     \* trades the client sends, by send() or from another device
          Received, \* trades others send
          Fetchable \* trades the user calls fetch_trade for

ASSUME TradesAssumption == Sent \intersect Received = {}

VARIABLES steam,   \* Steam's view of each trade
          known,   \* the state of the trade object in _trades, "absent" if there is none
          watch,   \* _trades_to_watch
          queued,  \* the trades in trade_queue
          send,    \* where the task that sends the trade is
          poll,    \* where the task that polls is
          asked,   \* whether a task that calls poll_trades has yet to run
          answer,  \* what Steam answered to the request under way
          fetched, \* what it answered to a fetch_trade of each trade, "absent" if none is under way
          taken,   \* history: trades fetch_trade stopped watching while their sender waited
          omitted  \* history: trades an answer left out while their sender waited

histories == <<taken, omitted>>
vars == <<steam, known, watch, queued, send, poll, asked, answer, fetched, taken, omitted>>

Trades == Sent \union Received
Live == {"active", "confirm"}
TradeStates == Live \union {"absent", "done"}
SendStages == {"none", "sending", "confirming", "confirmed", "waiting", "resolved",
               "returned", "failed", "cancelled"}
PollStages == {"off", "fetch", "answered", "users1", "users2", "rest", "dead"}

TypeOK ==
    /\ steam \in [Trades -> TradeStates]
    /\ known \in [Trades -> TradeStates]
    /\ watch \subseteq Trades
    /\ queued \subseteq Trades
    /\ send \in [Sent -> SendStages]
    /\ poll \in PollStages
    /\ asked \in BOOLEAN
    /\ answer \in [Trades -> TradeStates]
    /\ fetched \in [Trades -> TradeStates]
    /\ taken \subseteq Sent
    /\ omitted \subseteq Sent

Nothing == [t \in Trades |-> "absent"]

Init ==
    /\ steam = Nothing
    /\ known = Nothing
    /\ watch = {}
    /\ queued = {}
    /\ send = [t \in Sent |-> "none"]
    /\ poll = "off"
    /\ asked = FALSE
    /\ answer = Nothing
    /\ fetched = Nothing
    /\ taken = {}
    /\ omitted = {}

----------------------------------------------------------------------------
(* Steam, the partner, and the user's other devices. *)

\* A trade is offered without the library.
Offer(t) ==
    /\ steam[t] = "absent"
    /\ \E s \in IF t \in Sent THEN Live ELSE {"active"} : steam' = [steam EXCEPT ![t] = s]
    /\ UNCHANGED <<known, watch, queued, send, poll, asked, answer, fetched, histories>>

Confirm(t) ==
    /\ steam[t] = "confirm"
    /\ steam' = [steam EXCEPT ![t] = "active"]
    /\ UNCHANGED <<known, watch, queued, send, poll, asked, answer, fetched, histories>>

\* It is accepted, declined, cancelled, or expires.
End(t) ==
    /\ steam[t] \in Live
    /\ steam' = [steam EXCEPT ![t] = "done"]
    /\ UNCHANGED <<known, watch, queued, send, poll, asked, answer, fetched, histories>>

----------------------------------------------------------------------------
(* send() *)

\* Steam takes the trade; its answer is on its way.
Send(t) ==
    /\ send[t] = "none"
    /\ steam[t] = "absent"
    /\ \E s \in Live :
          /\ steam' = [steam EXCEPT ![t] = s]
          /\ send' = [send EXCEPT ![t] = IF s = "confirm" THEN "confirming" ELSE "sending"]
    /\ UNCHANGED <<known, watch, queued, poll, asked, answer, fetched, histories>>

\* trade.confirm() succeeds, if need be after some attempts.
ConfirmSent(t) ==
    /\ send[t] = "confirming"
    /\ steam[t] = "confirm"
    /\ steam' = [steam EXCEPT ![t] = "active"]
    /\ send' = [send EXCEPT ![t] = "confirmed"]
    /\ UNCHANGED <<known, watch, queued, poll, asked, answer, fetched, histories>>

\* It does not in five attempts: ConfirmationError.
ConfirmFails(t) ==
    /\ send[t] = "confirming"
    /\ send' = [send EXCEPT ![t] = "failed"]
    /\ UNCHANGED <<steam, known, watch, queued, poll, asked, answer, fetched, histories>>

\* One copy leaves the queue; there may be more.
RemoveFromQueue(t) == queued' \in {queued, queued \ {t}}

\* A bug a mutant checks: the trade is not watched.
WaitUnwatched(t) ==
    /\ send[t] \in {"sending", "confirmed"}
    /\ known' = [known EXCEPT ![t] = "active"]
    /\ asked' = TRUE
    /\ IF t \in queued
       THEN send' = [send EXCEPT ![t] = "returned"] /\ RemoveFromQueue(t)
       ELSE send' = [send EXCEPT ![t] = "waiting"] /\ UNCHANGED queued
    /\ UNCHANGED <<steam, watch, poll, answer, fetched, histories>>

\* The trade, as sent, becomes the one in _trades; wait_for_trade watches it,
\* starts a task that polls, and looks whether the queue has it already.
WaitForTrade(t) ==
    /\ send[t] \in {"sending", "confirmed"}
    /\ known' = [known EXCEPT ![t] = "active"]
    /\ watch' = watch \union {t}
    /\ asked' = TRUE
    /\ IF t \in queued
       THEN send' = [send EXCEPT ![t] = "returned"] /\ RemoveFromQueue(t)
       ELSE send' = [send EXCEPT ![t] = "waiting"] /\ UNCHANGED queued
    /\ UNCHANGED <<steam, poll, answer, fetched, histories>>

\* The future was set: take the trade out of the queue, and return.
Resume(t) ==
    /\ send[t] = "resolved"
    /\ send' = [send EXCEPT ![t] = "returned"]
    /\ RemoveFromQueue(t)
    /\ UNCHANGED <<steam, known, watch, poll, asked, answer, fetched, histories>>

\* The task is cancelled; its future stays in _waiting_for.
CancelSend(t) ==
    /\ send[t] = "waiting"
    /\ send' = [send EXCEPT ![t] = "cancelled"]
    /\ UNCHANGED <<steam, known, watch, queued, poll, asked, answer, fetched, histories>>

----------------------------------------------------------------------------
(* poll_trades *)

\* A notification, or the task wait_for_trade started, calls poll_trades,
\* which returns at once if it is being called.
StartPoll ==
    /\ poll # "dead"
    /\ poll' = IF poll = "off" THEN "fetch" ELSE poll
    /\ asked' = FALSE
    /\ UNCHANGED <<steam, known, watch, queued, send, answer, fetched, histories>>

\* Steam answers get_trade_offers(), which asks for the active ones: a trade
\* that ended may be left out.
Answer ==
    /\ poll = "fetch"
    /\ poll' = "answered"
    /\ \E left \in SUBSET {t \in Trades : steam[t] = "done"} :
          /\ answer' = [t \in Trades |-> IF t \in left THEN "absent" ELSE steam[t]]
          /\ omitted' = omitted \union {t \in left \intersect Sent : send[t] = "waiting"}
    /\ UNCHANGED <<steam, known, watch, queued, send, asked, fetched, taken>>

\* It does not: an HTTPException other than 429 leaves poll_trades, and the
\* task it is in ends the session.
AnswerRaises ==
    /\ poll = "fetch"
    /\ poll' = "dead"
    /\ UNCHANGED <<steam, known, watch, queued, send, asked, answer, fetched, histories>>

Batch(side) == {t \in side : answer[t] # "absent"}

\* A bug a mutant checks: known trades are left as they are.
ProcessOnlyNew(batch, view) ==
    LET new == {t \in batch : known[t] = "absent"}
    IN  /\ known' = [t \in Trades |-> IF t \in new THEN view[t] ELSE known[t]]
        /\ watch' = watch \union {t \in new : view[t] \in Live}

\* _process_trades, up to its await: new trades are watched if they are live,
\* known ones are updated, and no longer watched if their state changed.
Process(batch, view) ==
    LET new == {t \in batch : known[t] = "absent"}
        changed == {t \in batch \ new : view[t] # known[t]}
    IN  /\ known' = [t \in Trades |-> IF t \in batch THEN view[t] ELSE known[t]]
        /\ watch' = (watch \union {t \in new : view[t] \in Live}) \ changed

ProcessReceived ==
    /\ poll = "answered"
    /\ poll' = "users1"
    /\ Process(Batch(Received), answer)
    /\ UNCHANGED <<steam, queued, send, asked, answer, fetched, histories>>

\* The partners are known: the received trades are queued, nobody waits for
\* them, and the sent ones are processed.
ProcessSent ==
    /\ poll = "users1"
    /\ poll' = "users2"
    /\ queued' = queued \union Batch(Received)
    /\ Process(Batch(Sent), answer)
    /\ UNCHANGED <<steam, send, asked, answer, fetched, histories>>

\* Who is resolved when those in "reached" are looked up in _waiting_for.
Resolve(reached) ==
    send' = [t \in Sent |-> IF t \in reached /\ send[t] = "waiting" THEN "resolved" ELSE send[t]]

\* A bug a mutant checks: who waits is not looked up.
QueueWithoutResolving ==
    /\ poll = "users2"
    /\ poll' = "rest"
    /\ queued' = queued \union Batch(Sent)
    /\ answer' = Nothing
    /\ UNCHANGED <<steam, known, watch, send, asked, fetched, histories>>

\* Queue.__iadd__: queue all, then resolve who waits.
QueueSent ==
    /\ poll = "users2"
    /\ \A t \in Batch(Sent) : send[t] # "cancelled"
    /\ poll' = "rest"
    /\ queued' = queued \union Batch(Sent)
    /\ Resolve(Batch(Sent))
    /\ answer' = Nothing
    /\ UNCHANGED <<steam, known, watch, asked, fetched, histories>>

\* The future of a cancelled task is among them: InvalidStateError, after
\* some were resolved, leaves poll_trades and ends the session.
QueueSentRaises ==
    /\ poll = "users2"
    /\ \E t \in Batch(Sent) : send[t] = "cancelled"
    /\ poll' = "dead"
    /\ queued' = queued \union Batch(Sent)
    /\ \E reached \in SUBSET Batch(Sent) : Resolve(reached)
    /\ answer' = Nothing
    /\ UNCHANGED <<steam, known, watch, asked, fetched, histories>>

\* A bug a mutant checks: the loop runs once.
RestOnce ==
    /\ poll = "rest"
    /\ poll' = "off"
    /\ UNCHANGED <<steam, known, watch, queued, send, asked, answer, fetched, histories>>

\* The sleep is over: "while self._trades_to_watch".
Rest ==
    /\ poll = "rest"
    /\ poll' = IF watch # {} THEN "fetch" ELSE "off"
    /\ UNCHANGED <<steam, known, watch, queued, send, asked, answer, fetched, histories>>

Poll ==
    \/ Answer \/ AnswerRaises \/ ProcessReceived \/ ProcessSent
    \/ QueueSent \/ QueueSentRaises \/ Rest

----------------------------------------------------------------------------
(* fetch_trade: a call of the user's, beside the task that polls. *)

\* Steam answers with the trade as it is.
FetchTrade(t) ==
    /\ fetched = Nothing
    /\ t \in Fetchable
    /\ steam[t] # "absent"
    /\ fetched' = [fetched EXCEPT ![t] = steam[t]]
    /\ UNCHANGED <<steam, known, watch, queued, send, poll, asked, answer, histories>>

\* _process_trades of that trade alone, which nobody queues.
FetchProcessed(t) ==
    /\ fetched[t] # "absent"
    /\ Process({t}, fetched)
    /\ fetched' = [fetched EXCEPT ![t] = "absent"]
    /\ taken' = taken \union {u \in (watch \ watch') \intersect Sent : send[u] = "waiting"}
    /\ UNCHANGED <<steam, queued, send, poll, asked, answer, omitted>>

Next ==
    /\ poll # "dead"
    /\ \/ \E t \in Trades : Offer(t) \/ Confirm(t) \/ End(t) \/ FetchTrade(t) \/ FetchProcessed(t)
       \/ \E t \in Sent : Send(t) \/ ConfirmSent(t) \/ ConfirmFails(t) \/ WaitForTrade(t) \/ Resume(t) \/ CancelSend(t)
       \/ StartPoll
       \/ Poll

(* Steam answers, sleeps end, and the event loop runs what is ready.       *)
Fairness ==
    /\ WF_vars(Poll)
    /\ WF_vars(asked /\ StartPoll)
    /\ \A t \in Sent : WF_vars(poll # "dead" /\ Resume(t))

Spec == Init /\ [][Next]_vars /\ Fairness

----------------------------------------------------------------------------
(* Whoever waits for a trade is polled for: polling goes on, or is about   *)
(* to start, although poll_trades returns at once to a second caller and   *)
(* stops by itself.  The exception is a trade whose change fetch_trade     *)
(* heard of first: it stops watching the trade and tells no waiter.        *)
WaiterIsPolledFor ==
    \A t \in Sent : send[t] = "waiting" /\ t \notin taken => poll # "off" \/ asked

(* A trade that is in the queue has no waiter that was not resolved.       *)
NoLostWaiter ==
    poll # "dead" => \A t \in queued \intersect Sent : send[t] # "waiting"

(* A trade is not waited for in vain, whatever becomes of it at Steam,     *)
(* unless an answer leaves it out, fetch_trade takes its change away, or   *)
(* the session ends.                                                       *)
SendReturns ==
    \A t \in Sent : send[t] = "waiting"
        ~> send[t] # "waiting" \/ t \in omitted \/ t \in taken \/ poll = "dead"

(* That a watched trade was confirmed is noticed, unless it ends first, if *)
(* anything polls: fetch_trade watches a trade and starts nothing.         *)
ConfirmationIsNoticed ==
    \A t \in Sent : t \in watch /\ known[t] = "confirm" /\ steam[t] = "active" /\ (poll # "off" \/ asked)
        ~> known[t] # "confirm" \/ steam[t] = "done" \/ poll = "dead"
=============================================================================
