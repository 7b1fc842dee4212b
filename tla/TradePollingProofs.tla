------------------------- MODULE TradePollingProofs -------------------------
(***************************************************************************)
(* Whoever waits for a trade is polled for, for any set of trades.         *)
(*                                                                         *)
(* The argument.  A waiting sender's trade is watched, unless fetch_trade  *)
(* took its change, and except between the step that processes an answer   *)
(* with a new state of it, which takes it out of _trades_to_watch, and the *)
(* step that queues it, which resolves the sender (Awaited).  So the loop  *)
(* cannot stop before the sender is resolved, and it was started, or is    *)
(* about to be, when the sender came.                                      *)
(***************************************************************************)
EXTENDS TradePolling, TLAPS

Awaited ==
    \A t \in Sent : send[t] = "waiting" =>
        poll = "dead" \/ t \in taken \/ t \in watch \/ (poll = "users2" /\ answer[t] # "absent")

IndInv == TypeOK /\ Awaited /\ WaiterIsPolledFor /\ NoLostWaiter

(* Nobody waits at first.                                                  *)
LEMMA InitIndInv == Init => IndInv
<1> SUFFICES ASSUME Init PROVE IndInv
  OBVIOUS
<1>1. send \in [Sent -> SendStages] /\ poll \in PollStages
  BY DEF Init, SendStages, PollStages
<1>2. Nothing \in [Trades -> TradeStates]
  BY DEF Nothing, TradeStates
<1>3. TypeOK
  BY <1>1, <1>2 DEF Init, TypeOK
<1>4. Awaited /\ WaiterIsPolledFor /\ NoLostWaiter
  BY DEF Init, Awaited, WaiterIsPolledFor, NoLostWaiter
<1> QED BY <1>3, <1>4 DEF IndInv

(* What happens at Steam is not seen by the client.                        *)
LEMMA SteamStep ==
    ASSUME IndInv, NEW t \in Trades, Offer(t) \/ Confirm(t) \/ End(t) PROVE IndInv'
<1> USE DEF IndInv
<1>1. steam' \in [Trades -> TradeStates]
  BY DEF TypeOK, Offer, Confirm, End, TradeStates, Live
<1>2. UNCHANGED <<known, watch, queued, send, poll, asked, answer, fetched, taken, omitted>>
  BY DEF Offer, Confirm, End, histories
<1> QED BY <1>1, <1>2 DEF TypeOK, Awaited, WaiterIsPolledFor, NoLostWaiter

(* The steps of send() before and after it waits.                          *)
LEMMA SendStep ==
    ASSUME IndInv, NEW t \in Sent,
           Send(t) \/ ConfirmSent(t) \/ ConfirmFails(t) \/ Resume(t) \/ CancelSend(t)
    PROVE  IndInv'
<1> USE DEF IndInv
<1>1. steam' \in [Trades -> TradeStates]
  BY DEF TypeOK, Send, ConfirmSent, ConfirmFails, Resume, CancelSend, TradeStates, Live, Trades
<1>2. send' \in [Sent -> SendStages] /\ send'[t] # "waiting" /\ \A u \in Sent \ {t} : send'[u] = send[u]
  BY DEF TypeOK, Send, ConfirmSent, ConfirmFails, Resume, CancelSend, SendStages
<1>3. queued' \subseteq queued
  BY DEF Send, ConfirmSent, ConfirmFails, Resume, CancelSend, RemoveFromQueue
<1>4. UNCHANGED <<known, watch, poll, asked, answer, fetched, taken, omitted>>
  BY DEF Send, ConfirmSent, ConfirmFails, Resume, CancelSend, histories
<1>5. TypeOK'
  BY <1>1, <1>2, <1>3, <1>4 DEF TypeOK
<1>6. Awaited' /\ WaiterIsPolledFor' /\ NoLostWaiter'
  BY <1>2, <1>3, <1>4 DEF Awaited, WaiterIsPolledFor, NoLostWaiter
<1> QED BY <1>5, <1>6

(* A sender starts to wait: its trade is watched and not in the queue.     *)
LEMMA WaitStep == ASSUME IndInv, NEW t \in Sent, WaitForTrade(t) PROVE IndInv'
<1> USE DEF IndInv
<1>1. /\ send' \in [Sent -> SendStages] /\ known' \in [Trades -> TradeStates]
      /\ \A u \in Sent \ {t} : send'[u] = send[u]
  BY DEF TypeOK, WaitForTrade, SendStages, TradeStates, Live, Trades
<1>2. /\ watch' = watch \union {t} /\ asked'
      /\ UNCHANGED <<steam, poll, answer, fetched, taken, omitted>>
  BY DEF WaitForTrade, histories
<1>3. queued' \subseteq queued /\ (send'[t] = "waiting" => t \notin queued')
  BY DEF TypeOK, WaitForTrade, RemoveFromQueue
<1>4. TypeOK'
  BY <1>1, <1>2, <1>3 DEF TypeOK, WaitForTrade, Trades
<1>5. Awaited' /\ WaiterIsPolledFor' /\ NoLostWaiter'
  BY <1>1, <1>2, <1>3 DEF Awaited, WaiterIsPolledFor, NoLostWaiter
<1> QED BY <1>4, <1>5

(* Processing trades of an answer keeps the types, and stops watching none *)
(* but those trades.                                                       *)
LEMMA ProcessFact ==
    ASSUME TypeOK, NEW batch \in SUBSET Trades, NEW view \in [Trades -> TradeStates], Process(batch, view)
    PROVE  /\ known' \in [Trades -> TradeStates]
           /\ watch' \subseteq Trades
           /\ \A t \in watch : t \in watch' \/ t \in batch
<1>1. known' \in [Trades -> TradeStates]
  BY DEF Process, TypeOK
<1>2. watch' \subseteq Trades /\ (\A t \in watch : t \in watch' \/ t \in batch)
  BY DEF Process, TypeOK
<1> QED BY <1>1, <1>2

(* The steps of a poll up to the one that queues the sent trades.          *)
LEMMA FetchStep ==
    ASSUME IndInv, StartPoll \/ Answer \/ ProcessReceived \/ ProcessSent PROVE IndInv'
<1> USE DEF IndInv
<1>1. CASE StartPoll
  <2>1. /\ poll' \in PollStages \ {"off"} /\ (poll # "off" => poll' = poll) /\ poll # "dead" /\ asked' = FALSE
        /\ UNCHANGED <<steam, known, watch, queued, send, answer, fetched, taken, omitted>>
    BY <1>1 DEF StartPoll, TypeOK, PollStages, histories
  <2>2. TypeOK'
    BY <2>1 DEF TypeOK
  <2> QED BY <2>1, <2>2 DEF Awaited, WaiterIsPolledFor, NoLostWaiter
<1>2. CASE Answer
  <2>1. answer' \in [Trades -> TradeStates]
    BY <1>2 DEF Answer, TypeOK, TradeStates
  <2>2. /\ poll = "fetch" /\ poll' = "answered" /\ omitted' \subseteq Sent
        /\ UNCHANGED <<steam, known, watch, queued, send, asked, fetched, taken>>
    BY <1>2 DEF Answer, TypeOK
  <2>3. TypeOK'
    BY <2>1, <2>2 DEF TypeOK, PollStages
  <2> QED BY <2>2, <2>3 DEF Awaited, WaiterIsPolledFor, NoLostWaiter
<1>3. CASE ProcessReceived
  <2>0. Batch(Received) \in SUBSET Trades
    BY DEF Batch, Trades
  <2>1. /\ poll = "answered" /\ poll' = "users1" /\ Process(Batch(Received), answer)
        /\ UNCHANGED <<steam, queued, send, asked, answer, fetched, taken, omitted>>
    BY <1>3 DEF ProcessReceived, histories
  <2>f. /\ known' \in [Trades -> TradeStates] /\ watch' \subseteq Trades
        /\ \A t \in watch : t \in watch' \/ t \in Batch(Received)
    BY <2>0, <2>1, ProcessFact DEF TypeOK
  <2>2. TypeOK'
    BY <2>1, <2>f DEF TypeOK, PollStages
  <2>3. \A t \in Sent : t \in watch => t \in watch'
    BY <2>f, TradesAssumption DEF Batch
  <2> QED BY <2>1, <2>2, <2>3 DEF Awaited, WaiterIsPolledFor, NoLostWaiter
<1>4. CASE ProcessSent
  <2>1. /\ poll = "users1" /\ poll' = "users2" /\ Process(Batch(Sent), answer)
        /\ queued' = queued \union Batch(Received)
        /\ UNCHANGED <<steam, send, asked, answer, fetched, taken, omitted>>
    BY <1>4 DEF ProcessSent, histories
  <2>2. /\ Batch(Received) \subseteq Trades /\ Batch(Received) \intersect Sent = {}
        /\ Batch(Sent) \in SUBSET Trades
    BY TradesAssumption DEF Batch, Trades
  <2>f. /\ known' \in [Trades -> TradeStates] /\ watch' \subseteq Trades
        /\ \A t \in watch : t \in watch' \/ t \in Batch(Sent)
    BY <2>1, <2>2, ProcessFact DEF TypeOK
  <2>3. TypeOK'
    BY <2>1, <2>2, <2>f DEF TypeOK, PollStages
  <2>4. \A t \in Sent : t \in watch => t \in watch' \/ answer[t] # "absent"
    BY <2>f DEF Batch
  <2> QED BY <2>1, <2>2, <2>3, <2>4 DEF Awaited, WaiterIsPolledFor, NoLostWaiter
<1> QED BY <1>1, <1>2, <1>3, <1>4

(* fetch_trade stops watching only a trade it takes from its waiter.       *)
LEMMA FetchTradeStep ==
    ASSUME IndInv, NEW t \in Trades, FetchTrade(t) \/ FetchProcessed(t) PROVE IndInv'
<1> USE DEF IndInv
<1>1. CASE FetchTrade(t)
  <2>1. /\ fetched' \in [Trades -> TradeStates]
        /\ UNCHANGED <<steam, known, watch, queued, send, poll, asked, answer, taken, omitted>>
    BY <1>1 DEF FetchTrade, TypeOK, histories
  <2>2. TypeOK'
    BY <2>1 DEF TypeOK
  <2> QED BY <2>1, <2>2 DEF Awaited, WaiterIsPolledFor, NoLostWaiter
<1>2. CASE FetchProcessed(t)
  <2>1. /\ taken' = taken \union {u \in (watch \ watch') \intersect Sent : send[u] = "waiting"}
        /\ fetched' \in [Trades -> TradeStates]
        /\ UNCHANGED <<steam, queued, send, poll, asked, answer, omitted>>
    BY <1>2 DEF FetchProcessed, TypeOK, TradeStates
  <2>2. known' \in [Trades -> TradeStates] /\ watch' \subseteq Trades
    BY <1>2, ProcessFact DEF FetchProcessed, TypeOK
  <2>3. TypeOK'
    BY <2>1, <2>2 DEF TypeOK
  <2> QED BY <2>1, <2>3 DEF Awaited, WaiterIsPolledFor, NoLostWaiter
<1> QED BY <1>1, <1>2

(* The step that queues the sent trades resolves who waits for them, and    *)
(* the loop stops only when nothing is watched.                            *)
LEMMA QueueStep ==
    ASSUME IndInv, QueueSent \/ QueueSentRaises \/ Rest \/ AnswerRaises PROVE IndInv'
<1> USE DEF IndInv
<1>0. Batch(Sent) \subseteq Trades /\ Nothing \in [Trades -> TradeStates]
  BY DEF Batch, Trades, Nothing, TradeStates
<1>1. CASE QueueSent
  <2>1. /\ poll = "users2" /\ poll' = "rest" /\ queued' = queued \union Batch(Sent) /\ answer' = Nothing
        /\ UNCHANGED <<steam, known, watch, asked, fetched, taken, omitted>>
        /\ send' = [t \in Sent |-> IF t \in Batch(Sent) /\ send[t] = "waiting" THEN "resolved" ELSE send[t]]
    BY <1>1 DEF QueueSent, Resolve, histories
  <2>2. send' \in [Sent -> SendStages]
    BY <2>1 DEF TypeOK, SendStages
  <2>3. TypeOK'
    BY <1>0, <2>1, <2>2 DEF TypeOK, PollStages
  <2>4. \A t \in Sent : send'[t] = "waiting" => send[t] = "waiting" /\ t \notin Batch(Sent)
    BY <2>1
  <2>5. \A t \in Sent : send'[t] = "waiting" => (t \in taken \/ t \in watch) /\ t \notin queued'
    BY <2>1, <2>4 DEF Awaited, NoLostWaiter, Batch
  <2> QED BY <2>1, <2>3, <2>5 DEF Awaited, WaiterIsPolledFor, NoLostWaiter
<1>2. CASE QueueSentRaises
  <2>1. /\ poll' = "dead" /\ queued' = queued \union Batch(Sent) /\ answer' = Nothing
        /\ UNCHANGED <<steam, known, watch, asked, fetched, taken, omitted>>
    BY <1>2 DEF QueueSentRaises, histories
  <2>2. send' \in [Sent -> SendStages]
    BY <1>2 DEF QueueSentRaises, Resolve, TypeOK, SendStages
  <2>3. TypeOK'
    BY <1>0, <2>1, <2>2 DEF TypeOK, PollStages
  <2> QED BY <2>1, <2>3 DEF Awaited, WaiterIsPolledFor, NoLostWaiter
<1>3. CASE Rest
  <2>1. /\ poll = "rest" /\ poll' \in {"fetch", "off"} /\ (poll' = "off" => watch = {})
        /\ UNCHANGED <<steam, known, watch, queued, send, asked, answer, fetched, taken, omitted>>
    BY <1>3 DEF Rest, histories
  <2>2. TypeOK'
    BY <2>1 DEF TypeOK, PollStages
  <2> QED BY <2>1, <2>2 DEF Awaited, WaiterIsPolledFor, NoLostWaiter
<1>4. CASE AnswerRaises
  <2>1. poll' = "dead" /\ UNCHANGED <<steam, known, watch, queued, send, asked, answer, fetched, taken, omitted>>
    BY <1>4 DEF AnswerRaises, histories
  <2>2. TypeOK'
    BY <2>1 DEF TypeOK, PollStages
  <2> QED BY <2>1, <2>2 DEF Awaited, WaiterIsPolledFor, NoLostWaiter
<1> QED BY <1>1, <1>2, <1>3, <1>4

(* Stuttering changes nothing.                                             *)
LEMMA StutterStep == ASSUME IndInv, UNCHANGED vars PROVE IndInv'
  BY DEF vars, IndInv, TypeOK, Awaited, WaiterIsPolledFor, NoLostWaiter

(* The inductive invariant holds always.                                   *)
THEOREM Invariance == Spec => []IndInv
<1>1. IndInv /\ [Next]_vars => IndInv'
  BY SteamStep, SendStep, WaitStep, FetchStep, FetchTradeStep, QueueStep, StutterStep DEF Next, Poll
<1> QED BY <1>1, InitIndInv, PTL DEF Spec

(* Every variable keeps its type.                                          *)
THEOREM TypeCorrect == Spec => []TypeOK
  BY Invariance, PTL DEF IndInv

(* wait_for_trade never waits while nothing polls or is about to, unless   *)
(* fetch_trade took the trade's change.                                    *)
THEOREM PolledFor == Spec => []WaiterIsPolledFor
  BY Invariance, PTL DEF IndInv

(* No trade lies in the queue while its sender waits for it.               *)
THEOREM NothingLost == Spec => []NoLostWaiter
  BY Invariance, PTL DEF IndInv
=============================================================================
