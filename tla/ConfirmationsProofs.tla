------------------------ MODULE ConfirmationsProofs -------------------------
(***************************************************************************)
(* Codes are used once, no waiter is passed over, and only a rival makes   *)
(* confirm() raise ValueError, for any trades, tasks and length of second. *)
(*                                                                         *)
(* The argument.  A code made in this second holds its lock, and the timer *)
(* that releases it is due when the second is over (Guarded).  A future is *)
(* kept under the trade it is for until it is set (Own), so setting it     *)
(* resolves a task for whom the queue holds a confirmation, until a call   *)
(* for the same trade takes it (Supplied).                                 *)
(***************************************************************************)
EXTENDS Confirmations, TLAPS

Guarded ==
    \A tag \in Tags :
        made[tag] = 0 \/ (made[tag] = 1 /\ tag \in locked /\ timer[tag] = Ticks - tick)

Own ==
    \A t \in Trades : waiter[t] \in Tasks =>
        TradeOf[waiter[t]] = t /\ task[waiter[t]] \in {"waiting", "cancelled"}

Rivalled(k) == \E j \in Took : TradeOf[j] = TradeOf[k]
Supplied ==
    \A k \in Tasks : task[k] \in {"resolved", "raised"} =>
        (task[k] = "resolved" /\ TradeOf[k] \in queued) \/ Rivalled(k)

CodesInv == CodesTypeOK /\ Guarded

RestOK ==
    /\ steam \in [Trades -> Wants]
    /\ task \in [Tasks -> Stages]
    /\ waiter \in [Trades -> Tasks \union {NoTask}]
    /\ queued \subseteq Trades
    /\ poll \in PollStages
    /\ asked \in BOOLEAN
    /\ listed \subseteq Trades

QueueInv == RestOK /\ Own /\ Supplied /\ NoLostWaiter

IndInv == CodesInv /\ QueueInv

----------------------------------------------------------------------------
(* The lock keeps codes apart.                                             *)

(* No code has been made at first.                                         *)
LEMMA InitCodes == CodesInit => CodesInv
  BY TicksAssumption DEF CodesInit, CodesInv, CodesTypeOK, Guarded, Off

(* Making a code closes its lock for the rest of the second.               *)
LEMMA GetCodeKeeps == ASSUME CodesInv, NEW tag \in Tags, GetCode(tag) PROVE CodesInv'
<1> USE TicksAssumption DEF CodesInv, GetCode
<1>1. made[tag] = 0
  BY DEF Guarded
<1>2. timer' \in [Tags -> Off .. Ticks] /\ timer'[tag] = Ticks - tick
  BY DEF CodesTypeOK, Off
<1>3. made' \in [Tags -> Nat] /\ made'[tag] = 1
  BY <1>1 DEF CodesTypeOK
<1>4. CodesTypeOK'
  BY <1>2, <1>3 DEF CodesTypeOK
<1>5. Guarded'
  BY <1>2, <1>3 DEF Guarded, CodesTypeOK
<1> QED BY <1>4, <1>5

(* A lock is released only when the second of its code is over.            *)
LEMMA ReleaseKeeps == ASSUME CodesInv, NEW tag \in Tags, Release(tag) PROVE CodesInv'
<1> USE TicksAssumption DEF CodesInv, Release
<1>1. made[tag] = 0
  BY DEF Guarded, CodesTypeOK
<1>2. CodesTypeOK'
  BY DEF CodesTypeOK, Off
<1>3. Guarded'
  BY <1>1 DEF Guarded, CodesTypeOK
<1> QED BY <1>2, <1>3

(* Timers count down with the clock.                                       *)
LEMMA TickKeeps == ASSUME CodesInv, Tick PROVE CodesInv'
<1> USE TicksAssumption DEF CodesInv, Tick
<1>1. tick' \in 0 .. Ticks - 1 /\ locked' \subseteq Tags /\ made' \in [Tags -> Nat]
  BY DEF CodesTypeOK
<1>2. timer' \in [Tags -> Off .. Ticks]
  BY DEF CodesTypeOK, Off
<1>3. Guarded'
  BY DEF Guarded, CodesTypeOK
<1> QED BY <1>1, <1>2, <1>3 DEF CodesTypeOK

(* The clock, the locks and the timers are as they were.                   *)
LEMMA CodesStutter == ASSUME CodesInv, UNCHANGED codeVars PROVE CodesInv'
  BY DEF CodesInv, CodesTypeOK, Guarded, codeVars

----------------------------------------------------------------------------
(* The queue. *)

(* Nobody waits at first.                                                  *)
LEMMA InitQueue == Init => QueueInv
<1> SUFFICES ASSUME Init PROVE QueueInv
  OBVIOUS
<1>1. steam \in [Trades -> Wants] /\ task \in [Tasks -> Stages] /\ poll \in PollStages
  BY DEF Init, Wants, Stages, PollStages
<1>2. RestOK
  BY <1>1 DEF RestOK, Init
<1>3. Own /\ Supplied /\ NoLostWaiter
  BY NoTaskAssumption DEF Init, Own, Supplied, NoLostWaiter
<1> QED BY <1>2, <1>3 DEF QueueInv

(* Steps of Steam and of the poll that touch neither queue nor tasks.      *)
LEMMA QuietKeeps ==
    ASSUME QueueInv, UNCHANGED <<task, waiter, queued>>,
           steam' \in [Trades -> Wants], poll' \in PollStages, asked' \in BOOLEAN,
           listed' \subseteq Trades, poll = "dead" => poll' = "dead"
    PROVE  QueueInv'
  BY DEF QueueInv, RestOK, Own, Supplied, Rivalled, Took, NoLostWaiter, In

(* confirm() takes the confirmation, or waits when there is none.          *)
LEMMA ConfirmKeeps == ASSUME QueueInv, NEW k \in Tasks, Confirm(k) PROVE QueueInv'
<1> USE TradeOfAssumption, NoTaskAssumption DEF QueueInv
<1>0. TradeOf[k] \in Trades
  OBVIOUS
<1>1. task' \in [Tasks -> Stages] /\ task[k] = "none" /\ \A j \in Tasks \ {k} : task'[j] = task[j]
  BY DEF Confirm, RestOK, Stages
<1>2. waiter' \in [Trades -> Tasks \union {NoTask}] /\ queued' \subseteq queued
  BY DEF Confirm, RestOK, RemoveFromQueue
<1>3. RestOK'
  BY <1>1, <1>2 DEF Confirm, RestOK
<1>4. CASE TradeOf[k] \in queued
  <2>1. /\ task'[k] = "code" /\ UNCHANGED <<waiter, poll>>
        /\ \A t \in queued : t \in queued' \/ t = TradeOf[k]
    BY <1>4, <1>1 DEF Confirm, RemoveFromQueue, RestOK
  <2>2. k \in Took' /\ \A j \in Took : j \in Took'
    BY <2>1, <1>1 DEF Took
  <2>3. Supplied'
    BY <1>1, <2>1, <2>2 DEF Supplied, Rivalled
  <2>4. Own' /\ NoLostWaiter'
    BY <1>1, <1>2, <2>1 DEF Own, NoLostWaiter, In
  <2> QED BY <1>3, <2>3, <2>4
<1>5. CASE TradeOf[k] \notin queued
  <2>1. /\ task'[k] = "waiting" /\ UNCHANGED <<queued, poll>>
        /\ waiter' = [waiter EXCEPT ![TradeOf[k]] = k]
    BY <1>5, <1>1 DEF Confirm, RestOK
  <2>2. \A j \in Took : j \in Took'
    BY <1>1 DEF Took
  <2>3. Supplied'
    BY <1>1, <2>1, <2>2 DEF Supplied, Rivalled
  <2>4. waiter'[TradeOf[k]] = k /\ \A t \in Trades \ {TradeOf[k]} : waiter'[t] = waiter[t]
    BY <1>0, <2>1 DEF RestOK
  <2>5. Own'
    BY <1>1, <2>1, <2>4 DEF Own, RestOK
  <2>6. NoLostWaiter'
    BY <1>1, <1>5, <2>1, <2>4 DEF NoLostWaiter, In, Own, RestOK
  <2> QED BY <1>3, <2>3, <2>5, <2>6
<1> QED BY <1>4, <1>5

(* A resolved call takes the confirmation that is there, or a rival did.   *)
LEMMA ResumeKeeps == ASSUME QueueInv, NEW k \in Tasks, Resume(k) PROVE QueueInv'
<1> USE TradeOfAssumption DEF QueueInv
<1>1. /\ task' \in [Tasks -> Stages] /\ task[k] = "resolved" /\ task'[k] \in {"code", "raised"}
      /\ \A j \in Tasks \ {k} : task'[j] = task[j]
  BY DEF Resume, RestOK, Stages
<1>2. /\ UNCHANGED <<steam, waiter, poll, asked, listed>> /\ queued' \subseteq queued
      /\ \A t \in queued : t \in queued' \/ t = TradeOf[k]
  BY DEF Resume, RemoveFromQueue
<1>3. task'[k] = "code" \/ (TradeOf[k] \notin queued /\ queued' = queued)
  BY <1>1 DEF Resume, RestOK
<1>4. RestOK'
  BY <1>1, <1>2 DEF RestOK
<1>5. Own' /\ NoLostWaiter'
  BY <1>1, <1>2 DEF Own, NoLostWaiter, In
<1>6. \A j \in Took : j \in Took'
  BY <1>1 DEF Took
<1>7. CASE task'[k] = "code"
  <2>1. k \in Took'
    BY <1>7 DEF Took
  <2>2. Supplied'
    BY <1>1, <1>2, <1>6, <1>7, <2>1 DEF Supplied, Rivalled
  <2> QED BY <1>4, <1>5, <2>2
<1>8. CASE TradeOf[k] \notin queued /\ queued' = queued
  <2>1. Rivalled(k)
    BY <1>1, <1>8 DEF Supplied
  <2>2. Supplied'
    BY <1>1, <1>6, <1>8, <2>1 DEF Supplied, Rivalled
  <2> QED BY <1>4, <1>5, <2>2
<1> QED BY <1>3, <1>7, <1>8

(* The rest of a call of confirm(), and its cancellation.                  *)
LEMMA TaskKeeps ==
    ASSUME QueueInv, NEW k \in Tasks, GetAllowCode(k) \/ Perform(k) \/ Cancel(k)
    PROVE  QueueInv'
<1> USE TradeOfAssumption DEF QueueInv
<1>1. /\ task' \in [Tasks -> Stages] /\ \A j \in Tasks \ {k} : task'[j] = task[j]
      /\ \/ k \in Took /\ k \in Took'
         \/ task[k] = "waiting" /\ task'[k] = "cancelled"
      /\ task'[k] \notin {"waiting", "resolved", "raised"}
  BY DEF GetAllowCode, Perform, Cancel, RestOK, Stages, Took
<1>2. UNCHANGED <<waiter, queued, poll, asked, listed>> /\ steam' \in [Trades -> Wants]
  BY DEF GetAllowCode, Perform, Cancel, RestOK, Wants
<1>3. RestOK'
  BY <1>1, <1>2 DEF RestOK
<1>4. Own'
  BY <1>1, <1>2 DEF Own, Took
<1>5. NoLostWaiter'
  BY <1>1, <1>2 DEF NoLostWaiter, In
<1>6. \A j \in Took : j \in Took'
  BY <1>1 DEF Took
<1>7. Supplied'
  BY <1>1, <1>2, <1>6 DEF Supplied, Rivalled
<1> QED BY <1>3, <1>4, <1>5, <1>7

(* Steam's list is queued, and the futures under its trades are set.       *)
LEMMA QueueKeeps ==
    ASSUME QueueInv, NEW reached \in SUBSET Trades, reached \subseteq listed,
           queued' = queued \union listed,
           \A t \in listed \ reached : waiter[t] \in In("waiting") => poll' = "dead",
           \A t \in reached : waiter[t] \notin In("cancelled"),
           task' = [k \in Tasks |-> IF \E t \in reached : waiter[t] = k THEN "resolved" ELSE task[k]],
           waiter' = [t \in Trades |-> IF t \in reached THEN NoTask ELSE waiter[t]],
           poll # "dead", poll' \in PollStages, listed' = {}, UNCHANGED <<steam, asked>>
    PROVE  QueueInv'
<1> USE TradeOfAssumption, NoTaskAssumption DEF QueueInv
<1>1. task' \in [Tasks -> Stages]
  BY DEF RestOK, Stages
<1>2. RestOK'
  BY <1>1 DEF RestOK
<1>3. Own'
  BY DEF Own, RestOK
<1>4. NoLostWaiter'
  BY DEF NoLostWaiter, In, RestOK
<1>5. \A j \in Took : j \in Took'
  BY DEF Took, Own, RestOK
<1>6. Supplied'
  <2>1. SUFFICES ASSUME NEW k \in Tasks, task'[k] \in {"resolved", "raised"}
                 PROVE  (task'[k] = "resolved" /\ TradeOf[k] \in queued') \/ Rivalled(k)'
    BY DEF Supplied
  <2>2. CASE \E t \in reached : waiter[t] = k
    BY <2>2 DEF Own, RestOK
  <2>3. CASE ~\E t \in reached : waiter[t] = k
    BY <1>5, <2>1, <2>3 DEF Supplied, Rivalled
  <2> QED BY <2>2, <2>3
<1> QED BY <1>2, <1>3, <1>4, <1>6

(* The steps of the poll.                                                  *)
LEMMA PollKeeps ==
    ASSUME QueueInv, Poll \/ Answer \/ AskAgain \/ FetchFails PROVE QueueInv'
<1>1. CASE StartPoll
  <2>1. poll' \in PollStages /\ asked' \in BOOLEAN
    BY <1>1 DEF StartPoll, QueueInv, RestOK, PollStages
  <2> QED BY <1>1, <2>1, QuietKeeps DEF StartPoll, QueueInv, RestOK
<1>2. CASE GetListCode \/ AskAgain \/ FetchFails \/ Rest
  <2>1. poll' \in PollStages /\ poll # "dead"
    BY <1>2 DEF GetListCode, AskAgain, FetchFails, Rest, PollStages
  <2>2. UNCHANGED <<steam, task, waiter, queued, asked, listed>>
    BY <1>2 DEF GetListCode, AskAgain, FetchFails, Rest
  <2> QED BY <2>1, <2>2, QuietKeeps DEF QueueInv, RestOK
<1>3. CASE Answer
  <2>1. poll' \in PollStages /\ poll # "dead" /\ listed' \subseteq Trades
    BY <1>3 DEF Answer, PollStages
  <2> QED BY <1>3, <2>1, QuietKeeps DEF Answer, QueueInv, RestOK
<1>4. CASE QueueListed
  <2>1. poll' \in PollStages /\ poll # "dead" /\ listed \subseteq Trades
    BY <1>4 DEF QueueListed, NextPoll, PollStages, QueueInv, RestOK
  <2>2. \A t \in listed : waiter[t] \notin In("cancelled")
    BY <1>4 DEF QueueListed
  <2> HIDE DEF QueueInv
  <2> QED BY <1>4, <2>1, <2>2, QueueKeeps DEF QueueListed
<1>5. CASE QueueListedRaises
  <2>1. poll' \in PollStages /\ poll # "dead" /\ poll' = "dead" /\ listed \subseteq Trades
    BY <1>5 DEF QueueListedRaises, PollStages, QueueInv, RestOK
  <2>2. PICK reached \in SUBSET {t \in listed : waiter[t] \in In("waiting")} :
          /\ task' = [k \in Tasks |-> IF \E t \in reached : waiter[t] = k THEN "resolved" ELSE task[k]]
          /\ waiter' = [t \in Trades |-> IF t \in reached THEN NoTask ELSE waiter[t]]
    BY <1>5 DEF QueueListedRaises
  <2>3. reached \subseteq listed /\ \A t \in reached : waiter[t] \notin In("cancelled")
    BY DEF In
  <2> QED BY <1>5, <2>1, <2>2, <2>3, QueueKeeps DEF QueueListedRaises
<1> QED BY <1>1, <1>2, <1>3, <1>4, <1>5 DEF Poll

(* Steam and the clock go on without the queue.                            *)
LEMMA OutsideKeeps ==
    ASSUME QueueInv, \/ \E t \in Trades : Want(t) \/ Settle(t)
                     \/ PassTime
                     \/ \E tag \in Tags : FireTimer(tag)
                     \/ UNCHANGED vars
    PROVE  QueueInv'
<1>1. UNCHANGED <<task, waiter, queued, poll, asked, listed>>
  BY DEF Want, Settle, PassTime, FireTimer, vars
<1>2. steam' \in [Trades -> Wants]
  BY DEF QueueInv, RestOK, Want, Settle, PassTime, FireTimer, vars, Wants
<1> QED BY <1>1, <1>2, QuietKeeps DEF QueueInv, RestOK

----------------------------------------------------------------------------
(* Every step keeps the queue's half of the invariant.                     *)
LEMMA QueueStep == QueueInv /\ [Next]_vars => QueueInv'
  BY OutsideKeeps, ConfirmKeeps, ResumeKeeps, TaskKeeps, PollKeeps DEF Next, Goes

(* Every step keeps the codes' half: it makes a code, lets time pass, or    *)
(* leaves clock and locks alone.                                           *)
LEMMA CodesStep == CodesInv /\ [Next]_vars => CodesInv'
<1> SUFFICES ASSUME CodesInv, [Next]_vars PROVE CodesInv'
  OBVIOUS
<1>1. \/ UNCHANGED codeVars \/ Tick \/ \E tag \in Tags : GetCode(tag) \/ Release(tag)
  BY TagsAssumption DEF Next, Want, Settle, Confirm, Goes, Resume, GetAllowCode, Perform, Cancel,
     Poll, StartPoll, GetListCode, QueueListed, QueueListedRaises, Rest, Answer, AskAgain,
     FetchFails, PassTime, FireTimer, vars
<1> QED BY <1>1, GetCodeKeeps, ReleaseKeeps, TickKeeps, CodesStutter

(* The inductive invariant holds always.                                   *)
THEOREM Invariance == Spec => []IndInv
<1>1. Init => IndInv
  BY InitCodes, InitQueue DEF Init, IndInv
<1>2. IndInv /\ [Next]_vars => IndInv'
  BY QueueStep, CodesStep DEF IndInv
<1> QED BY <1>1, <1>2, PTL DEF Spec

(* Every variable keeps its type.                                          *)
THEOREM TypeCorrect == Spec => []TypeOK
<1>1. IndInv => TypeOK
  BY DEF IndInv, CodesInv, QueueInv, RestOK, TypeOK
<1> QED BY <1>1, Invariance, PTL

(* No two codes for a tag are made in one second.                          *)
THEOREM CodesUsedOnce == Spec => []CodesDiffer
<1>1. ASSUME CodesInv, NEW tag \in Tags PROVE made[tag] <= 1
  <2>1. made[tag] \in Nat
    BY <1>1 DEF CodesInv, CodesTypeOK
  <2>2. made[tag] = 0 \/ made[tag] = 1
    BY <1>1 DEF CodesInv, Guarded
  <2> QED BY <2>1, <2>2
<1>2. IndInv => CodesDiffer
  BY <1>1 DEF IndInv, CodesDiffer
<1> QED BY <1>2, Invariance, PTL

(* Nobody is left waiting for a confirmation that is in the queue.         *)
THEOREM NothingLost == Spec => []NoLostWaiter
<1>1. IndInv => NoLostWaiter
  BY DEF IndInv, QueueInv
<1> QED BY <1>1, Invariance, PTL

(* ValueError comes of two calls for one trade, and of nothing else.       *)
THEOREM RivalsRaise == Spec => []OnlyRivalsRaise
<1>1. IndInv => OnlyRivalsRaise
  BY DEF IndInv, QueueInv, Supplied, Rivalled, OnlyRivalsRaise
<1> QED BY <1>1, Invariance, PTL
=============================================================================
