------------------------------- MODULE Events -------------------------------
(***************************************************************************)
(* Client.wait_for and the walk of its listeners in Client.dispatch        *)
(* (client.py).                                                            *)
(*                                                                         *)
(* A task that waits for an event leaves a future and a check in the list  *)
(* of the event's listeners.  Whoever dispatches the event walks the list  *)
(* without a pause: a check accepts the event, refuses it or raises.  The  *)
(* walk notes the places of those that are done with, and deletes them by  *)
(* place afterwards.  A timeout cancels the future, and leaves the         *)
(* listener to a later walk.                                               *)
(*                                                                         *)
(* Abstractions.  What a check says of an event is free, as is what an     *)
(* event is about; one that accepts and one that raises both settle the    *)
(* future, with the result or the exception.  Each waiter waits once, for  *)
(* one event; what it does afterwards is left out.  An event nobody waits  *)
(* for has an empty list.  The handlers of an event are left out.          *)
(***************************************************************************)
EXTENDS Integers, SequencesExt

CONSTANTS Waiters,  \* the calls of wait_for
          EventOf   \* the event each waits for

Kinds == {"message", "command", "command_completion", "command_error"}

ASSUME EventOfAssumption == EventOf \in [Waiters -> Kinds]

VARIABLES listeners, \* _listeners: who waits for each event, in order
          fut        \* the future of each waiter

events == <<listeners, fut>>

EventsTypeOK ==
    /\ listeners \in [Kinds -> Seq(Waiters)]
    /\ fut \in [Waiters -> {"none", "pending", "settled", "cancelled"}]

EventsInit ==
    /\ listeners = [e \in Kinds |-> <<>>]
    /\ fut = [w \in Waiters |-> "none"]

\* wait_for up to its await.
WaitFor(w) ==
    /\ fut[w] = "none"
    /\ fut' = [fut EXCEPT ![w] = "pending"]
    /\ listeners' = [listeners EXCEPT ![EventOf[w]] = Append(@, w)]

\* A bug a mutant checks: the places are deleted first to last, while each
\* deletion moves the rest.
DeletedForward(list, places) ==
    IF places = DOMAIN list THEN <<>>
    ELSE FoldLeft(RemoveAt, list, SetToSortSeq(places, LAMBDA i, j : i < j))

(* What is left of a list when places of it are deleted, the last first,   *)
(* or the whole list with its key: those at the other places, each as many *)
(* places on as there are kept ones up to it.                              *)
Deleted(list, places) ==
    LET kept == DOMAIN list \ places
    IN [k \in 1..Cardinality(kept) |->
            list[CHOOSE i \in kept : Cardinality({j \in kept : j <= i}) = k]]

(* The walk: set_result or set_exception for those whose check accepts or  *)
(* raises; they and the cancelled ones leave the list.                     *)
Dispatch(e) ==
    LET list == listeners[e]
        cancelled == {w \in ToSet(list) : fut[w] = "cancelled"}
    IN \E settled \in SUBSET (ToSet(list) \ cancelled) :
          /\ fut' = [w \in Waiters |-> IF w \in settled THEN "settled" ELSE fut[w]]
          /\ listeners' = [listeners EXCEPT ![e] =
                             Deleted(list, {i \in DOMAIN list : list[i] \in settled \union cancelled})]

\* asyncio.wait_for gives up; whose future is settled has left the list.
GiveUp(w) ==
    /\ fut[w] = "pending"
    /\ fut' = [fut EXCEPT ![w] = "cancelled"]
    /\ UNCHANGED listeners

EventsNext == \E w \in Waiters : WaitFor(w) \/ GiveUp(w)

----------------------------------------------------------------------------
(* Whoever still waits for an event is listed for it, so the next event    *)
(* its check accepts reaches it, whatever was deleted around it.           *)
NoDeafWaiter ==
    \A w \in Waiters : fut[w] = "pending" => w \in ToSet(listeners[EventOf[w]])
=============================================================================
