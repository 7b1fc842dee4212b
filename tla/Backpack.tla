------------------------------ MODULE Backpack ------------------------------
(***************************************************************************)
(* The TF2 backpack: the messages of the Game Coordinator and the tasks    *)
(* they start (ext/tf2/state.py), with GCState.parse_gc_message, backpack  *)
(* and fetch_backpack (_gc/state.py) and Inventory.update (trade.py).      *)
(*                                                                         *)
(* The GC tells the client which items it got, changed or lost; what they  *)
(* look like comes from Steam's inventory service, which may be behind.    *)
(* A message that names an item the backpack lacks makes its task fetch    *)
(* the inventory again, in place, and "restart TF2" if that does not help. *)
(* Such tasks run at once, next to messages that take items away.          *)
(*                                                                         *)
(* restart_tf2 is meant to stop TF2 and to play it again.  Its             *)
(* temporarily_play names the client's other apps, which are played        *)
(* already: it sends nothing, and the task waits for a welcome that the GC *)
(* has no reason to send.                                                  *)
(*                                                                         *)
(* Abstractions.  An item is its id; Steam gives every item a new one.     *)
(* Messages about the account and about unknown objects are left out, as   *)
(* are inventories of several pages.  An asyncio.Lock lets its waiters in  *)
(* in any order.  The client plays what it was created with.  received and *)
(* overtaken are history variables.                                        *)
(***************************************************************************)
EXTENDS Integers, Sequences

CONSTANTS Items,
          MaxMessages, \* bound: messages of the GC
          None         \* no backpack

ASSUME BackpackAssumption == MaxMessages \in Nat \ {0, 1} /\ None \notin Nat

VARIABLES owned,     \* the items the GC says the client has
          gone,      \* those it had
          service,   \* the items the inventory service knows of
          sent,      \* the messages the GC has sent, in order
          handled,   \* how many of them parse_gc_message has handled
          ready,     \* client._ready
          connected, \* _gc_connected
          gcReady,   \* _gc_ready
          current,   \* backpack: one of the Backpack objects, named by its task
          content,   \* the items of each of them
          step,      \* where the task of each message is
          request,   \* its request to the inventory service
          answer,    \* and the answer
          ref,       \* the local "backpack" of each
          restarting,\* restart_tf2 is being called
          lost,      \* a task raised: the task group of the socket has ended
          received,  \* history: the items of item_receive
          overtaken  \* history: items whose removal crossed with an inventory

gc == <<owned, gone, service, sent>>
local == <<step, request, answer, ref>>
vars == <<gc, handled, ready, connected, gcReady, current, content, local,
          restarting, lost, received, overtaken>>

Messages == 1..MaxMessages

Kinds == {"welcome", "goodbye", "subscribed", "create", "update", "destroy"}

Steps == {"none", "wait ready", "fetch", "refetch", "wait welcome",
          "welcomed", "last", "ended"}

GcTypeOK ==
    /\ owned \subseteq Items
    /\ gone \subseteq Items \ owned
    /\ service \subseteq Items
    /\ sent \in Seq([kind : Kinds, items : SUBSET Items])
    /\ Len(sent) <= MaxMessages
    /\ handled \in 0..Len(sent)

ClientTypeOK ==
    /\ ready \in BOOLEAN /\ connected \in BOOLEAN /\ gcReady \in BOOLEAN
    /\ restarting \in BOOLEAN /\ lost \in BOOLEAN
    /\ current \in Messages \union {None}
    /\ content \in [Messages -> SUBSET Items]
    /\ received \subseteq Items
    /\ overtaken \subseteq Items

\* A task has what its step needs.
TaskTypeOK ==
    /\ step \in [Messages -> Steps]
    /\ request \in [Messages -> {"none", "queued", "asked", "answered"}]
    /\ answer \in [Messages -> SUBSET Items]
    /\ ref \in [Messages -> Messages \union {None}]
    /\ \A k \in Messages :
         /\ request[k] # "none" => step[k] \in {"fetch", "refetch", "last"}
         /\ step[k] \in {"refetch", "wait welcome", "welcomed", "last"} => ref[k] \in Messages
         /\ step[k] # "none" => k <= handled

TypeOK == GcTypeOK /\ ClientTypeOK /\ TaskTypeOK

Message(kind, items) == [kind |-> kind, items |-> items]

Init ==
    /\ owned \in SUBSET Items
    /\ gone = {}
    /\ service = owned
    /\ sent = <<Message("welcome", {}), Message("subscribed", owned)>>
    /\ handled = 0
    /\ ready \in BOOLEAN
    /\ connected = FALSE
    /\ gcReady = FALSE
    /\ current = None
    /\ content = [k \in Messages |-> {}]
    /\ step = [k \in Messages |-> "none"]
    /\ request = [k \in Messages |-> "none"]
    /\ answer = [k \in Messages |-> {}]
    /\ ref = [k \in Messages |-> None]
    /\ restarting = FALSE
    /\ lost = FALSE
    /\ received = {}
    /\ overtaken = {}

----------------------------------------------------------------------------
(* Steam: the Game Coordinator and the inventory service *)

Send(kind, items) ==
    /\ Len(sent) < MaxMessages
    /\ sent' = Append(sent, Message(kind, items))

Gains(i) ==
    /\ i \notin owned \union gone
    /\ Send("create", {i})
    /\ owned' = owned \union {i}
    /\ UNCHANGED <<gone, service>>

Changes(i) ==
    /\ i \in owned
    /\ Send("update", {i})
    /\ UNCHANGED <<owned, gone, service>>

Loses(i) ==
    /\ i \in owned
    /\ Send("destroy", {i})
    /\ owned' = owned \ {i}
    /\ gone' = gone \union {i}
    /\ UNCHANGED service

\* The GC goes down, comes back, or sends the whole cache.
Announces ==
    /\ \/ Send("goodbye", {})
       \/ Send("welcome", {})
       \/ Send("subscribed", owned)
    /\ UNCHANGED <<owned, gone, service>>

CatchUp ==
    /\ service # owned
    /\ service' = owned
    /\ UNCHANGED <<owned, gone, sent>>

Steam ==
    /\ \/ \E i \in Items : Gains(i) \/ Changes(i) \/ Loses(i)
       \/ Announces
       \/ CatchUp
    /\ UNCHANGED <<handled, ready, connected, gcReady, current, content, local,
                   restarting, lost, received, overtaken>>

----------------------------------------------------------------------------
(* The parsers, each up to its first await *)

\* "not self.backpack" holds for an empty one as well.
HasBackpack == current # None /\ content[current] # {}

Held == IF current = None THEN {} ELSE content[current]

Goes(k, to) == step' = [step EXCEPT ![k] = to]

\* parse_gc_client_connect: the event wakes up who waits for it.
Welcome ==
    /\ connected' = TRUE
    /\ step' = [k \in Messages |->
                  IF k = handled + 1 THEN "ended"
                  ELSE IF step[k] = "wait welcome" THEN "welcomed" ELSE step[k]]
    /\ UNCHANGED <<current, content, overtaken>>

\* parse_client_goodbye
Goodbye ==
    /\ connected' = FALSE
    /\ Goes(handled + 1, "ended")
    /\ UNCHANGED <<current, content, overtaken>>

\* parse_item_add and _handle_so_update look at the backpack first.
Concerns(kind, items) ==
    \/ kind = "subscribed"
    \/ kind = "create" /\ HasBackpack
    \/ kind = "update" /\ items \subseteq Held

Updating ==
    LET m == sent[handled + 1] IN
    /\ m.kind \in {"subscribed", "create", "update"}
    /\ Goes(handled + 1, IF Concerns(m.kind, m.items) THEN "wait ready" ELSE "ended")
    /\ UNCHANGED <<connected, current, content, overtaken>>

\* An inventory with the item is under way, or may still be made.
Crosses(i) ==
    \/ i \in service
    \/ \E k \in Messages : request[k] = "answered" /\ i \in answer[k]

\* Bug a mutant checks: the item stays.
DestroyNothing(i) ==
    /\ Goes(handled + 1, "ended")
    /\ overtaken' = IF Crosses(i) THEN overtaken \union {i} ELSE overtaken
    /\ UNCHANGED <<connected, current, content>>

\* handle_item_remove
Destroy(i) ==
    /\ Goes(handled + 1, "ended")
    /\ content' = IF HasBackpack THEN [content EXCEPT ![current] = @ \ {i}] ELSE content
    /\ overtaken' = IF Crosses(i) THEN overtaken \union {i} ELSE overtaken
    /\ UNCHANGED <<connected, current>>

Handle ==
    /\ handled < Len(sent)
    /\ LET m == sent[handled + 1] IN
       \/ m.kind = "welcome" /\ Welcome
       \/ m.kind = "goodbye" /\ Goodbye
       \/ Updating
       \/ m.kind = "destroy" /\ \E i \in m.items : Destroy(i)
    /\ handled' = handled + 1
    /\ UNCHANGED <<gc, ready, gcReady, request, answer, ref, restarting, lost, received>>

BecomesReady ==
    /\ ~ready
    /\ ready' = TRUE
    /\ UNCHANGED <<gc, handled, connected, gcReady, current, content, local,
                   restarting, lost, received, overtaken>>

----------------------------------------------------------------------------
(* update_backpack, and what its callers do after it *)

Named(k) == sent[k].items

Queue(k) == request' = [request EXCEPT ![k] = "queued"]

\* What follows the merge, whatever the backpack is.
Finish(k, items) ==
    /\ Goes(k, "ended")
    /\ ref' = [ref EXCEPT ![k] = None]
    /\ received' = IF sent[k].kind = "create" THEN received \union (Named(k) \intersect items)
                   ELSE received
    /\ gcReady' = (gcReady \/ (sent[k].kind = "subscribed" /\ connected))
    /\ UNCHANGED <<connected, restarting>>

Unlock(k) == request' = [request EXCEPT ![k] = "none"]

\* A bug a mutant checks: the lock is kept.
MergeLocked(k, r, c) == Finish(k, c[r]) /\ current' = r /\ UNCHANGED request

\* The merge and the rest of the task: r becomes the backpack.
Merge(k, r, c) == Finish(k, c[r]) /\ Unlock(k) /\ current' = r

\* backpack.update(): an inventory in place.
Refetch(k, r) ==
    /\ Goes(k, "refetch")
    /\ ref' = [ref EXCEPT ![k] = r]
    /\ Queue(k)
    /\ UNCHANGED <<current, connected, gcReady, restarting, received>>

\* restart_tf2, which all but the first of its callers pass by.
Restart(k) ==
    /\ IF restarting
       THEN Goes(k, "last") /\ Queue(k) /\ UNCHANGED connected
       ELSE /\ Goes(k, "wait welcome")
            /\ request' = [request EXCEPT ![k] = "none"]
            /\ connected' = FALSE
    /\ restarting' = TRUE
    /\ UNCHANGED <<current, ref, gcReady, received>>

Unchanged == UNCHANGED <<gc, handled, ready, answer, lost, overtaken>>

\* "self.backpack or await self.fetch_backpack(Backpack)"
Look(k) ==
    /\ step[k] = "wait ready" /\ ready
    /\ IF ~HasBackpack
       THEN /\ Goes(k, "fetch") /\ Queue(k)
            /\ UNCHANGED <<ref, current, connected, gcReady, restarting, received>>
       ELSE IF Named(k) \subseteq content[current]
       THEN Merge(k, current, content)
       ELSE Refetch(k, current)
    /\ UNCHANGED content
    /\ Unchanged

\* Bug a mutant checks: no lock around the request.
NoLock == TRUE

\* The inventory lock of the app.
LockFree == \A k \in Messages : request[k] \in {"none", "queued"}

Ask(k) ==
    /\ request[k] = "queued"
    /\ LockFree
    /\ request' = [request EXCEPT ![k] = "asked"]
    /\ UNCHANGED <<gc, handled, ready, connected, gcReady, current, content, step,
                   answer, ref, restarting, lost, received, overtaken>>

Serve(k) ==
    /\ request[k] = "asked"
    /\ request' = [request EXCEPT ![k] = "answered"]
    /\ answer' = [answer EXCEPT ![k] = service]
    /\ UNCHANGED <<gc, handled, ready, connected, gcReady, current, content, step,
                   ref, restarting, lost, received, overtaken>>

(* An answer other than OK is a WSException, which "except HTTPException"  *)
(* does not catch: it ends the task group that receives Steam's messages.  *)
Refuse(k) ==
    /\ request[k] = "asked"
    /\ lost' = TRUE
    /\ UNCHANGED <<gc, handled, ready, connected, gcReady, current, content, local,
                   restarting, received, overtaken>>

\* The backpack that the answer makes or updates.
Target(k) == IF step[k] = "fetch" THEN k ELSE ref[k]

Return(k) ==
    /\ request[k] = "answered"
    /\ content' = [content EXCEPT ![Target(k)] = answer[k]]
    /\ IF Named(k) \subseteq answer[k] \/ step[k] = "last"
       THEN Merge(k, Target(k), content')
       ELSE IF step[k] = "fetch"
       THEN Refetch(k, k)
       ELSE Restart(k)
    /\ Unchanged

\* restart_tf2 ends.
Welcomed(k) ==
    /\ step[k] = "welcomed"
    /\ Goes(k, "last")
    /\ Queue(k)
    /\ restarting' = FALSE
    /\ UNCHANGED <<current, content, connected, gcReady, ref, received>>
    /\ Unchanged

Task(k) == Look(k) \/ Ask(k) \/ Return(k) \/ Welcomed(k)

Next ==
    /\ ~lost
    /\ \/ Steam \/ Handle \/ BecomesReady
       \/ \E k \in Messages : Task(k) \/ Serve(k) \/ Refuse(k)

(* Steam answers requests and its inventory service catches up; messages   *)
(* are handled and tasks run.  The GC need not send anything.  A waiter of *)
(* a lock is not passed over for ever: asyncio.Lock is first in, first out.*)
Fairness ==
    /\ WF_vars(~lost /\ Handle)
    /\ WF_vars(~lost /\ BecomesReady)
    /\ WF_vars(~lost /\ service # owned /\ CatchUp /\ Steam)
    /\ \A k \in Messages :
         /\ WF_vars(~lost /\ (Look(k) \/ Return(k) \/ Welcomed(k)))
         /\ SF_vars(~lost /\ Ask(k))
         /\ WF_vars(~lost /\ (Serve(k) \/ Refuse(k)))

Spec == Init /\ [][Next]_vars /\ Fairness

----------------------------------------------------------------------------
(* An item that was removed stays removed, unless an inventory that still  *)
(* names it was under way, or made later by a service that was behind.     *)
RemovedStaysRemoved ==
    \A i \in Held \ owned :
        \/ i \in overtaken
        \/ \E k \in (handled + 1)..Len(sent) : sent[k] = Message("destroy", {i})

(* An item for which item_receive was dispatched is in the backpack for as *)
(* long as the client owns it: though the tasks replace each other's items *)
(* and backpacks, none of them puts an older inventory over a newer one.   *)
ReceivedIsHeld == received \intersect owned \subseteq Held

(* No two requests for the inventory are under way: Steam refuses the      *)
(* second one, and a refusal ends the connection.                          *)
OneRequest ==
    \A j, k \in Messages :
        request[j] \in {"asked", "answered"} /\ request[k] \in {"asked", "answered"} => j = k

(* Every task ends, or waits for a welcome, or the connection is lost.     *)
TasksEnd ==
    \A k \in Messages :
        (step[k] = "wait ready") ~> (step[k] \in {"ended", "wait welcome"} \/ lost)
=============================================================================
