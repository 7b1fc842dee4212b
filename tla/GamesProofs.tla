---------------------------- MODULE GamesProofs -----------------------------
(***************************************************************************)
(* Proofs about the two modules that concern a game: Backpack, for any     *)
(* items and any number of messages and tasks, and AuthTickets, for any    *)
(* apps and any blocks.  They share no state.                              *)
(***************************************************************************)
EXTENDS Backpack, AuthTickets, SequenceTheorems, TLAPS

----------------------------------------------------------------------------
(* The backpack                                                            *)


----------------------------------------------------------------------------
(* Types *)

\* The message that parse_gc_message handles next is one of Messages.
LEMMA NextMessage ==
    ASSUME GcTypeOK, handled < Len(sent)
    PROVE  /\ handled + 1 \in Messages
           /\ handled + 1 \in 1..Len(sent)
           /\ sent[handled + 1] \in [kind : Kinds, items : SUBSET Items]
<1>1. Len(sent) \in Nat
  BY DEF GcTypeOK
<1>2. handled + 1 \in 1..Len(sent)
  BY <1>1 DEF GcTypeOK
<1>3. handled + 1 \in Messages
  BY <1>1, <1>2, BackpackAssumption DEF GcTypeOK, Messages
<1>4. sent[handled + 1] \in [kind : Kinds, items : SUBSET Items]
  BY <1>2, ElementOfSeq DEF GcTypeOK
<1> QED
  BY <1>2, <1>3, <1>4

LEMMA SteamTypes == TypeOK /\ Steam => TypeOK'
<1> SUFFICES ASSUME TypeOK, Steam PROVE TypeOK'
    OBVIOUS
<1>1. owned' \subseteq Items /\ gone' \subseteq Items \ owned' /\ service' \subseteq Items
  BY DEF TypeOK, GcTypeOK, Steam, Gains, Changes, Loses, Announces, CatchUp
<1>2. /\ sent' \in Seq([kind : Kinds, items : SUBSET Items])
      /\ Len(sent') <= MaxMessages
      /\ handled' \in 0..Len(sent')
  <2>1. CASE UNCHANGED sent
    BY <2>1 DEF TypeOK, GcTypeOK, Steam
  <2>2. ASSUME NEW kind \in Kinds, NEW items \in SUBSET Items, Send(kind, items)
        PROVE  /\ sent' \in Seq([kind : Kinds, items : SUBSET Items])
               /\ Len(sent') <= MaxMessages
               /\ handled' \in 0..Len(sent')
    <3>1. Message(kind, items) \in [kind : Kinds, items : SUBSET Items]
      BY DEF Message
    <3>2. Len(sent') = Len(sent) + 1 /\ sent' \in Seq([kind : Kinds, items : SUBSET Items])
      BY <2>2, <3>1 DEF TypeOK, GcTypeOK, Send
    <3> QED
      BY <2>2, <3>2, BackpackAssumption DEF TypeOK, GcTypeOK, Send, Steam
  <2>3. UNCHANGED sent \/ \E kind \in Kinds, items \in SUBSET Items : Send(kind, items)
    BY DEF TypeOK, GcTypeOK, Steam, Gains, Changes, Loses, Announces, CatchUp, Kinds
  <2> QED
    BY <2>1, <2>2, <2>3
<1>3. GcTypeOK'
  BY <1>1, <1>2 DEF GcTypeOK
<1>4. UNCHANGED <<handled, ready, connected, gcReady, current, content, step, request,
                  answer, ref, restarting, lost, received, overtaken>>
  BY DEF Steam, local
<1> QED
  BY <1>3, <1>4 DEF TypeOK, ClientTypeOK, TaskTypeOK

LEMMA HandleTypes == TypeOK /\ Handle => TypeOK'
<1> SUFFICES ASSUME TypeOK, Handle PROVE TypeOK'
    OBVIOUS
<1> DEFINE m == sent[handled + 1]
<1>1. handled + 1 \in Messages /\ m \in [kind : Kinds, items : SUBSET Items]
  BY NextMessage DEF Handle, TypeOK
<1>2. GcTypeOK'
  BY DEF Handle, TypeOK, GcTypeOK, gc
<1>3. /\ connected' \in BOOLEAN
      /\ current' = current
      /\ content' \in [Messages -> SUBSET Items]
      /\ overtaken' \subseteq Items
  BY <1>1 DEF Handle, Welcome, Goodbye, Updating, Destroy, TypeOK, ClientTypeOK, GcTypeOK
<1>4. ClientTypeOK'
  BY <1>3 DEF Handle, TypeOK, ClientTypeOK
<1>5. /\ step' \in [Messages -> Steps]
      /\ step'[handled + 1] \in {"ended", "wait ready"}
      /\ \A k \in Messages \ {handled + 1} :
           step'[k] = step[k] \/ (step[k] = "wait welcome" /\ step'[k] = "welcomed")
  <2>1. CASE Welcome
    BY <2>1, <1>1 DEF Welcome, TypeOK, TaskTypeOK, Steps
  <2>2. ASSUME NEW to \in {"ended", "wait ready"}, Goes(handled + 1, to)
        PROVE  <1>5!:
    BY <2>2, <1>1 DEF Goes, TypeOK, TaskTypeOK, Steps
  <2> QED
    BY <2>1, <2>2 DEF Handle, Goodbye, Updating, Destroy
<1>6. Len(sent) \in Nat /\ handled \in Nat /\ handled' = handled + 1
  BY DEF TypeOK, GcTypeOK, Handle
<1>7. request[handled + 1] = "none"
  <2>1. ~(handled + 1 <= handled)
    BY <1>6
  <2>2. step[handled + 1] = "none"
    BY <1>1, <2>1, Zenon DEF TypeOK, TaskTypeOK
  <2> QED
    BY <1>1, <2>2 DEF TypeOK, TaskTypeOK, Steps
<1>8. UNCHANGED <<request, answer, ref>>
  BY DEF Handle
<1>9. ASSUME NEW k \in Messages
      PROVE  /\ request'[k] # "none" => step'[k] \in {"fetch", "refetch", "last"}
             /\ step'[k] \in {"refetch", "wait welcome", "welcomed", "last"} => ref'[k] \in Messages
             /\ step'[k] # "none" => k <= handled'
  <2>1. CASE k = handled + 1
    <3>1. request'[k] = "none" /\ step'[k] \in {"ended", "wait ready"}
      BY <2>1, <1>5, <1>7, <1>8
    <3>2. k <= handled'
      BY <2>1, <1>6
    <3> QED
      BY <3>1, <3>2
  <2>2. CASE k # handled + 1
    <3>1. /\ request[k] # "none" => step[k] \in {"fetch", "refetch", "last"}
          /\ step[k] \in {"refetch", "wait welcome", "welcomed", "last"} => ref[k] \in Messages
          /\ step[k] # "none" => k <= handled
      BY DEF TypeOK, TaskTypeOK
    <3>2. step'[k] = step[k] \/ (step[k] = "wait welcome" /\ step'[k] = "welcomed")
      BY <2>2, <1>5
    <3>3. k <= handled => k <= handled'
      BY <1>6 DEF Messages
    <3>4. request'[k] = request[k] /\ ref'[k] = ref[k]
      BY <1>8
    <3> QED
      BY <3>1, <3>2, <3>3, <3>4
  <2> QED
    BY <2>1, <2>2
<1>10. TaskTypeOK'
  BY <1>5, <1>8, <1>9 DEF TypeOK, TaskTypeOK
<1> QED
  BY <1>2, <1>4, <1>10 DEF TypeOK

\* A step of one task keeps the types if that task has what its step needs.
LEMMA OneTask ==
    ASSUME TypeOK, NEW k \in Messages, step[k] # "none", handled' = handled,
           NEW s \in Steps, NEW r \in {"none", "queued", "asked", "answered"},
           NEW b \in Messages \union {None},
           step' = [step EXCEPT ![k] = s],
           request' = [request EXCEPT ![k] = r],
           ref' = [ref EXCEPT ![k] = b],
           answer' \in [Messages -> SUBSET Items],
           r # "none" => s \in {"fetch", "refetch", "last"},
           s \in {"refetch", "wait welcome", "welcomed", "last"} => b \in Messages
    PROVE  TaskTypeOK'
<1>1. /\ step' \in [Messages -> Steps]
      /\ request' \in [Messages -> {"none", "queued", "asked", "answered"}]
      /\ ref' \in [Messages -> Messages \union {None}]
  BY DEF TypeOK, TaskTypeOK
<1>2. ASSUME NEW j \in Messages
      PROVE  /\ request'[j] # "none" => step'[j] \in {"fetch", "refetch", "last"}
             /\ step'[j] \in {"refetch", "wait welcome", "welcomed", "last"} => ref'[j] \in Messages
             /\ step'[j] # "none" => j <= handled'
  <2>1. /\ request[j] # "none" => step[j] \in {"fetch", "refetch", "last"}
        /\ step[j] \in {"refetch", "wait welcome", "welcomed", "last"} => ref[j] \in Messages
        /\ step[j] # "none" => j <= handled
    BY DEF TypeOK, TaskTypeOK
  <2>2. CASE j = k
    <3>1. step'[j] = s /\ request'[j] = r /\ ref'[j] = b
      BY <2>2 DEF TypeOK, TaskTypeOK
    <3> QED
      BY <2>1, <2>2, <3>1
  <2>3. CASE j # k
    <3>1. step'[j] = step[j] /\ request'[j] = request[j] /\ ref'[j] = ref[j]
      BY <2>3 DEF TypeOK, TaskTypeOK
    <3> QED
      BY <2>1, <3>1
  <2> QED
    BY <2>2, <2>3
<1> QED
  BY <1>1, <1>2 DEF TaskTypeOK

\* What Merge, Refetch and Restart do to the variables of the task.
LEMMA MergeTypes ==
    ASSUME TypeOK, NEW k \in Messages, step[k] # "none", handled' = handled, UNCHANGED answer,
           NEW r \in Messages, NEW c \in [Messages -> SUBSET Items], Merge(k, r, c)
    PROVE  TaskTypeOK' /\ current' = r /\ received' \subseteq Items
           /\ gcReady' \in BOOLEAN /\ UNCHANGED <<connected, restarting>>
<1>1. /\ step' = [step EXCEPT ![k] = "ended"]
      /\ request' = [request EXCEPT ![k] = "none"]
      /\ ref' = [ref EXCEPT ![k] = None]
  BY DEF Merge, Finish, Goes, Unlock
<1>2. TaskTypeOK'
  <2>1. "ended" \in Steps
    BY DEF Steps
  <2>2. answer' \in [Messages -> SUBSET Items]
    BY DEF TypeOK, TaskTypeOK
  <2> QED
    BY <1>1, <2>1, <2>2, OneTask
<1>3. received' \subseteq Items
  BY DEF Merge, Finish, TypeOK, ClientTypeOK
<1>4. gcReady' \in BOOLEAN
  BY DEF Merge, Finish, TypeOK, ClientTypeOK
<1> QED
  BY <1>2, <1>3, <1>4 DEF Merge, Finish

LEMMA RefetchTypes ==
    ASSUME TypeOK, NEW k \in Messages, step[k] # "none", handled' = handled, UNCHANGED answer,
           NEW r \in Messages, Refetch(k, r)
    PROVE  TaskTypeOK'
<1>1. /\ step' = [step EXCEPT ![k] = "refetch"]
      /\ request' = [request EXCEPT ![k] = "queued"]
      /\ ref' = [ref EXCEPT ![k] = r]
  BY DEF Refetch, Goes, Queue
<1>2. "refetch" \in Steps
  BY DEF Steps
<1>3. answer' \in [Messages -> SUBSET Items]
  BY DEF TypeOK, TaskTypeOK
<1> QED
  BY <1>1, <1>2, <1>3, OneTask

LEMMA RestartTypes ==
    ASSUME TypeOK, NEW k \in Messages, step[k] \in {"refetch", "last"}, handled' = handled,
           UNCHANGED answer, Restart(k)
    PROVE  TaskTypeOK'
<1>1. ref[k] \in Messages /\ ref' = [ref EXCEPT ![k] = ref[k]]
  BY DEF TypeOK, TaskTypeOK, Restart
<1>2. \E s \in {"last", "wait welcome"}, r \in {"none", "queued"} :
         /\ step' = [step EXCEPT ![k] = s]
         /\ request' = [request EXCEPT ![k] = r]
         /\ r # "none" => s = "last"
  BY DEF Restart, Goes, Queue
<1>3. {"last", "wait welcome"} \subseteq Steps
  BY DEF Steps
<1>4. answer' \in [Messages -> SUBSET Items]
  BY DEF TypeOK, TaskTypeOK
<1> QED
  BY <1>1, <1>2, <1>3, <1>4, OneTask

\* The steps of update_backpack.
LEMMA LookTypes == ASSUME TypeOK, NEW k \in Messages, Look(k) PROVE TypeOK'
<1>1. GcTypeOK'
  BY DEF TypeOK, GcTypeOK, Look, Unchanged, gc
<1>2. handled' = handled /\ UNCHANGED answer /\ step[k] # "none"
  BY DEF Look, Unchanged
<1>3. UNCHANGED <<content, ready, lost, overtaken>>
  BY DEF Look, Unchanged
<1>4. CASE ~HasBackpack
  <2>1. /\ step' = [step EXCEPT ![k] = "fetch"]
        /\ request' = [request EXCEPT ![k] = "queued"]
        /\ ref' = [ref EXCEPT ![k] = ref[k]]
        /\ ref[k] \in Messages \union {None}
        /\ answer' \in [Messages -> SUBSET Items]
    BY <1>2, <1>4 DEF Look, Goes, Queue, TypeOK, TaskTypeOK
  <2>2. TaskTypeOK'
    <3>1. "fetch" \in Steps
      BY DEF Steps
    <3> QED
      BY <1>2, <2>1, <3>1, OneTask
  <2>3. UNCHANGED <<current, connected, gcReady, restarting, received>>
    BY <1>4 DEF Look
  <2> QED
    BY <1>1, <1>3, <2>2, <2>3 DEF TypeOK, ClientTypeOK
<1>5. CASE HasBackpack /\ Named(k) \subseteq content[current]
  <2>1. current \in Messages
    BY <1>5 DEF HasBackpack, TypeOK, ClientTypeOK
  <2>2. Merge(k, current, content)
    BY <1>5 DEF Look
  <2>3. content \in [Messages -> SUBSET Items]
    BY DEF TypeOK, ClientTypeOK
  <2>4. TaskTypeOK' /\ current' = current /\ received' \subseteq Items
        /\ gcReady' \in BOOLEAN /\ UNCHANGED <<connected, restarting>>
    BY <1>2, <2>1, <2>2, <2>3, MergeTypes
  <2> QED
    BY <1>1, <1>3, <2>4 DEF TypeOK, ClientTypeOK
<1>6. CASE HasBackpack /\ ~(Named(k) \subseteq content[current])
  <2>1. current \in Messages
    BY <1>6 DEF HasBackpack, TypeOK, ClientTypeOK
  <2>2. Refetch(k, current)
    BY <1>6 DEF Look
  <2>3. TaskTypeOK'
    BY <1>2, <2>1, <2>2, RefetchTypes
  <2> QED
    BY <1>1, <1>3, <2>2, <2>3 DEF TypeOK, ClientTypeOK, Refetch
<1> QED
  BY <1>4, <1>5, <1>6

LEMMA TargetType ==
    ASSUME TypeOK, NEW k \in Messages, request[k] # "none"
    PROVE  Target(k) \in Messages /\ step[k] \in {"fetch", "refetch", "last"}
<1>1. step[k] \in {"fetch", "refetch", "last"}
  BY DEF TypeOK, TaskTypeOK
<1>2. step[k] # "fetch" => ref[k] \in Messages
  BY <1>1 DEF TypeOK, TaskTypeOK
<1> QED
  BY <1>1, <1>2 DEF Target

LEMMA ReturnTypes == ASSUME TypeOK, NEW k \in Messages, Return(k) PROVE TypeOK'
<1>1. GcTypeOK'
  BY DEF TypeOK, GcTypeOK, Return, Unchanged, gc
<1>2. handled' = handled /\ UNCHANGED answer /\ UNCHANGED <<ready, lost, overtaken>>
  BY DEF Return, Unchanged
<1>3. Target(k) \in Messages /\ step[k] \in {"fetch", "refetch", "last"}
  BY TargetType DEF Return
<1>4. content' \in [Messages -> SUBSET Items]
  <2>1. answer[k] \in SUBSET Items
    BY DEF TypeOK, TaskTypeOK
  <2>2. content' = [content EXCEPT ![Target(k)] = answer[k]]
    BY DEF Return
  <2> QED
    BY <1>3, <2>1, <2>2 DEF TypeOK, ClientTypeOK
<1>5. CASE Merge(k, Target(k), content')
  <2>1. TaskTypeOK' /\ current' = Target(k) /\ received' \subseteq Items
        /\ gcReady' \in BOOLEAN /\ UNCHANGED <<connected, restarting>>
    BY <1>2, <1>3, <1>4, <1>5, MergeTypes
  <2> QED
    BY <1>1, <1>2, <1>3, <1>4, <2>1 DEF TypeOK, ClientTypeOK
<1>6. CASE step[k] = "fetch" /\ Refetch(k, k)
  <2>1. TaskTypeOK'
    BY <1>2, <1>6, RefetchTypes
  <2> QED
    BY <1>1, <1>2, <1>4, <1>6, <2>1 DEF TypeOK, ClientTypeOK, Refetch
<1>7. CASE step[k] # "fetch" /\ Restart(k)
  <2>1. TaskTypeOK'
    BY <1>2, <1>3, <1>7, RestartTypes
  <2>2. connected' \in BOOLEAN /\ restarting' = TRUE /\ UNCHANGED <<current, gcReady, received>>
    BY <1>7 DEF Restart, TypeOK, ClientTypeOK
  <2> QED
    BY <1>1, <1>2, <1>4, <2>1, <2>2 DEF TypeOK, ClientTypeOK
<1> QED
  BY <1>5, <1>6, <1>7 DEF Return

LEMMA WelcomedTypes == ASSUME TypeOK, NEW k \in Messages, Welcomed(k) PROVE TypeOK'
<1>1. /\ step[k] = "welcomed" /\ ref[k] \in Messages
      /\ step' = [step EXCEPT ![k] = "last"]
      /\ request' = [request EXCEPT ![k] = "queued"]
      /\ ref' = [ref EXCEPT ![k] = ref[k]]
      /\ answer' \in [Messages -> SUBSET Items]
      /\ handled' = handled
  BY DEF TypeOK, TaskTypeOK, Welcomed, Goes, Queue, Unchanged
<1>2. TaskTypeOK'
  <2>1. "last" \in Steps
    BY DEF Steps
  <2> QED
    BY <1>1, <2>1, OneTask
<1> QED
  BY <1>2 DEF Welcomed, Unchanged, TypeOK, GcTypeOK, ClientTypeOK, gc

\* The steps of a request.
LEMMA RequestTypes ==
    ASSUME TypeOK, NEW k \in Messages, Ask(k) \/ Serve(k) \/ Refuse(k) PROVE TypeOK'
<1>1. GcTypeOK' /\ ClientTypeOK'
  BY DEF TypeOK, GcTypeOK, ClientTypeOK, Ask, Serve, Refuse, gc
<1>2. request[k] # "none"
  BY DEF Ask, Serve, Refuse
<1>3. answer' \in [Messages -> SUBSET Items]
  <2>1. answer \in [Messages -> SUBSET Items] /\ service \in SUBSET Items
    BY DEF TypeOK, GcTypeOK, TaskTypeOK
  <2>2. UNCHANGED answer \/ answer' = [answer EXCEPT ![k] = service]
    BY DEF Ask, Serve, Refuse, local
  <2> QED
    BY <2>1, <2>2
<1>4. step[k] \in {"fetch", "refetch", "last"} /\ step[k] \in Steps /\ ref[k] \in Messages \union {None}
  BY <1>2 DEF TypeOK, TaskTypeOK
<1>5. step[k] \in {"refetch", "last"} => ref[k] \in Messages
  BY DEF TypeOK, TaskTypeOK
<1>6. /\ \E r \in {"none", "queued", "asked", "answered"} : request' = [request EXCEPT ![k] = r]
      /\ step' = [step EXCEPT ![k] = step[k]] /\ ref' = [ref EXCEPT ![k] = ref[k]]
      /\ handled' = handled
  <2>1. CASE Ask(k)
    BY <2>1 DEF TypeOK, TaskTypeOK, Ask
  <2>2. CASE Serve(k)
    BY <2>2 DEF TypeOK, TaskTypeOK, Serve
  <2>3. CASE Refuse(k)
    <3>1. request' = [request EXCEPT ![k] = request[k]]
      BY <2>3 DEF TypeOK, TaskTypeOK, Refuse, local
    <3> QED
      BY <2>3, <3>1 DEF TypeOK, TaskTypeOK, Refuse, local
  <2> QED
    BY <2>1, <2>2, <2>3
<1>7. TaskTypeOK'
  BY <1>2, <1>3, <1>4, <1>5, <1>6, OneTask
<1> QED
  BY <1>1, <1>7 DEF TypeOK

LEMMA TypesInit == Init => TypeOK
<1> SUFFICES ASSUME Init PROVE TypeOK
    OBVIOUS
<1>1. /\ Message("welcome", {}) \in [kind : Kinds, items : SUBSET Items]
      /\ Message("subscribed", owned) \in [kind : Kinds, items : SUBSET Items]
  BY DEF Init, Message, Kinds
<1>2. sent \in Seq([kind : Kinds, items : SUBSET Items]) /\ Len(sent) = 2
  BY <1>1 DEF Init
<1>3. GcTypeOK
  BY <1>2, BackpackAssumption DEF Init, GcTypeOK
<1>4. ClientTypeOK
  BY DEF Init, ClientTypeOK
<1>5. TaskTypeOK
  BY DEF Init, TaskTypeOK, Steps
<1> QED
  BY <1>3, <1>4, <1>5 DEF TypeOK

LEMMA TypesStep == TypeOK /\ [Next]_vars => TypeOK'
<1> SUFFICES ASSUME TypeOK, [Next]_vars PROVE TypeOK'
    OBVIOUS
<1>1. CASE BecomesReady
  BY <1>1 DEF BecomesReady, TypeOK, GcTypeOK, ClientTypeOK, TaskTypeOK, gc, local
<1>2. CASE UNCHANGED vars
  BY <1>2 DEF vars, TypeOK, GcTypeOK, ClientTypeOK, TaskTypeOK, gc, local
<1> QED
  BY <1>1, <1>2, SteamTypes, HandleTypes, LookTypes, ReturnTypes, WelcomedTypes, RequestTypes
     DEF Next, Task

\* Every variable keeps its type, and every task has what its step needs.
THEOREM TypeCorrect == Spec => []TypeOK
<1> QED
  BY TypesInit, TypesStep, PTL DEF Spec

----------------------------------------------------------------------------
(* The lock of the inventory *)

LEMMA OneRequestStep == TypeOK /\ OneRequest /\ [Next]_vars => OneRequest'
<1> SUFFICES ASSUME TypeOK, OneRequest, [Next]_vars PROVE OneRequest'
    OBVIOUS
<1>1. CASE \E k \in Messages : Ask(k)
  <2> PICK k \in Messages : Ask(k)
    BY <1>1
  <2>1. \A j \in Messages \ {k} : request'[j] \notin {"asked", "answered"}
    BY DEF Ask, LockFree, TypeOK, TaskTypeOK
  <2> QED
    BY <2>1 DEF OneRequest
<1>2. CASE ~\E k \in Messages : Ask(k)
  <2>1. \A j \in Messages : request'[j] \in {"asked", "answered"} => request[j] \in {"asked", "answered"}
    <3>1. CASE Steam \/ Handle \/ BecomesReady \/ UNCHANGED vars
      BY <3>1 DEF Steam, Handle, BecomesReady, vars, local
    <3>2. ASSUME NEW k \in Messages, Look(k) \/ Return(k) \/ Welcomed(k) \/ Serve(k) \/ Refuse(k)
          PROVE  <2>1!:
      <4>1. CASE Serve(k)
        BY <4>1 DEF Serve, TypeOK, TaskTypeOK
      <4>2. CASE Refuse(k)
        BY <4>2 DEF Refuse, local
      <4>3. CASE Look(k) \/ Return(k) \/ Welcomed(k)
        <5>1. \E r \in {"none", "queued"} : request' = [request EXCEPT ![k] = r]
          BY <4>3 DEF Look, Return, Welcomed, Merge, Refetch, Restart, Queue, Unlock
        <5> QED
          BY <5>1 DEF TypeOK, TaskTypeOK
      <4> QED
        BY <3>2, <4>1, <4>2, <4>3
    <3> QED
      BY <1>2, <3>1, <3>2 DEF Next, Task
  <2> QED
    BY <2>1 DEF OneRequest
<1> QED
  BY <1>1, <1>2

\* No two requests for the inventory are under way, however many tasks want
\* it: Steam would refuse the second one.
THEOREM RequestsAlternate == Spec => []OneRequest
<1>1. Init => OneRequest
  BY DEF Init, OneRequest
<1> QED
  BY <1>1, TypesInit, TypesStep, OneRequestStep, PTL DEF Spec

----------------------------------------------------------------------------
(* No older inventory over a newer one.                                    *)
(*                                                                         *)
(* The argument.  Whatever the client has ever held or been told of was    *)
(* known to the inventory service at some time, so the service still knows *)
(* it or it is gone (Known).  An answer is what the service knew when it   *)
(* was made; as no other answer can come before it is used, all that the   *)
(* backpacks hold is in it or gone (Fresh).  So the answer that replaces a *)
(* backpack's items takes nothing from it that the client owns.            *)

Known ==
    /\ service \subseteq owned \union gone
    /\ received \subseteq service \union gone
    /\ \A k \in Messages : /\ content[k] \subseteq service \union gone
                           /\ request[k] = "answered" => answer[k] \subseteq service \union gone

Fresh ==
    \A k \in Messages : request[k] = "answered" =>
        /\ received \subseteq answer[k] \union gone
        /\ \A o \in Messages : content[o] \subseteq answer[k] \union gone

\* What a message takes away is gone for good.
Destroyed ==
    \A k \in 1..Len(sent) : sent[k].kind = "destroy" => \E i \in gone : sent[k].items = {i}

IndInv == TypeOK /\ OneRequest /\ Destroyed /\ Known /\ Fresh /\ ReceivedIsHeld

LEMMA DestroyedStep == TypeOK /\ Destroyed /\ [Next]_vars => Destroyed'
<1> SUFFICES ASSUME TypeOK, Destroyed, [Next]_vars PROVE Destroyed'
    OBVIOUS
<1>1. CASE UNCHANGED <<gone, sent>>
  BY <1>1 DEF Destroyed
<1>2. ASSUME NEW kind, NEW items, Send(kind, items), gone \subseteq gone',
             kind = "destroy" => \E i \in gone' : items = {i}
      PROVE  Destroyed'
  <2>1. Len(sent) \in Nat /\ sent \in Seq([kind : Kinds, items : SUBSET Items])
    BY DEF TypeOK, GcTypeOK
  <2>2. sent' = Append(sent, Message(kind, items))
    BY <1>2 DEF Send
  <2>3. /\ Len(sent') = Len(sent) + 1
        /\ \A k \in 1..Len(sent) : sent'[k] = sent[k]
        /\ sent'[Len(sent) + 1] = Message(kind, items)
    BY <2>1, <2>2
  <2>4. ASSUME NEW k \in 1..Len(sent'), sent'[k].kind = "destroy"
        PROVE  \E i \in gone' : sent'[k].items = {i}
    <3>1. CASE k \in 1..Len(sent)
      BY <1>2, <2>3, <2>4, <3>1 DEF Destroyed
    <3>2. CASE k = Len(sent) + 1
      BY <1>2, <2>3, <2>4, <3>2 DEF Message
    <3> QED
      BY <2>1, <2>3, <3>1, <3>2
  <2> QED
    BY <2>4 DEF Destroyed
<1>3. CASE Steam
  <2>1. ASSUME NEW i \in Items, Gains(i) \/ Changes(i) PROVE Destroyed'
    BY <1>2, <2>1 DEF Gains, Changes
  <2>2. ASSUME NEW i \in Items, Loses(i) PROVE Destroyed'
    BY <1>2, <2>2 DEF Loses
  <2>3. CASE Announces
    BY <1>2, <2>3 DEF Announces
  <2>4. CASE CatchUp
    BY <1>1, <2>4 DEF CatchUp
  <2> QED
    BY <1>3, <2>1, <2>2, <2>3, <2>4 DEF Steam
<1>4. CASE ~Steam
  BY <1>1, <1>4 DEF Next, Handle, BecomesReady, Task, Look, Ask, Return, Welcomed, Serve, Refuse,
                    Unchanged, vars, gc
<1> QED
  BY <1>3, <1>4

\* The GC and the inventory service.
LEMMA SteamKeeps ==
    ASSUME TypeOK, Known, Fresh, ReceivedIsHeld, Steam
    PROVE  Known' /\ Fresh' /\ ReceivedIsHeld'
<1>1. UNCHANGED <<content, current, request, answer, received>>
  BY DEF Steam, local
<1>2. /\ gone \subseteq gone'
      /\ owned \union gone \subseteq owned' \union gone'
      /\ service' \in {service, owned}
      /\ \A i \in owned' : i \in owned \/ i \notin owned \union gone
  BY DEF Steam, Gains, Changes, Loses, Announces, CatchUp
<1>3. service \union gone \subseteq service' \union gone'
  BY <1>2 DEF Known
<1>4. Known'
  BY <1>1, <1>2, <1>3 DEF Known
<1>5. Fresh'
  BY <1>1, <1>2 DEF Fresh
<1>6. ReceivedIsHeld'
  <2>1. received \intersect owned' \subseteq owned
    BY <1>2 DEF Known
  <2> QED
    BY <1>1, <2>1 DEF ReceivedIsHeld, Held
<1> QED
  BY <1>4, <1>5, <1>6

\* The messages: what one takes away is not owned any more.
LEMMA HandleKeeps ==
    ASSUME TypeOK, Destroyed, Known, Fresh, ReceivedIsHeld, Handle
    PROVE  Known' /\ Fresh' /\ ReceivedIsHeld'
<1>1. UNCHANGED <<owned, gone, service, request, answer, received, current>>
  BY DEF Handle, gc, Welcome, Goodbye, Updating, Destroy
<1>2. \/ UNCHANGED content
      \/ \E i \in gone : /\ HasBackpack
                         /\ content' = [content EXCEPT ![current] = @ \ {i}]
  <2>1. ASSUME sent[handled + 1].kind = "destroy", NEW i \in sent[handled + 1].items PROVE i \in gone
    <3>1. handled + 1 \in 1..Len(sent)
      BY NextMessage DEF TypeOK, Handle
    <3> QED
      BY <2>1, <3>1 DEF Destroyed
  <2> QED
    BY <2>1 DEF Handle, Welcome, Goodbye, Updating, Destroy
<1>3. /\ \A o \in Messages : content'[o] \subseteq content[o]
      /\ \A o \in Messages : content[o] \ gone \subseteq content'[o]
  BY <1>2 DEF TypeOK, ClientTypeOK, HasBackpack
<1>4. Known' /\ Fresh'
  BY <1>1, <1>3 DEF Known, Fresh
<1>5. ReceivedIsHeld'
  <2>1. owned \intersect gone = {}
    BY DEF TypeOK, GcTypeOK
  <2> QED
    BY <1>1, <1>3, <2>1 DEF ReceivedIsHeld, Held, TypeOK, ClientTypeOK
<1> QED
  BY <1>4, <1>5

\* A task that finds its items in the backpack.
LEMMA LookKeeps ==
    ASSUME IndInv, NEW k \in Messages, Look(k)
    PROVE  Known' /\ Fresh' /\ ReceivedIsHeld'
<1> USE DEF IndInv
<1>1. UNCHANGED <<owned, gone, service, answer, content>>
  BY DEF Look, Unchanged, gc
<1>2. current' = current
  BY DEF Look, Merge, Refetch
<1>3. received' = received \/ (HasBackpack /\ received' \subseteq received \union content[current])
  BY DEF Look, Merge, Finish, Refetch
<1>4. \A j \in Messages : request'[j] = "answered" => request[j] = "answered"
  <2>1. \E r \in {"none", "queued"} : request' = [request EXCEPT ![k] = r]
    BY DEF Look, Merge, Refetch, Queue, Unlock
  <2> QED
    BY <2>1 DEF TypeOK, TaskTypeOK
<1>5. HasBackpack => current \in Messages
  BY DEF HasBackpack, TypeOK, ClientTypeOK
<1>6. Known'
  BY <1>1, <1>3, <1>4, <1>5 DEF Known
<1>7. Fresh'
  BY <1>1, <1>3, <1>4, <1>5 DEF Fresh
<1>8. ReceivedIsHeld'
  BY <1>1, <1>2, <1>3, <1>5 DEF ReceivedIsHeld, Held, HasBackpack
<1> QED
  BY <1>6, <1>7, <1>8

\* An answer is put in place of what a backpack holds: it has all of that
\* which is not gone.
LEMMA ReturnKeeps ==
    ASSUME IndInv, NEW k \in Messages, Return(k)
    PROVE  Known' /\ Fresh' /\ ReceivedIsHeld'
<1> USE DEF IndInv
<1> DEFINE r == Target(k)
<1>1. UNCHANGED <<owned, gone, service, answer>>
  BY DEF Return, Unchanged, gc
<1>2. request[k] = "answered" /\ r \in Messages
  BY TargetType DEF Return
<1>3. /\ content' \in [Messages -> SUBSET Items]
      /\ content'[r] = answer[k]
      /\ \A o \in Messages \ {r} : content'[o] = content[o]
  <2>1. answer[k] \in SUBSET Items /\ content \in [Messages -> SUBSET Items]
    BY DEF TypeOK, TaskTypeOK, ClientTypeOK
  <2> QED
    BY <1>2, <2>1 DEF Return
<1>4. \A j \in Messages : request'[j] # "answered"
  <2>1. \E q \in {"none", "queued"} : request' = [request EXCEPT ![k] = q]
    BY DEF Return, Merge, Refetch, Restart, Queue, Unlock
  <2> QED
    BY <1>2, <2>1 DEF TypeOK, TaskTypeOK, OneRequest
<1>5. \/ current' = current /\ received' = received
      \/ current' = r /\ received' \subseteq received \union content'[r]
  BY DEF Return, Merge, Finish, Refetch, Restart
<1>6. Known'
  BY <1>1, <1>2, <1>3, <1>4, <1>5 DEF Known
<1>7. Fresh'
  BY <1>4 DEF Fresh
<1>8. ReceivedIsHeld'
  <2>1. received \intersect owned \subseteq answer[k]
    BY <1>2 DEF Fresh, TypeOK, GcTypeOK
  <2>2. CASE current' = r
    BY <1>1, <1>2, <1>3, <1>5, <2>1, <2>2, BackpackAssumption DEF ReceivedIsHeld, Held, Messages
  <2>3. CASE current' = current /\ received' = received /\ current # r
    BY <1>1, <1>3, <2>3 DEF ReceivedIsHeld, Held, TypeOK, ClientTypeOK
  <2> QED
    BY <1>5, <2>2, <2>3
<1> QED
  BY <1>6, <1>7, <1>8

\* An answer is made of what the service knows.
LEMMA ServeKeeps ==
    ASSUME IndInv, NEW k \in Messages, Serve(k)
    PROVE  Known' /\ Fresh' /\ ReceivedIsHeld'
<1> USE DEF IndInv
<1>1. UNCHANGED <<owned, gone, service, content, received, current>>
  BY DEF Serve, gc
<1>2. /\ answer'[k] = service
      /\ \A j \in Messages \ {k} : request'[j] = request[j] /\ answer'[j] = answer[j]
  <2>1. answer \in [Messages -> SUBSET Items] /\ request \in [Messages -> {"none", "queued", "asked", "answered"}]
    BY DEF TypeOK, TaskTypeOK
  <2> QED
    BY <2>1 DEF Serve
<1>3. Known'
  BY <1>1, <1>2 DEF Known
<1>4. Fresh'
  BY <1>1, <1>2 DEF Fresh, Known
<1>5. ReceivedIsHeld'
  BY <1>1 DEF ReceivedIsHeld, Held
<1> QED
  BY <1>3, <1>4, <1>5

LEMMA OthersKeep ==
    ASSUME IndInv, BecomesReady \/ UNCHANGED vars \/ \E k \in Messages : Ask(k) \/ Welcomed(k) \/ Refuse(k)
    PROVE  Known' /\ Fresh' /\ ReceivedIsHeld'
<1> USE DEF IndInv
<1>1. UNCHANGED <<owned, gone, service, content, received, current, answer>>
  BY DEF BecomesReady, vars, Ask, Welcomed, Refuse, Unchanged, gc, local
<1>2. \A j \in Messages : request'[j] = "answered" => request[j] = "answered"
  <2>1. UNCHANGED request \/ \E k \in Messages, q \in {"asked", "queued"} : request' = [request EXCEPT ![k] = q]
    BY DEF BecomesReady, vars, Ask, Welcomed, Refuse, Queue, local
  <2> QED
    BY <2>1 DEF TypeOK, TaskTypeOK
<1> QED
  BY <1>1, <1>2 DEF Known, Fresh, ReceivedIsHeld, Held

LEMMA IndInvInit == Init => IndInv
<1> SUFFICES ASSUME Init PROVE IndInv
    OBVIOUS
<1>1. OneRequest /\ Known /\ Fresh /\ ReceivedIsHeld
  BY DEF Init, OneRequest, Known, Fresh, ReceivedIsHeld
<1>2. Destroyed
  <2>1. Len(sent) = 2 /\ sent[1].kind = "welcome" /\ sent[2].kind = "subscribed"
    BY DEF Init, Message
  <2> QED
    BY <2>1 DEF Destroyed
<1> QED
  BY <1>1, <1>2, TypesInit DEF IndInv

LEMMA IndInvStep == IndInv /\ [Next]_vars => IndInv'
<1> SUFFICES ASSUME IndInv, [Next]_vars PROVE IndInv'
    OBVIOUS
<1>1. TypeOK' /\ OneRequest' /\ Destroyed'
  BY TypesStep, OneRequestStep, DestroyedStep DEF IndInv
<1>2. CASE Steam
  BY <1>1, <1>2, SteamKeeps DEF IndInv
<1>3. CASE Handle
  BY <1>1, <1>3, HandleKeeps DEF IndInv
<1>4. ASSUME NEW k \in Messages, Look(k) \/ Return(k) \/ Serve(k)
      PROVE  IndInv'
  BY <1>1, <1>4, LookKeeps, ReturnKeeps, ServeKeeps DEF IndInv
<1>5. CASE BecomesReady \/ UNCHANGED vars \/ \E k \in Messages : Ask(k) \/ Welcomed(k) \/ Refuse(k)
  BY <1>1, <1>5, OthersKeep DEF IndInv
<1> QED
  BY <1>2, <1>3, <1>4, <1>5 DEF Next, Task

\* An item for which item_receive was dispatched stays in the backpack for as
\* long as the client owns it, whatever tasks run and however far the
\* inventory service is behind.
THEOREM NothingReceivedIsLost == Spec => []ReceivedIsHeld
<1>1. IndInv => ReceivedIsHeld
  BY DEF IndInv
<1> QED
  BY <1>1, IndInvInit, IndInvStep, PTL DEF Spec

----------------------------------------------------------------------------
(* What was removed stays removed.                                         *)
(*                                                                         *)
(* The argument.  What the service, an answer or the backpack still has of *)
(* what the client lost is about to be taken away by a message, or that    *)
(* message was handled while the service or an answer had it (Told).       *)

Pending(i) == \E k \in (handled + 1)..Len(sent) : sent[k] = Message("destroy", {i})

Excused(i) == i \in overtaken \/ Pending(i)

Told ==
    /\ \A i \in service \ owned : Excused(i)
    /\ \A k \in Messages : request[k] = "answered" => \A i \in answer[k] \ owned : Excused(i)

RemovalInv == TypeOK /\ OneRequest /\ Destroyed /\ Told /\ RemovedStaysRemoved

LEMMA RemovedIsExcused == RemovedStaysRemoved <=> \A i \in Held \ owned : Excused(i)
BY DEF RemovedStaysRemoved, Excused, Pending

LEMMA SteamRemoves ==
    ASSUME RemovalInv, Steam PROVE Told' /\ RemovedStaysRemoved'
<1> USE DEF RemovalInv
<1>1. UNCHANGED <<content, current, request, answer, overtaken, handled>>
  BY DEF Steam, local
<1>2. Len(sent) \in Nat /\ handled \in Nat /\ sent \in Seq([kind : Kinds, items : SUBSET Items])
  BY DEF TypeOK, GcTypeOK
<1>3. ASSUME NEW kind, NEW items, Send(kind, items)
      PROVE  /\ Len(sent') = Len(sent) + 1
             /\ \A k \in 1..Len(sent) : sent'[k] = sent[k]
             /\ sent'[Len(sent) + 1] = Message(kind, items)
  <2>1. sent' = Append(sent, Message(kind, items))
    BY <1>3 DEF Send
  <2> QED
    BY <1>2, <2>1
<1>4. ASSUME NEW i, Excused(i) PROVE Excused(i)'
  <2>1. \/ UNCHANGED sent
        \/ Len(sent') = Len(sent) + 1 /\ \A k \in 1..Len(sent) : sent'[k] = sent[k]
    BY <1>3 DEF Steam, Gains, Changes, Loses, Announces, CatchUp
  <2>2. CASE i \in overtaken
    BY <1>1, <2>2 DEF Excused
  <2>3. CASE Pending(i)
    <3>1. PICK k \in (handled + 1)..Len(sent) : sent[k] = Message("destroy", {i})
      BY <2>3 DEF Pending
    <3>2. k \in (handled' + 1)..Len(sent') /\ sent'[k] = sent[k]
      BY <1>1, <1>2, <2>1
    <3> QED
      BY <3>1, <3>2 DEF Excused, Pending
  <2> QED
    BY <1>4, <2>2, <2>3 DEF Excused
<1>5. ASSUME NEW i, i \in owned, i \notin owned' PROVE Excused(i)'
  <2>1. Loses(i)
    BY <1>5 DEF Steam, Gains, Changes, Loses, Announces, CatchUp
  <2>2. Len(sent') = Len(sent) + 1 /\ sent'[Len(sent) + 1] = Message("destroy", {i})
    BY <1>3, <2>1 DEF Loses
  <2>3. handled <= Len(sent)
    BY DEF TypeOK, GcTypeOK
  <2> QED
    BY <1>1, <1>2, <2>2, <2>3 DEF Excused, Pending
<1>6. service' \in {service, owned} /\ (service' = owned => owned' = owned \/ service' = service)
  BY DEF Steam, Gains, Changes, Loses, Announces, CatchUp
<1>7. Told'
  BY <1>1, <1>4, <1>5, <1>6 DEF Told
<1>8. RemovedStaysRemoved'
  <2>1. \A i \in Held \ owned : Excused(i)
    BY RemovedIsExcused
  <2>2. Held' = Held
    BY <1>1 DEF Held
  <2>3. \A i \in Held' \ owned' : Excused(i)'
    BY <1>4, <1>5, <2>1, <2>2
  <2> QED
    BY <2>3 DEF RemovedStaysRemoved, Excused, Pending
<1> QED
  BY <1>7, <1>8

LEMMA HandleRemoves ==
    ASSUME RemovalInv, Handle PROVE Told' /\ RemovedStaysRemoved'
<1> USE DEF RemovalInv
<1> DEFINE m == sent[handled + 1]
<1>1. UNCHANGED <<owned, gone, service, sent, request, answer, current>> /\ handled' = handled + 1
  BY DEF Handle, gc, Welcome, Goodbye, Updating, Destroy
<1>2. Len(sent) \in Nat /\ handled \in Nat /\ handled + 1 \in 1..Len(sent)
  BY NextMessage DEF TypeOK, GcTypeOK, Handle
<1>3. ASSUME NEW i, Excused(i), m # Message("destroy", {i}), overtaken \subseteq overtaken'
      PROVE  Excused(i)'
  BY <1>1, <1>2, <1>3 DEF Excused, Pending
<1>4. CASE m.kind # "destroy"
  <2>1. UNCHANGED <<content, overtaken>>
    BY <1>4 DEF Handle, Welcome, Goodbye, Updating
  <2>2. ASSUME NEW i, Excused(i) PROVE Excused(i)'
    <3>1. m # Message("destroy", {i})
      BY <1>4 DEF Message
    <3> QED
      BY <1>3, <2>1, <2>2, <3>1
  <2>3. Told'
    BY <1>1, <2>2 DEF Told
  <2>4. \A i \in Held' \ owned' : Excused(i)'
    BY <1>1, <2>1, <2>2, RemovedIsExcused DEF Held
  <2> QED
    BY <2>3, <2>4 DEF RemovedStaysRemoved, Excused, Pending
<1>5. CASE m.kind = "destroy"
  <2>1. PICK i : m.items = {i} /\ Destroy(i)
    BY <1>2, <1>5 DEF Handle, Updating, Destroyed
  <2>2. overtaken \subseteq overtaken' /\ (Crosses(i) => i \in overtaken')
    BY <2>1 DEF Destroy
  <2>3. ASSUME NEW j, Excused(j), j # i PROVE Excused(j)'
    <3>1. m # Message("destroy", {j})
      BY <2>1, <2>3 DEF Message
    <3> QED
      BY <1>3, <2>2, <2>3, <3>1
  <2>4. Told'
    <3>1. ASSUME NEW j, j \in service \/ \E k \in Messages : request[k] = "answered" /\ j \in answer[k],
                 j \notin owned
          PROVE  Excused(j)'
      <4>1. Excused(j)
        BY <3>1 DEF Told
      <4>2. CASE j = i
        BY <2>2, <3>1, <4>2 DEF Crosses, Excused
      <4> QED
        BY <2>3, <4>1, <4>2
    <3> QED
      BY <1>1, <3>1 DEF Told
  <2>5. Held' \subseteq Held \ {i}
    <3>1. content' = IF HasBackpack THEN [content EXCEPT ![current] = @ \ {i}] ELSE content
      BY <2>1 DEF Destroy
    <3> QED
      BY <1>1, <3>1 DEF Held, HasBackpack, TypeOK, ClientTypeOK
  <2>6. \A j \in Held' \ owned' : Excused(j)'
    BY <1>1, <2>3, <2>5, RemovedIsExcused
  <2> QED
    BY <2>4, <2>6 DEF RemovedStaysRemoved, Excused, Pending
<1> QED
  BY <1>4, <1>5

\* A step that handles no message excuses what it did.
LEMMA TaskRemoves ==
    ASSUME RemovalInv, NEW k \in Messages, Task(k) \/ Serve(k) \/ Refuse(k)
    PROVE  Told' /\ RemovedStaysRemoved'
<1> USE DEF RemovalInv
<1>1. UNCHANGED <<owned, service, sent, handled, overtaken>>
  BY DEF Task, Look, Ask, Return, Welcomed, Serve, Refuse, Unchanged, gc
<1>2. \A i : Excused(i)' <=> Excused(i)
  BY <1>1 DEF Excused, Pending
<1>3. \A j \in Messages : request'[j] = "answered" =>
        \/ request[j] = "answered" /\ answer'[j] = answer[j]
        \/ answer'[j] = service
  <2>1. CASE Serve(k)
    BY <2>1 DEF Serve, TypeOK, TaskTypeOK
  <2>2. CASE Refuse(k)
    BY <2>2 DEF Refuse, local
  <2>3. CASE Task(k)
    <3>1. \E q \in {"none", "queued", "asked"} : request' = [request EXCEPT ![k] = q]
      BY <2>3 DEF Task, Look, Ask, Return, Welcomed, Merge, Refetch, Restart, Queue, Unlock
    <3>2. answer' = answer
      BY <2>3 DEF Task, Look, Ask, Return, Welcomed, Unchanged
    <3> QED
      BY <3>1, <3>2 DEF TypeOK, TaskTypeOK
  <2> QED
    BY <2>1, <2>2, <2>3
<1>4. Told'
  BY <1>1, <1>2, <1>3 DEF Told
<1>5. Held' = Held \/ (request[k] = "answered" /\ Held' = answer[k])
  <2>1. CASE Return(k)
    <3>1. request[k] = "answered" /\ Target(k) \in Messages
      BY <2>1, TargetType DEF Return
    <3>2. /\ content'[Target(k)] = answer[k]
          /\ \A o \in Messages \ {Target(k)} : content'[o] = content[o]
      BY <2>1, <3>1 DEF Return, TypeOK, ClientTypeOK
    <3>3. current' \in {current, Target(k)}
      BY <2>1 DEF Return, Merge, Refetch, Restart
    <3>4. CASE current' = Target(k)
      BY <3>1, <3>2, <3>4, BackpackAssumption DEF Held, Messages
    <3>5. CASE current' = current /\ current # Target(k)
      BY <3>2, <3>5 DEF Held, TypeOK, ClientTypeOK
    <3> QED
      BY <3>3, <3>4, <3>5
  <2>2. CASE Look(k)
    BY <2>2 DEF Look, Merge, Refetch, Held
  <2>3. CASE Ask(k) \/ Welcomed(k) \/ Serve(k) \/ Refuse(k)
    BY <2>3 DEF Ask, Welcomed, Serve, Refuse, Held
  <2> QED
    BY <2>1, <2>2, <2>3 DEF Task
<1>6. \A i \in Held' \ owned' : Excused(i)'
  BY <1>1, <1>2, <1>5, RemovedIsExcused DEF Told
<1> QED
  BY <1>4, <1>6 DEF RemovedStaysRemoved, Excused, Pending

LEMMA RemovalInvInit == Init => RemovalInv
<1> SUFFICES ASSUME Init PROVE RemovalInv
    OBVIOUS
<1>1. Told /\ RemovedStaysRemoved
  BY DEF Init, Told, RemovedStaysRemoved, Held
<1> QED
  BY <1>1, IndInvInit DEF RemovalInv, IndInv

LEMMA RemovalInvStep == RemovalInv /\ [Next]_vars => RemovalInv'
<1> SUFFICES ASSUME RemovalInv, [Next]_vars PROVE RemovalInv'
    OBVIOUS
<1>1. TypeOK' /\ OneRequest' /\ Destroyed'
  BY TypesStep, OneRequestStep, DestroyedStep DEF RemovalInv
<1>2. CASE BecomesReady \/ UNCHANGED vars
  <2>1. UNCHANGED <<owned, service, sent, handled, overtaken, content, current, request, answer>>
    BY <1>2 DEF BecomesReady, vars, gc, local
  <2> QED
    BY <1>1, <2>1 DEF RemovalInv, Told, Excused, Pending, RemovedStaysRemoved, Held
<1>3. ASSUME NEW k \in Messages, Task(k) \/ Serve(k) \/ Refuse(k) PROVE RemovalInv'
  BY <1>1, <1>3, TaskRemoves DEF RemovalInv
<1>4. CASE Steam \/ Handle
  BY <1>1, <1>4, SteamRemoves, HandleRemoves DEF RemovalInv
<1> QED
  BY <1>2, <1>3, <1>4 DEF Next

\* An item that the client lost comes back only by an inventory that named it
\* and crossed with its removal.
THEOREM RemovedForGood == Spec => []RemovedStaysRemoved
<1>1. RemovalInv => RemovedStaysRemoved
  BY DEF RemovalInv
<1> QED
  BY <1>1, RemovalInvInit, RemovalInvStep, PTL DEF Spec

----------------------------------------------------------------------------
(* Authentication tickets.  The inductive invariant has three parts that   *)
(* do not need each other: who crosses with whom (Crossing), whose ticket  *)
(* is active (Holding), and what is played while blocks do not overlap     *)
(* (Nesting).                                                              *)


\* Two exchanges at once are known to have crossed, and who was answered
\* alone was answered itself.
Crossing ==
    /\ \A b, d \in Exchanging : b # d => b \in mixed
    /\ \A b \in At({"resolved", "inside"}) : b \in acked \union mixed

\* OnlyRivalsDeactivate, from the activation on.
Holding ==
    \A b \in At({"waiting", "resolved", "inside"}) :
        \/ active[AppOf[b]] = b
        \/ b \in rejected
        \/ \E d \in Activated \ {b} : AppOf[d] = AppOf[b]

\* One block at a time, which will restore what it found.
Nesting ==
    /\ \A b \in skipped : block[b] # "out"
    /\ configured # {} /\ met = {} =>
        /\ \A b, d \in Running : b = d
        /\ Running = {} => apps = configured /\ played = configured
        /\ \A b \in Running :
              /\ AppOf[b] \in played
              /\ oldApps[b] = configured
              /\ b \in skipped => apps = configured /\ played = configured

TicketsInv == TicketsTypeOK /\ Crossing /\ Holding /\ Nesting

USE AppOfAssumption, NoTicketAssumption

LEMMA TicketsInvInit == TicketsInit => TicketsInv
<1> SUFFICES ASSUME TicketsInit PROVE TicketsInv
  OBVIOUS
<1>1. TicketsTypeOK
  BY DEF TicketsInit, TicketsTypeOK, Stages
<1>2. \A b \in Blocks : block[b] = "out"
  BY DEF TicketsInit
<1>3. Crossing
  BY <1>2 DEF TicketsInit, Crossing, Exchanging, At
<1>4. Holding
  BY <1>2 DEF Holding, At
<1>5. Nesting
  BY <1>2 DEF TicketsInit, Nesting, Running, At
<1> QED BY <1>1, <1>3, <1>4, <1>5 DEF TicketsInv

----------------------------------------------------------------------------
(* Types. *)

\* What is played keeps its type when a block is left.
LEMMA StopPlayingType ==
    ASSUME TicketsTypeOK, NEW b \in Blocks, StopPlaying(b)
    PROVE  /\ block' \in [Blocks -> Stages]
           /\ configured' \subseteq Apps /\ apps' \subseteq Apps /\ played' \subseteq Apps
           /\ skipped' \subseteq Blocks /\ oldApps' \in [Blocks -> SUBSET Apps]
           /\ met' \subseteq Blocks
  BY DEF TicketsTypeOK, StopPlaying, ChangePresence, Stages

\* Every step keeps every variable's type.
LEMMA TypeStep == TicketsTypeOK /\ [TicketsNext]_ticketVars => TicketsTypeOK'
<1> SUFFICES ASSUME TicketsTypeOK, [TicketsNext]_ticketVars PROVE TicketsTypeOK'
  OBVIOUS
<1>1. ASSUME NEW b \in Blocks, Enter(b) PROVE TicketsTypeOK'
  BY <1>1 DEF TicketsTypeOK, Enter, ChangePresence, lists, Running, At, Stages
<1>2. ASSUME NEW b \in Blocks, Activate(b) PROVE TicketsTypeOK'
  <2>1. active' \in [Apps -> Blocks \union {NoTicket}]
    BY <1>2 DEF TicketsTypeOK, Activate
  <2>2. listed' \subseteq Blocks
    BY <1>2, <2>1 DEF Activate, SendAuthList, Tickets
  <2>3. mixed' \subseteq Blocks
    BY <1>2 DEF TicketsTypeOK, Activate, SendAuthList, Exchanging, At
  <2>4. /\ block' \in [Blocks -> Stages] /\ inFlight' \subseteq Blocks /\ acked' \subseteq Blocks
        /\ rejected' \subseteq Blocks
    BY <1>2 DEF TicketsTypeOK, Activate, SendAuthList, Stages
  <2>5. seqMe' \in Nat /\ sentSeq' \in [Blocks -> Nat]
    BY <1>2 DEF TicketsTypeOK, Activate, SendAuthList
  <2>6. /\ configured' \subseteq Apps /\ apps' \subseteq Apps /\ played' \subseteq Apps
        /\ skipped' \subseteq Blocks /\ oldApps' \in [Blocks -> SUBSET Apps] /\ met' \subseteq Blocks
    BY <1>2 DEF TicketsTypeOK, Activate, presence
  <2> QED BY <2>1, <2>2, <2>3, <2>4, <2>5, <2>6 DEF TicketsTypeOK
<1>3. ASSUME NEW b \in Blocks, MakingFails(b) PROVE TicketsTypeOK'
  BY <1>3, StopPlayingType DEF TicketsTypeOK, MakingFails, lists
<1>4. ASSUME NEW b \in Blocks, Acknowledge(b) PROVE TicketsTypeOK'
  BY <1>4 DEF TicketsTypeOK, Acknowledge, presence, Stages
<1>5. ASSUME NEW b \in Blocks, Resume(b) PROVE TicketsTypeOK'
  BY <1>5 DEF TicketsTypeOK, Resume, presence, Stages
<1>6. ASSUME NEW b \in Blocks, Exit(b) PROVE TicketsTypeOK'
  BY <1>6, StopPlayingType DEF TicketsTypeOK, Exit, Deactivate, lists
<1>7. ASSUME NEW b \in Blocks, Cancel(b) PROVE TicketsTypeOK'
  BY <1>7, StopPlayingType DEF TicketsTypeOK, Cancel, Deactivate, lists
<1>8. ASSUME NEW b \in Blocks, Reject(b) PROVE TicketsTypeOK'
  BY <1>8 DEF TicketsTypeOK, Reject, Deactivate, presence, lists
<1>9. CASE UNCHANGED ticketVars
  BY <1>9 DEF TicketsTypeOK, ticketVars, presence, lists
<1> QED BY <1>1, <1>2, <1>3, <1>4, <1>5, <1>6, <1>7, <1>8, <1>9 DEF TicketsNext

----------------------------------------------------------------------------
(* Crossing. *)

\* A step that leaves the lists alone and takes blocks out of the exchange.
LEMMA LeavingKeepsCrossing ==
    ASSUME Crossing, UNCHANGED lists, TicketsTypeOK, TicketsTypeOK',
           \A b \in Blocks : block'[b] = block[b] \/ block'[b] \in {"asking", "done"}
    PROVE  Crossing'
  BY DEF Crossing, Exchanging, At, lists, TicketsTypeOK

LEMMA CrossingStep ==
    ASSUME TicketsTypeOK, TicketsTypeOK', Crossing, [TicketsNext]_ticketVars PROVE Crossing'
<1>1. ASSUME NEW b \in Blocks, Enter(b) PROVE Crossing'
  BY <1>1, LeavingKeepsCrossing DEF Enter, TicketsTypeOK
<1>2. ASSUME NEW b \in Blocks, Activate(b) PROVE Crossing'
  <2>1. /\ block' = [block EXCEPT ![b] = "waiting"] /\ inFlight' = inFlight \union {b}
        /\ acked' = acked /\ mixed \subseteq mixed'
        /\ Exchanging = {} \/ mixed' = mixed \union Exchanging \union {b}
    BY <1>2 DEF Activate, SendAuthList
  <2>2. Exchanging' = Exchanging \union {b}
    BY <2>1 DEF Exchanging, At, TicketsTypeOK
  <2>3. At({"resolved", "inside"})' \subseteq At({"resolved", "inside"})
    BY <2>1 DEF At, TicketsTypeOK
  <2> QED BY <2>1, <2>2, <2>3 DEF Crossing
<1>3. ASSUME NEW b \in Blocks, MakingFails(b) PROVE Crossing'
  BY <1>3, LeavingKeepsCrossing DEF MakingFails, StopPlaying, TicketsTypeOK
<1>4. ASSUME NEW b \in Blocks, Acknowledge(b) PROVE Crossing'
  <2>1. Exchanging' \subseteq Exchanging /\ mixed' = mixed /\ acked' = acked \union {b}
    BY <1>4 DEF Acknowledge, Exchanging, At, TicketsTypeOK
  <2>2. ASSUME NEW d \in Blocks, block'[d] \in {"resolved", "inside"}
        PROVE  d \in acked' \union mixed'
    <3>1. CASE block[d] \in {"resolved", "inside"}
      BY <2>1, <3>1 DEF Crossing, At
    <3>2. CASE block[d] = "waiting"
      <4>1. d \in Exchanging /\ b \in Exchanging
        BY <1>4, <3>2 DEF Acknowledge, Exchanging, At
      <4> QED BY <2>1, <4>1 DEF Crossing
    <3> QED BY <1>4, <2>2, <3>1, <3>2 DEF Acknowledge
  <2> QED BY <2>1, <2>2 DEF Crossing, At
<1>5. ASSUME NEW b \in Blocks, Resume(b) PROVE Crossing'
  <2>1. Exchanging' \subseteq Exchanging /\ mixed' = mixed /\ acked' = acked
    BY <1>5 DEF Resume, Exchanging, At, TicketsTypeOK
  <2>2. At({"resolved", "inside"})' \subseteq At({"resolved", "inside"})
    BY <1>5 DEF Resume, At, TicketsTypeOK
  <2> QED BY <2>1, <2>2 DEF Crossing
<1>6. ASSUME NEW b \in Blocks, Exit(b) PROVE Crossing'
  BY <1>6, LeavingKeepsCrossing DEF Exit, StopPlaying, TicketsTypeOK
<1>7. ASSUME NEW b \in Blocks, Cancel(b) PROVE Crossing'
  BY <1>7, LeavingKeepsCrossing DEF Cancel, StopPlaying, TicketsTypeOK
<1>8. ASSUME NEW b \in Blocks, Reject(b) PROVE Crossing'
  BY <1>8, LeavingKeepsCrossing DEF Reject
<1>9. CASE UNCHANGED ticketVars
  BY <1>9, LeavingKeepsCrossing DEF ticketVars
<1> QED BY <1>1, <1>2, <1>3, <1>4, <1>5, <1>6, <1>7, <1>8, <1>9 DEF TicketsNext

----------------------------------------------------------------------------
(* Holding. *)

(* It is kept by a step that only touches the entry of the app of a block   *)
(* b which is activated after the step, and leaves everybody's part in the *)
(* rest of the story to b.                                                 *)
LEMMA OwnEntryKeepsHolding ==
    ASSUME TicketsTypeOK, TicketsTypeOK', Holding, NEW b \in Blocks, rejected' = rejected,
           Activated \subseteq Activated',
           \A d \in Blocks \ {b} : block'[d] \in {"waiting", "resolved", "inside"}
                                   => block[d] \in {"waiting", "resolved", "inside"},
           \A a \in Apps : active'[a] = active[a] \/ (a = AppOf[b] /\ b \in Activated'),
           block'[b] \in {"waiting", "resolved", "inside"} => active'[AppOf[b]] = b
               \/ (block[b] \in {"waiting", "resolved", "inside"} /\ active' = active)
    PROVE  Holding'
<1> SUFFICES ASSUME NEW c \in Blocks, block'[c] \in {"waiting", "resolved", "inside"}
             PROVE  \/ active'[AppOf[c]] = c
                    \/ c \in rejected
                    \/ \E d \in Activated' \ {c} : AppOf[d] = AppOf[c]
  BY DEF Holding, At
<1>1. CASE c = b /\ active'[AppOf[b]] = b
  BY <1>1
<1>2. CASE c # b \/ (block[b] \in {"waiting", "resolved", "inside"} /\ active' = active)
  <2>1. \/ active[AppOf[c]] = c
        \/ c \in rejected
        \/ \E d \in Activated \ {c} : AppOf[d] = AppOf[c]
    BY <1>2 DEF Holding, At
  <2> QED BY <1>2, <2>1
<1> QED BY <1>1, <1>2

LEMMA HoldingStep ==
    ASSUME TicketsTypeOK, TicketsTypeOK', Holding, [TicketsNext]_ticketVars PROVE Holding'
<1> USE DEF TicketsTypeOK, At, Activated
<1>1. ASSUME NEW b \in Blocks, Enter(b) PROVE Holding'
  BY <1>1, OwnEntryKeepsHolding DEF Enter
<1>2. ASSUME NEW b \in Blocks, Activate(b) PROVE Holding'
  BY <1>2, OwnEntryKeepsHolding DEF Activate
<1>3. ASSUME NEW b \in Blocks, MakingFails(b) PROVE Holding'
  BY <1>3, OwnEntryKeepsHolding DEF MakingFails, StopPlaying
<1>4. ASSUME NEW b \in Blocks, Acknowledge(b) PROVE Holding'
  BY <1>4, OwnEntryKeepsHolding DEF Acknowledge
<1>5. ASSUME NEW b \in Blocks, Resume(b) PROVE Holding'
  BY <1>5, OwnEntryKeepsHolding DEF Resume
<1>6. ASSUME NEW b \in Blocks, Exit(b) PROVE Holding'
  BY <1>6, OwnEntryKeepsHolding DEF Exit, Deactivate, StopPlaying
<1>7. ASSUME NEW b \in Blocks, Cancel(b) PROVE Holding'
  BY <1>7, OwnEntryKeepsHolding DEF Cancel, Deactivate, StopPlaying
<1>8. ASSUME NEW b \in Blocks, Reject(b) PROVE Holding'
  BY <1>8 DEF Reject, Deactivate, Holding
<1>9. CASE UNCHANGED ticketVars
  BY <1>9 DEF ticketVars, Holding
<1> QED BY <1>1, <1>2, <1>3, <1>4, <1>5, <1>6, <1>7, <1>8, <1>9 DEF TicketsNext

----------------------------------------------------------------------------
(* Nesting. *)

\* A step that touches no presence and starts or ends no block.
LEMMA QuietKeepsNesting ==
    ASSUME Nesting, UNCHANGED presence, Running' = Running,
           \A b \in Blocks : block[b] # "out" => block'[b] # "out", skipped \subseteq Blocks
    PROVE  Nesting'
  BY DEF Nesting, presence

\* A block that is left restores what it found.
LEMMA StopKeepsNesting ==
    ASSUME TicketsTypeOK, Nesting, NEW b \in Running, StopPlaying(b) PROVE Nesting'
<1>1. /\ b \in Blocks /\ block' = [block EXCEPT ![b] = "done"]
      /\ UNCHANGED <<configured, skipped, oldApps, met>>
  BY DEF StopPlaying, Running, At
<1>2. Running' = Running \ {b}
  BY <1>1 DEF Running, At, TicketsTypeOK
<1>3. \A d \in skipped' : block'[d] # "out"
  BY <1>1 DEF Nesting, TicketsTypeOK
<1>4. ASSUME configured # {}, met = {}
      PROVE  apps' = configured /\ played' = configured /\ Running' = {}
  BY <1>1, <1>2, <1>4 DEF Nesting, StopPlaying, ChangePresence
<1> QED BY <1>1, <1>3, <1>4 DEF Nesting

LEMMA NestingStep ==
    ASSUME TicketsTypeOK, TicketsTypeOK', Nesting, [TicketsNext]_ticketVars PROVE Nesting'
<1>1. ASSUME NEW b \in Blocks, Enter(b) PROVE Nesting'
  <2>1. /\ block[b] = "out" /\ block' = [block EXCEPT ![b] = "asking"]
        /\ configured' = configured /\ oldApps' = [oldApps EXCEPT ![b] = apps]
        /\ b \notin skipped
    BY <1>1 DEF Enter, Nesting
  <2>2. Running' = Running \union {b}
    BY <2>1 DEF Running, At, TicketsTypeOK
  <2>3. \A d \in skipped' : block'[d] # "out"
    BY <1>1, <2>1 DEF Enter, Nesting, TicketsTypeOK
  <2>4. ASSUME configured # {}, met' = {}
        PROVE  /\ Running = {} /\ Running' = {b} /\ apps = configured /\ played = configured
    BY <1>1, <2>1, <2>2, <2>4 DEF Enter, Nesting
  <2>5. ASSUME configured # {}, met' = {}
        PROVE  /\ AppOf[b] \in played' /\ oldApps'[b] = configured
               /\ b \in skipped' => apps' = configured /\ played' = configured
    BY <1>1, <2>1, <2>4, <2>5 DEF Enter, ChangePresence, TicketsTypeOK
  <2> QED BY <2>1, <2>3, <2>4, <2>5 DEF Nesting
<1>2. ASSUME NEW b \in Blocks, Activate(b) PROVE Nesting'
  BY <1>2, QuietKeepsNesting DEF Activate, Running, At, TicketsTypeOK
<1>3. ASSUME NEW b \in Blocks, MakingFails(b) PROVE Nesting'
  BY <1>3, StopKeepsNesting DEF MakingFails, Running, At
<1>4. ASSUME NEW b \in Blocks, Acknowledge(b) PROVE Nesting'
  BY <1>4, QuietKeepsNesting DEF Acknowledge, Running, At, TicketsTypeOK
<1>5. ASSUME NEW b \in Blocks, Resume(b) PROVE Nesting'
  BY <1>5, QuietKeepsNesting DEF Resume, Running, At, TicketsTypeOK
<1>6. ASSUME NEW b \in Blocks, Exit(b) PROVE Nesting'
  BY <1>6, StopKeepsNesting DEF Exit, Running, At
<1>7. ASSUME NEW b \in Blocks, Cancel(b) PROVE Nesting'
  BY <1>7, StopKeepsNesting DEF Cancel, Running, At
<1>8. ASSUME NEW b \in Blocks, Reject(b) PROVE Nesting'
  BY <1>8, QuietKeepsNesting DEF Reject, Running, At, TicketsTypeOK
<1>9. CASE UNCHANGED ticketVars
  BY <1>9, QuietKeepsNesting DEF ticketVars, Running, At, TicketsTypeOK
<1> QED BY <1>1, <1>2, <1>3, <1>4, <1>5, <1>6, <1>7, <1>8, <1>9 DEF TicketsNext

----------------------------------------------------------------------------
(* The inductive invariant holds always.                                   *)
THEOREM Invariance == TicketsSpec => []TicketsInv
<1>1. TicketsInv /\ [TicketsNext]_ticketVars => TicketsInv'
  BY TypeStep, CrossingStep, HoldingStep, NestingStep DEF TicketsInv
<1> QED BY <1>1, TicketsInvInit, PTL DEF TicketsSpec

(* Every variable keeps its type.                                          *)
THEOREM TicketsTyped == TicketsSpec => []TicketsTypeOK
  BY Invariance, PTL DEF TicketsInv

(* A block whose list crossed with no other's is entered when Steam has    *)
(* acknowledged that very list (send_auth_list).                           *)
THEOREM ListedOnEntry == TicketsSpec => []EnteredWhenListed
<1>1. TicketsInv => EnteredWhenListed
  BY DEF TicketsInv, Crossing, EnteredWhenListed, At
<1> QED BY <1>1, Invariance, PTL

(* Only a block for the same app, or Steam, takes a block's ticket away    *)
(* (_active_auth_tickets is keyed by app and user).                        *)
THEOREM RivalsDeactivate == TicketsSpec => []OnlyRivalsDeactivate
<1>1. TicketsInv => OnlyRivalsDeactivate
  BY DEF TicketsInv, Holding, OnlyRivalsDeactivate, At
<1> QED BY <1>1, Invariance, PTL

(* Blocks that do not overlap play their app and restore what was played   *)
(* (temporarily_play), in a client created with apps.                      *)
THEOREM Restores == TicketsSpec => []PresenceRestored
<1>1. TicketsInv => PresenceRestored
  BY DEF TicketsInv, Nesting, PresenceRestored
<1> QED BY <1>1, Invariance, PTL
=============================================================================
