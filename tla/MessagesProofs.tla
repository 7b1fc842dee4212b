--------------------------- MODULE MessagesProofs ---------------------------
(***************************************************************************)
(* Proofs about the two modules that handle messages.                      *)
(*                                                                         *)
(* Commands, with Events and Cooldown, for any finite set of messages, any *)
(* waiters, buckets, rate and period.  A walk of the listeners deletes by  *)
(* place: those that stay move to their rank among them, which is an       *)
(* injection of as many places as there are, and so leaves none out        *)
(* (DeletedIs): a pending future stays listed.  The queue of the cooldown  *)
(* holds one entry per time, and the tasks that record and forget the calls*)
(* are behind it: CooldownInv says whose each entry is, and for how long each*)
(* call has one.  From it follow a bound from below when a call is refused *)
(* (each entry of the bucket is that of an earlier call: an injection into *)
(* these calls), and one from above when it passes (each recent call has an*)
(* entry of its own, unless a task is behind: an injection the other way). *)
(* Only one step of a message asks the cooldown (AskedOnce).               *)
(*                                                                         *)
(* Chat, for any finite set of users and any calls of chunk().  Whoever is *)
(* about to be made a member, by a task that fetches the user or by a      *)
(* chunk() that holds the record, belongs to the group or is known to be   *)
(* astray (NewcomersBelong), and while a chunk() runs every user of the    *)
(* group has a place in _members (NobodyMissing): so the deletion of the   *)
(* records loses nobody.  A place that is empty has its record, and a      *)
(* chunk() that nobody disturbs goes through exactly the records there are *)
(* (OwnRecords, Undisturbed): so it fills every place with the user's own. *)
(***************************************************************************)
EXTENDS Commands, Chat, FiniteSetTheorems, SequenceTheorems, WellFoundedInduction, TLAPS

----------------------------------------------------------------------------
\* Among some times there is an oldest one.
LEMMA AnOldest ==
    ASSUME NEW S \in SUBSET Nat, S # {}
    PROVE  \E x \in S : \A y \in S : x <= y
<1>1. IsWellFoundedOn(OpToRel(<, Nat), Nat)
  BY NatLessThanWellFounded
<1>2. PICK x \in S : \A y \in S : ~(<<y, x>> \in OpToRel(<, Nat))
  BY <1>1, WFMin
<1>3. \A y \in S : ~(y < x)
  BY <1>2 DEF OpToRel
<1> QED
  BY <1>3

----------------------------------------------------------------------------
(* The events *)

LEMMA EventsTypesInit == EventsInit => EventsTypeOK /\ NoDeafWaiter
BY DEF EventsInit, EventsTypeOK, NoDeafWaiter

\* What stays when places of a list are deleted: all that was elsewhere.
LEMMA DeletedIs ==
    ASSUME NEW list \in Seq(Waiters), NEW places
    PROVE  /\ Deleted(list, places) \in Seq(Waiters)
           /\ \A i \in DOMAIN list \ places : list[i] \in ToSet(Deleted(list, places))
<1> DEFINE kept == DOMAIN list \ places
           upTo(i) == {j \in kept : j <= i}
           n == Cardinality(kept)
           rank == [i \in kept |-> Cardinality(upTo(i))]
<1>1. DOMAIN list = 1..Len(list) /\ Len(list) \in Nat /\ \A i \in kept : list[i] \in Waiters
  OBVIOUS
<1>2. IsFiniteSet(kept) /\ n \in Nat
  <2>1. IsFiniteSet(1..Len(list))
    BY <1>1, FS_Interval
  <2> QED
    BY <1>1, <2>1, FS_Subset, FS_CardinalityType
<1>3. ASSUME NEW i \in kept
      PROVE  /\ i \in Int /\ upTo(i) \in SUBSET kept /\ IsFiniteSet(upTo(i))
             /\ rank[i] = Cardinality(upTo(i)) /\ rank[i] \in 1..n
  <2>1. i \in Int /\ upTo(i) \in SUBSET kept /\ i \in upTo(i)
    BY <1>1
  <2>2. IsFiniteSet(upTo(i)) /\ Cardinality(upTo(i)) <= n
    BY <1>2, <2>1, FS_Subset
  <2>3. Cardinality(upTo(i)) \in Nat /\ Cardinality(upTo(i)) # 0
    BY <2>1, <2>2, FS_CardinalityType, FS_EmptySet
  <2> QED
    BY <1>2, <2>1, <2>2, <2>3
<1>4. ASSUME NEW i \in kept, NEW j \in kept, i < j PROVE rank[i] # rank[j]
  <2>1. upTo(i) \in SUBSET upTo(j) /\ j \in upTo(j) /\ j \notin upTo(i)
    BY <1>3, <1>4
  <2>2. Cardinality(upTo(j)) # Cardinality(upTo(i))
    BY <1>3, <2>1, FS_Subset
  <2> QED
    BY <1>3, <2>2
<1>5. \A i, j \in kept : rank[i] = rank[j] => i = j
  BY <1>3, <1>4
<1>6. rank \in Injection(kept, 1..n)
  BY <1>3, <1>5 DEF Injection, IsInjective
<1>7. rank \in Surjection(kept, 1..n)
  <2>1. IsFiniteSet(1..n) /\ Cardinality(1..n) = n
    BY <1>2, FS_Interval
  <2> QED
    BY <1>6, <2>1, FS_Injection
<1> DEFINE placed(k) == CHOOSE i \in kept : Cardinality(upTo(i)) = k
<1>8. \A k \in 1..n : placed(k) \in kept /\ Cardinality(upTo(placed(k))) = k
  <2>1. \A k \in 1..n : \E i \in kept : Cardinality(upTo(i)) = k
    BY <1>7 DEF Surjection
  <2> QED
    BY <2>1
<1>9. Deleted(list, places) = [k \in 1..n |-> list[placed(k)]]
  BY DEF Deleted
<1>10. Deleted(list, places) \in Seq(Waiters)
  <2>1. \A k \in 1..n : list[placed(k)] \in Waiters
    BY <1>1, <1>8
  <2> HIDE DEF placed, n
  <2> QED
    BY <1>2, <1>9, <2>1
<1>11. ASSUME NEW i \in kept PROVE list[i] \in ToSet(Deleted(list, places))
  <2>1. rank[i] \in 1..n /\ rank[i] = Cardinality(upTo(i))
    BY <1>3
  <2>2. placed(rank[i]) = i
    BY <1>3, <1>5, <1>8, <2>1
  <2> HIDE DEF placed, n, rank
  <2>3. DOMAIN Deleted(list, places) = 1..n /\ Deleted(list, places)[rank[i]] = list[i]
    BY <1>9, <2>1, <2>2
  <2> QED
    BY <2>1, <2>3, ZenonT(30) DEF ToSet
<1> QED
  BY <1>10, <1>11

\* What the walk of the listeners does to each.
LEMMA Walk ==
    ASSUME EventsTypeOK, NEW e \in Kinds, Dispatch(e)
    PROVE  EventsTypeOK' /\ (NoDeafWaiter => NoDeafWaiter')
<1> DEFINE list == listeners[e]
           gone == {w \in ToSet(list) : fut[w] = "cancelled"}
<1>1. PICK settled \in SUBSET (ToSet(list) \ gone) :
         /\ fut' = [w \in Waiters |-> IF w \in settled THEN "settled" ELSE fut[w]]
         /\ listeners' = [listeners EXCEPT ![e] =
                            Deleted(list, {i \in DOMAIN list : list[i] \in settled \union gone})]
  BY DEF Dispatch
<1> DEFINE places == {i \in DOMAIN list : list[i] \in settled \union gone}
<1>2. /\ list \in Seq(Waiters) /\ listeners \in [Kinds -> Seq(Waiters)]
      /\ fut \in [Waiters -> {"none", "pending", "settled", "cancelled"}]
  BY DEF EventsTypeOK
<1>3. /\ Deleted(list, places) \in Seq(Waiters)
      /\ \A i \in DOMAIN list \ places : list[i] \in ToSet(Deleted(list, places))
  BY <1>2, DeletedIs
<1>4. EventsTypeOK'
  BY <1>1, <1>2, <1>3 DEF EventsTypeOK
<1>5. ASSUME NoDeafWaiter, NEW w \in Waiters, fut'[w] = "pending"
      PROVE  w \in ToSet(listeners'[EventOf[w]])
  <2>1. fut[w] = "pending" /\ w \notin settled /\ w \notin gone
    BY <1>1, <1>5
  <2>2. w \in ToSet(listeners[EventOf[w]]) /\ EventOf[w] \in Kinds
    BY <1>5, <2>1, EventOfAssumption DEF NoDeafWaiter
  <2>3. CASE EventOf[w] = e
    <3>1. PICK i \in DOMAIN list : list[i] = w
      BY <2>2, <2>3 DEF ToSet
    <3>2. i \in DOMAIN list \ places
      BY <2>1, <3>1
    <3>3. w \in ToSet(Deleted(list, places))
      BY <1>3, <3>1, <3>2
    <3> QED
      BY <1>1, <1>2, <2>3, <3>3
  <2>4. CASE EventOf[w] # e
    BY <1>1, <1>2, <2>2, <2>4
  <2> QED
    BY <2>3, <2>4
<1> QED
  BY <1>4, <1>5 DEF NoDeafWaiter

\* The steps of the waiters.
LEMMA Wait ==
    ASSUME EventsTypeOK, EventsNext
    PROVE  EventsTypeOK' /\ (NoDeafWaiter => NoDeafWaiter')
<1>1. PICK w \in Waiters : WaitFor(w) \/ GiveUp(w)
  BY DEF EventsNext
<1>2. CASE GiveUp(w)
  BY <1>2 DEF GiveUp, EventsTypeOK, NoDeafWaiter
<1>3. CASE WaitFor(w)
  <2> DEFINE e == EventOf[w]
             list == listeners[e]
  <2>1. /\ e \in Kinds /\ list \in Seq(Waiters) /\ listeners \in [Kinds -> Seq(Waiters)]
        /\ fut \in [Waiters -> {"none", "pending", "settled", "cancelled"}]
        /\ fut' = [fut EXCEPT ![w] = "pending"]
        /\ listeners' = [listeners EXCEPT ![e] = Append(list, w)]
    BY <1>3, EventOfAssumption DEF WaitFor, EventsTypeOK
  <2>2. Append(list, w) \in Seq(Waiters) /\ ToSet(Append(list, w)) = ToSet(list) \union {w}
    <3>1. /\ DOMAIN list = 1..Len(list) /\ DOMAIN Append(list, w) = 1..(Len(list) + 1) /\ Len(list) \in Nat
          /\ \A i \in 1..Len(list) : Append(list, w)[i] = list[i]
          /\ Append(list, w)[Len(list) + 1] = w
          /\ Append(list, w) \in Seq(Waiters)
      BY <2>1
    <3>2. \A i \in 1..(Len(list) + 1) : i \in 1..Len(list) \/ i = Len(list) + 1
      BY <3>1
    <3>3. \A i \in 1..Len(list) : i \in 1..(Len(list) + 1)
      BY <3>1
    <3>4. Len(list) + 1 \in 1..(Len(list) + 1)
      BY <3>1
    <3> QED
      BY <3>1, <3>2, <3>3, <3>4, ZenonT(30) DEF ToSet
  <2>3. EventsTypeOK'
    BY <2>1, <2>2 DEF EventsTypeOK
  <2>4. ASSUME NoDeafWaiter, NEW v \in Waiters, fut'[v] = "pending"
        PROVE  v \in ToSet(listeners'[EventOf[v]])
    <3>1. v = w \/ v \in ToSet(listeners[EventOf[v]])
      BY <2>1, <2>4 DEF NoDeafWaiter
    <3>2. EventOf[v] \in Kinds
      BY EventOfAssumption
    <3>3. CASE EventOf[v] = e
      BY <2>1, <2>2, <3>1, <3>3
    <3>4. CASE EventOf[v] # e
      BY <2>1, <3>1, <3>2, <3>4
    <3> QED
      BY <3>3, <3>4
  <2> QED
    BY <2>3, <2>4 DEF NoDeafWaiter
<1> QED
  BY <1>1, <1>2, <1>3

----------------------------------------------------------------------------
(* The cooldown *)

\* A call is recorded in the tick in which it asked, and forgotten Per later.
CallsAreTimed ==
    \A c \in Calls : /\ at[c] <= clock
                     /\ verdict[c] = "none" <=> at[c] = -1
                     /\ c \in recording => at[c] = clock
                     /\ c \in sleeping => at[c] >= 0 /\ due[c] = at[c] + Per

\* What is in the queue was put there by a call that has not forgotten it.
QueueIsOfCalls ==
    \A t \in Times : queue[t] # NoBucket =>
        \E d \in sleeping : at[d] = t /\ BucketOf[d] = queue[t]

\* A call is remembered for Per seconds, unless another read the same time.
CallsAreQueued ==
    \A c \in Calls :
        /\ at[c] >= 0 /\ at[c] + Per > clock => c \in recording \union sleeping
        /\ c \in sleeping => \/ queue[at[c]] = BucketOf[c]
                             \/ \E d \in Calls \ {c} : at[d] = at[c]

\* Rate calls, refused ones among them, come before a refusal.
RefusalHasCalls ==
    \A c \in Calls : verdict[c] = "refused" => Cardinality(Recent(c)) >= Rate

CooldownInv ==
    CooldownTypeOK /\ CallsAreTimed /\ QueueIsOfCalls /\ CallsAreQueued /\ RefusalHasCalls

LEMMA CooldownInvInit == CooldownInit => CooldownInv
<1> SUFFICES ASSUME CooldownInit PROVE CooldownInv
    OBVIOUS
<1>1. CooldownTypeOK
  BY CooldownAssumption DEF CooldownInit, CooldownTypeOK, Times
<1>2. CallsAreTimed /\ QueueIsOfCalls /\ CallsAreQueued /\ RefusalHasCalls
  BY CooldownAssumption DEF CooldownInit, CallsAreTimed, QueueIsOfCalls, CallsAreQueued, RefusalHasCalls
<1> QED
  BY <1>1, <1>2 DEF CooldownInv

\* Each time of a bucket is that of one of its calls.
LEMMA TimesAreOfCalls ==
    ASSUME CooldownInv, NEW b, NEW D, IsFiniteSet(D),
           \A d \in Calls : at[d] \in BucketCalls(b) /\ BucketOf[d] = b => d \in D
    PROVE  b # NoBucket => IsFiniteSet(BucketCalls(b)) /\ Cardinality(BucketCalls(b)) <= Cardinality(D)
<1> SUFFICES ASSUME b # NoBucket
             PROVE  IsFiniteSet(BucketCalls(b)) /\ Cardinality(BucketCalls(b)) <= Cardinality(D)
    OBVIOUS
<1> DEFINE f == [t \in BucketCalls(b) |-> CHOOSE d \in D : at[d] = t]
<1>1. ASSUME NEW t \in BucketCalls(b) PROVE \E d \in D : at[d] = t
  <2>1. PICK d \in sleeping : at[d] = t /\ BucketOf[d] = b
    BY <1>1 DEF BucketCalls, CooldownInv, QueueIsOfCalls
  <2>2. d \in Calls
    BY <2>1 DEF CooldownInv, CooldownTypeOK
  <2> QED
    BY <1>1, <2>1, <2>2
<1>2. \A t \in BucketCalls(b) : f[t] \in D /\ at[f[t]] = t
  BY <1>1
<1>3. f \in Injection(BucketCalls(b), D)
  BY <1>2 DEF Injection, IsInjective
<1> QED
  BY <1>3, FS_Injection

\* A refusal has its calls when it is given.
LEMMA RefusalsAreFor ==
    ASSUME CooldownInv, NEW c \in Calls, Ask(c), at[c] = -1, verdict'[c] = "refused"
    PROVE  Cardinality(Recent(c)') >= Rate
<1> DEFINE b == BucketOf[c]
           D == {d \in Attempts(b)' \ {c} : at'[d] <= at'[c] /\ at'[d] + Per > at'[c]}
<1>1. /\ Rate \in Nat \ {0} /\ Per \in Nat \ {0} /\ MaxTime \in Nat /\ IsFiniteSet(Calls) /\ b # NoBucket
      /\ Times = 0..MaxTime /\ clock \in Times /\ at \in [Calls -> Times \union {-1}]
      /\ \A d \in Calls : at[d] <= clock
  BY CooldownAssumption DEF CooldownInv, CooldownTypeOK, CallsAreTimed, Times
<1>2. /\ RetryAfter(b) # 0
      /\ at' = [at EXCEPT ![c] = clock]
  BY DEF Ask, CooldownInv, CooldownTypeOK
<1>3. /\ BucketCalls(b) # {} /\ Cardinality(BucketCalls(b)) >= Rate
      /\ RetryAfter(b) = Oldest(b) + Per - clock /\ Oldest(b) + Per >= clock
  BY <1>2 DEF RetryAfter
<1>4. BucketCalls(b) \in SUBSET Nat /\ BucketCalls(b) \subseteq Times
  BY <1>1 DEF BucketCalls
<1>5. Oldest(b) \in BucketCalls(b) /\ \A t \in BucketCalls(b) : Oldest(b) <= t
  BY <1>3, <1>4, AnOldest DEF Oldest
<1>6. IsFiniteSet(D)
  BY <1>1, FS_Subset DEF Attempts
<1>7. ASSUME NEW d \in Calls, at[d] \in BucketCalls(b), BucketOf[d] = b PROVE d \in D
  <2>1. at[d] \in Nat /\ d # c
    BY <1>4, <1>7
  <2>2. at'[d] = at[d] /\ at'[c] = clock
    BY <1>1, <1>2, <2>1
  <2>3. at[d] + Per > clock
    BY <1>1, <1>2, <1>3, <1>4, <1>5, <1>7, <2>1
  <2> QED
    BY <1>1, <1>7, <2>1, <2>2, <2>3 DEF Attempts
<1> HIDE DEF D
<1>8. IsFiniteSet(BucketCalls(b)) /\ Cardinality(BucketCalls(b)) <= Cardinality(D)
  BY <1>1, <1>6, <1>7, TimesAreOfCalls
<1>9. Cardinality(BucketCalls(b)) \in Nat /\ Cardinality(D) \in Nat
  BY <1>6, <1>8, FS_CardinalityType
<1>10. Cardinality(D) >= Rate
  BY <1>1, <1>3, <1>8, <1>9
<1> QED
  BY <1>10 DEF D, Recent

LEMMA CooldownStays == CooldownInv /\ UNCHANGED cooldown => CooldownInv'
BY DEF CooldownInv, cooldown, CooldownTypeOK, CallsAreTimed, QueueIsOfCalls, CallsAreQueued, RefusalHasCalls,
       Recent, Attempts

\* A refusal keeps its calls: who asks later only adds to them.
LEMMA RefusalsStay ==
    ASSUME CooldownInv, NEW c \in Calls, at[c] >= 0, at'[c] = at[c],
           \A d \in Calls : at[d] >= 0 => at'[d] = at[d],
           Cardinality(Recent(c)) >= Rate
    PROVE  Cardinality(Recent(c)') >= Rate
<1> DEFINE D == Recent(c)
           E == Recent(c)'
<1>1. IsFiniteSet(E) /\ IsFiniteSet(D)
  BY CooldownAssumption, FS_Subset DEF Recent, Attempts
<1>2. D \in SUBSET E
  BY DEF Recent, Attempts
<1> HIDE DEF D, E
<1>3. Cardinality(D) <= Cardinality(E) /\ Cardinality(E) \in Nat /\ Cardinality(D) \in Nat /\ Rate \in Nat
  BY <1>1, <1>2, FS_Subset, FS_CardinalityType, CooldownAssumption
<1>4. Cardinality(E) >= Rate
  <2>1. Cardinality(D) >= Rate
    BY DEF D
  <2> QED
    BY <1>3, <2>1
<1> QED
  BY <1>4 DEF E

\* A call asks when it has not asked.
LEMMA AskKeeps ==
    ASSUME CooldownInv, NEW c \in Calls, at[c] = -1, Ask(c)
    PROVE  CooldownInv'
<1>1. /\ clock \in 0..MaxTime /\ MaxTime \in Nat /\ Times = 0..MaxTime /\ at \in [Calls -> Times \union {-1}]
      /\ recording \subseteq Calls /\ sleeping \subseteq Calls \ recording
      /\ verdict \in [Calls -> {"none", "passed", "refused"}]
      /\ due \in [Calls -> 0..(MaxTime + Per)] /\ Per \in Nat \ {0}
  BY CooldownAssumption DEF CooldownInv, CooldownTypeOK, Times
<1>2. /\ at' = [at EXCEPT ![c] = clock] /\ recording' = recording \union {c}
      /\ UNCHANGED <<clock, queue, sleeping, due>>
      /\ verdict'[c] \in {"refused", "passed"} /\ \A d \in Calls \ {c} : verdict'[d] = verdict[d]
      /\ verdict' \in [Calls -> {"none", "passed", "refused"}]
  BY <1>1 DEF Ask
<1>3. c \notin sleeping /\ at'[c] = clock /\ \A d \in Calls \ {c} : at'[d] = at[d]
  BY <1>1, <1>2 DEF CooldownInv, CallsAreTimed
<1>4. CooldownTypeOK'
  BY <1>1, <1>2, <1>3 DEF CooldownInv, CooldownTypeOK
<1>5. CallsAreTimed'
  BY <1>1, <1>2, <1>3 DEF CooldownInv, CallsAreTimed
<1>6. QueueIsOfCalls'
  BY <1>1, <1>2, <1>3 DEF CooldownInv, QueueIsOfCalls
<1>7. CallsAreQueued'
  <2> SUFFICES ASSUME NEW d \in Calls
               PROVE  /\ at'[d] >= 0 /\ at'[d] + Per > clock => d \in recording' \union sleeping
                      /\ d \in sleeping => \/ queue[at'[d]] = BucketOf[d]
                                           \/ \E e \in Calls \ {d} : at'[e] = at'[d]
    BY <1>2 DEF CallsAreQueued
  <2>1. CASE d = c
    BY <1>2, <1>3, <2>1
  <2>2. CASE d # c
    <3>1. at'[d] = at[d] /\ (d \in sleeping => at[d] # -1)
      BY <1>1, <1>3, <2>2 DEF CooldownInv, CallsAreTimed
    <3>2. \A e \in Calls : at[e] = at[d] /\ d \in sleeping => at'[e] = at[e]
      BY <1>3, <3>1
    <3> QED
      BY <1>2, <3>1, <3>2 DEF CooldownInv, CallsAreQueued
  <2> QED
    BY <2>1, <2>2
<1>8. ASSUME NEW d \in Calls, verdict'[d] = "refused"
      PROVE  Cardinality(Recent(d)') >= Rate
  <2>1. CASE d = c
    BY <1>8, <2>1, RefusalsAreFor
  <2>2. CASE d # c
    <3>1. verdict[d] = "refused" /\ at[d] # -1
      BY <1>2, <1>8, <2>2 DEF CooldownInv, CallsAreTimed
    <3>2. at[d] >= 0 /\ at'[d] = at[d] /\ \A e \in Calls : at[e] >= 0 => at'[e] = at[e]
      BY <1>1, <1>3, <2>2, <3>1
    <3>3. Cardinality(Recent(d)) >= Rate
      BY <3>1 DEF CooldownInv, RefusalHasCalls
    <3> QED
      BY <3>2, <3>3, RefusalsStay
  <2> QED
    BY <2>1, <2>2
<1> QED
  BY <1>4, <1>5, <1>6, <1>7, <1>8 DEF CooldownInv, RefusalHasCalls

\* The tasks of the calls, and the time.
LEMMA PassKeeps == CooldownInv /\ Pass => CooldownInv' /\ UNCHANGED <<at, verdict>>
<1> SUFFICES ASSUME CooldownInv, Pass PROVE CooldownInv' /\ UNCHANGED <<at, verdict>>
    OBVIOUS
<1>1. /\ clock \in 0..MaxTime /\ MaxTime \in Nat /\ Times = 0..MaxTime /\ at \in [Calls -> Times \union {-1}]
      /\ recording \subseteq Calls /\ sleeping \subseteq Calls \ recording
      /\ due \in [Calls -> 0..(MaxTime + Per)] /\ Per \in Nat \ {0}
      /\ queue \in [Times -> {BucketOf[c] : c \in Calls} \union {NoBucket}]
  BY CooldownAssumption DEF CooldownInv, CooldownTypeOK, Times
<1>2. UNCHANGED <<at, verdict>>
  BY DEF Pass, Tick, Record, Expire
<1>3. RefusalHasCalls'
  BY <1>2 DEF CooldownInv, RefusalHasCalls, Recent, Attempts
<1>4. CASE Tick
  <2>1. /\ recording = {} /\ clock' = clock + 1 /\ clock' \in 0..MaxTime
        /\ UNCHANGED <<queue, recording, sleeping, due>>
    BY <1>1, <1>4 DEF Tick
  <2>2. CooldownTypeOK'
    BY <1>1, <1>2, <2>1 DEF CooldownInv, CooldownTypeOK
  <2>3. CallsAreTimed'
    BY <1>1, <1>2, <2>1 DEF CooldownInv, CallsAreTimed
  <2>4. QueueIsOfCalls' /\ CallsAreQueued'
    BY <1>1, <1>2, <2>1 DEF CooldownInv, QueueIsOfCalls, CallsAreQueued
  <2> QED
    BY <1>2, <1>3, <2>2, <2>3, <2>4 DEF CooldownInv
<1>5. ASSUME NEW c \in Calls, Record(c) PROVE CooldownInv'
  <2>1. at[c] = clock /\ c \in recording /\ c \notin sleeping /\ BucketOf[c] # NoBucket
    BY <1>1, <1>5, CooldownAssumption DEF Record, CooldownInv, CallsAreTimed
  <2>2. /\ recording' = recording \ {c} /\ sleeping' = sleeping \union {c} /\ clock' = clock
        /\ due'[c] = clock + Per /\ \A d \in Calls \ {c} : due'[d] = due[d]
        /\ due' \in [Calls -> 0..(MaxTime + Per)]
        /\ queue'[clock] = BucketOf[c] /\ \A t \in Times \ {clock} : queue'[t] = queue[t]
        /\ queue' \in [Times -> {BucketOf[d] : d \in Calls} \union {NoBucket}]
    BY <1>1, <1>5, <2>1 DEF Record
  <2>3. CooldownTypeOK'
    BY <1>1, <1>2, <2>2 DEF CooldownInv, CooldownTypeOK
  <2>4. CallsAreTimed'
    BY <1>1, <1>2, <2>1, <2>2 DEF CooldownInv, CallsAreTimed
  <2>5. QueueIsOfCalls'
    <3> SUFFICES ASSUME NEW t \in Times, queue'[t] # NoBucket
                 PROVE  \E d \in sleeping' : at[d] = t /\ BucketOf[d] = queue'[t]
      BY <1>2 DEF QueueIsOfCalls
    <3>1. CASE t = clock
      BY <2>1, <2>2, <3>1
    <3>2. CASE t # clock
      <4>1. PICK d \in sleeping : at[d] = t /\ BucketOf[d] = queue[t]
        BY <2>2, <3>2 DEF CooldownInv, QueueIsOfCalls
      <4> QED
        BY <2>2, <3>2, <4>1
    <3> QED
      BY <3>1, <3>2
  <2>6. CallsAreQueued'
    <3> SUFFICES ASSUME NEW d \in Calls
                 PROVE  /\ at[d] >= 0 /\ at[d] + Per > clock => d \in recording' \union sleeping'
                        /\ d \in sleeping' => \/ queue'[at[d]] = BucketOf[d]
                                              \/ \E e \in Calls \ {d} : at[e] = at[d]
      BY <1>2, <2>2 DEF CallsAreQueued
    <3>1. at[d] >= 0 /\ at[d] + Per > clock => d \in recording' \union sleeping'
      BY <2>2 DEF CooldownInv, CallsAreQueued
    <3>2. CASE d = c
      BY <2>1, <2>2, <3>1, <3>2
    <3>3. CASE d # c /\ at[d] = clock
      BY <2>1, <3>1, <3>3
    <3>4. CASE d # c /\ at[d] # clock
      <4>1. d \in sleeping => at[d] \in Times \ {clock}
        BY <1>1, <3>4 DEF CooldownInv, CallsAreTimed
      <4> QED
        BY <2>2, <3>1, <3>4, <4>1 DEF CooldownInv, CallsAreQueued
    <3> QED
      BY <3>2, <3>3, <3>4
  <2> QED
    BY <1>3, <2>3, <2>4, <2>5, <2>6 DEF CooldownInv
<1>6. ASSUME NEW c \in Calls, Expire(c) PROVE CooldownInv'
  <2>1. c \in sleeping /\ at[c] >= 0 /\ at[c] \in Times /\ due[c] = at[c] + Per /\ clock >= due[c]
    BY <1>1, <1>6 DEF Expire, CooldownInv, CallsAreTimed
  <2>2. /\ sleeping' = sleeping \ {c} /\ UNCHANGED <<clock, recording, due>>
        /\ queue'[at[c]] = NoBucket /\ \A t \in Times \ {at[c]} : queue'[t] = queue[t]
        /\ queue' \in [Times -> {BucketOf[d] : d \in Calls} \union {NoBucket}]
    BY <1>1, <1>6, <2>1 DEF Expire
  <2>3. CooldownTypeOK'
    BY <1>1, <1>2, <2>2 DEF CooldownInv, CooldownTypeOK
  <2>4. CallsAreTimed'
    BY <1>1, <1>2, <2>1, <2>2 DEF CooldownInv, CallsAreTimed
  <2>5. QueueIsOfCalls'
    <3> SUFFICES ASSUME NEW t \in Times, queue'[t] # NoBucket
                 PROVE  \E d \in sleeping' : at[d] = t /\ BucketOf[d] = queue'[t]
      BY <1>2 DEF QueueIsOfCalls
    <3>1. t # at[c] /\ queue'[t] = queue[t]
      BY <2>2
    <3>2. PICK d \in sleeping : at[d] = t /\ BucketOf[d] = queue[t]
      BY <3>1 DEF CooldownInv, QueueIsOfCalls
    <3> QED
      BY <2>2, <3>1, <3>2
  <2>6. CallsAreQueued'
    <3> SUFFICES ASSUME NEW d \in Calls
                 PROVE  /\ at[d] >= 0 /\ at[d] + Per > clock => d \in recording \union sleeping'
                        /\ d \in sleeping' => \/ queue'[at[d]] = BucketOf[d]
                                              \/ \E e \in Calls \ {d} : at[e] = at[d]
      BY <1>2, <2>2 DEF CallsAreQueued
    <3>1. CASE d = c
      BY <1>1, <2>1, <2>2, <3>1
    <3>2. CASE d # c
      <4>1. d \in sleeping => at[d] \in Times
        BY <1>1 DEF CooldownInv, CallsAreTimed
      <4>2. d \in sleeping => queue'[at[d]] = queue[at[d]] \/ at[d] = at[c]
        BY <2>2, <4>1
      <4> QED
        BY <2>2, <3>2, <4>2 DEF CooldownInv, CallsAreQueued
    <3> QED
      BY <3>1, <3>2
  <2> QED
    BY <1>3, <2>3, <2>4, <2>5, <2>6 DEF CooldownInv
<1> QED
  BY <1>2, <1>4, <1>5, <1>6 DEF Pass

----------------------------------------------------------------------------
(* The commands *)

\* The cooldown is asked on the way from the checks to the callback.
AskedOnce ==
    \A c \in Calls : /\ stage[c] \in {"new", "scheduled", "checking"} => verdict[c] = "none"
                     /\ stage[c] = "calling" => verdict[c] = "passed"

CommandsInv ==
    /\ EventsTypeOK /\ NoDeafWaiter /\ CooldownInv
    /\ stage \in [Calls -> Stages] /\ AskedOnce

LEMMA CommandsInvInit == Init => CommandsInv
<1> SUFFICES ASSUME Init PROVE CommandsInv
    OBVIOUS
<1>1. EventsTypeOK /\ NoDeafWaiter /\ CooldownInv
  BY EventsTypesInit, CooldownInvInit DEF Init
<1>2. stage \in [Calls -> Stages] /\ AskedOnce
  BY DEF Init, CooldownInit, AskedOnce, Stages
<1> QED
  BY <1>1, <1>2 DEF CommandsInv

\* What a step of a message does.
Moved(c) ==
    /\ stage[c] # "ended"
    /\ \A d \in Calls \ {c} : stage'[d] = stage[d]
    /\ stage' \in [Calls -> Stages]
    /\ UNCHANGED events \/ \E e \in Kinds : Dispatch(e)
    /\ \/ UNCHANGED cooldown /\ stage'[c] = "ended"
       \/ /\ UNCHANGED cooldown
          /\ stage[c] \notin {"checking", "calling"} /\ stage'[c] \in {"scheduled", "checking"}
       \/ Ask(c) /\ stage[c] = "checking" /\ stage'[c] = IF verdict'[c] = "passed" THEN "calling" ELSE "ended"

LEMMA MessagesMove ==
    ASSUME CommandsInv, NEW c \in Calls, Receive(c) \/ Task(c)
    PROVE  Moved(c)
<1>1. stage \in [Calls -> Stages]
  BY DEF CommandsInv
<1>2. CASE Receive(c) \/ Invoke(c)
  BY <1>1, <1>2 DEF Receive, Invoke, Goes, Moved, Kinds, Stages
<1>3. CASE Ignore(c) \/ CancelAfterHook(c)
  BY <1>1, <1>3 DEF Ignore, CancelAfterHook, Goes, Moved, Stages
<1>4. CASE NotFound(c) \/ CheckFails(c)
  BY <1>1, <1>4 DEF NotFound, CheckFails, End, Goes, Moved, Kinds, Stages
<1>5. CASE CallEnds(c) \/ Cancel(c)
  BY <1>1, <1>5 DEF CallEnds, Cancel, End, Goes, Moved, Kinds, Stages
<1>6. CASE AskCooldown(c)
  BY <1>1, <1>6 DEF AskCooldown, End, Goes, Moved, Kinds, Stages
<1> QED
  BY <1>2, <1>3, <1>4, <1>5, <1>6 DEF Task

LEMMA CommandsInvStep == CommandsInv /\ [Next]_vars => CommandsInv'
<1> SUFFICES ASSUME CommandsInv, [Next]_vars PROVE CommandsInv'
    OBVIOUS
<1>1. ASSUME NEW c \in Calls, Receive(c) \/ Task(c) PROVE CommandsInv'
  <2>1. Moved(c)
    BY <1>1, MessagesMove
  <2>2. EventsTypeOK' /\ NoDeafWaiter'
    <3>1. CASE UNCHANGED events
      BY <3>1 DEF events, CommandsInv, EventsTypeOK, NoDeafWaiter
    <3>2. CASE \E e \in Kinds : Dispatch(e)
      BY <3>2, Walk DEF CommandsInv
    <3> QED
      BY <2>1, <3>1, <3>2 DEF Moved
  <2>3. CooldownInv' /\ \A d \in Calls \ {c} : verdict'[d] = verdict[d]
    <3>1. CASE UNCHANGED cooldown
      BY <3>1, CooldownStays DEF CommandsInv, cooldown
    <3>2. CASE Ask(c) /\ stage[c] = "checking"
      <4>1. at[c] = -1
        BY <3>2 DEF CommandsInv, AskedOnce, CooldownInv, CallsAreTimed
      <4> QED
        BY <3>2, <4>1, AskKeeps DEF CommandsInv, Ask, CooldownInv, CooldownTypeOK
    <3> QED
      BY <2>1, <3>1, <3>2 DEF Moved
  <2>4. AskedOnce'
    <3>1. ASSUME NEW d \in Calls \ {c}
          PROVE  /\ stage'[d] \in {"new", "scheduled", "checking"} => verdict'[d] = "none"
                 /\ stage'[d] = "calling" => verdict'[d] = "passed"
      BY <2>1, <2>3 DEF CommandsInv, AskedOnce, Moved
    <3>2. /\ stage'[c] \in {"new", "scheduled", "checking"} => verdict'[c] = "none"
          /\ stage'[c] = "calling" => verdict'[c] = "passed"
      <4>1. stage[c] \in Stages /\ stage[c] # "ended"
        BY <2>1 DEF CommandsInv, Moved
      <4>2. CASE UNCHANGED cooldown /\ stage'[c] = "ended"
        BY <4>2
      <4>3. CASE /\ UNCHANGED cooldown
                 /\ stage[c] \notin {"checking", "calling"}
                 /\ stage'[c] \in {"scheduled", "checking"}
        <5>1. verdict'[c] = "none"
          BY <4>1, <4>3 DEF CommandsInv, AskedOnce, cooldown, Stages
        <5> QED
          BY <4>3, <5>1
      <4>4. CASE stage'[c] = IF verdict'[c] = "passed" THEN "calling" ELSE "ended"
        BY <4>4
      <4> QED
        BY <2>1, <4>2, <4>3, <4>4 DEF Moved
    <3> QED
      BY <3>1, <3>2 DEF AskedOnce
  <2> QED
    BY <2>1, <2>2, <2>3, <2>4 DEF CommandsInv, Moved
<1>2. CASE EventsNext /\ UNCHANGED <<cooldown, stage>>
  <2>1. EventsTypeOK' /\ NoDeafWaiter'
    BY <1>2, Wait DEF CommandsInv
  <2>2. CooldownInv' /\ UNCHANGED verdict
    BY <1>2, CooldownStays DEF CommandsInv, cooldown
  <2> QED
    BY <1>2, <2>1, <2>2 DEF CommandsInv, AskedOnce
<1>3. CASE Pass /\ UNCHANGED <<events, stage>>
  <2>1. CooldownInv' /\ UNCHANGED verdict
    BY <1>3, PassKeeps DEF CommandsInv
  <2> QED
    BY <1>3, <2>1 DEF CommandsInv, events, EventsTypeOK, NoDeafWaiter, AskedOnce
<1>4. CASE UNCHANGED vars
  <2>1. CooldownInv' /\ UNCHANGED verdict
    BY <1>4, CooldownStays DEF CommandsInv, cooldown, vars
  <2> QED
    BY <1>4, <2>1 DEF vars, CommandsInv, events, EventsTypeOK, NoDeafWaiter, AskedOnce
<1> QED
  BY <1>1, <1>2, <1>3, <1>4 DEF Next

LEMMA CommandsInvAlways == Spec => []CommandsInv
BY CommandsInvInit, CommandsInvStep, PTL DEF Spec

\* Every variable of the events, the cooldown and the messages keeps its type.
THEOREM CommandsTyped == Spec => []TypeOK
<1>1. CommandsInv => TypeOK
  BY DEF CommandsInv, CooldownInv, TypeOK
<1> QED
  BY <1>1, CommandsInvAlways, PTL

\* A call is refused for Rate calls of its own bucket that were executed in the
\* last Per seconds, or for fewer and refused ones that make up the number.
THEOREM RefusalsAreCounted == Spec => []RefusalIsCounted
<1>1. CommandsInv => RefusalIsCounted
  <2> SUFFICES ASSUME CommandsInv, NEW c \in Calls, verdict[c] = "refused",
                      ~ \E d \in Recent(c) : verdict[d] = "refused"
               PROVE  Cardinality({d \in Recent(c) : verdict[d] = "passed"}) >= Rate
    BY DEF RefusalIsCounted, CommandsInv, CooldownInv, RefusalHasCalls
  <2>1. \A d \in Recent(c) : d \in Calls /\ at[d] >= 0
    BY DEF Recent, Attempts
  <2>2. \A d \in Recent(c) : verdict[d] = "passed"
    BY <2>1 DEF CommandsInv, CooldownInv, CooldownTypeOK, CallsAreTimed
  <2>3. {d \in Recent(c) : verdict[d] = "passed"} = Recent(c)
    BY <2>2
  <2> QED
    BY <2>3 DEF CommandsInv, CooldownInv, RefusalHasCalls
<1> QED
  BY <1>1, CommandsInvAlways, PTL

\* Whoever waits for an event is listed for it.
THEOREM WaitersHear == Spec => []NoDeafWaiter
<1>1. CommandsInv => NoDeafWaiter
  BY DEF CommandsInv
<1> QED
  BY <1>1, CommandsInvAlways, PTL

\* A call that passes when the tasks have caught up comes after fewer than Rate.
LEMMA PassesAreFew ==
    ASSUME CommandsInv, NEW c \in Calls, AskCooldown(c), verdict'[c] = "passed", ~Behind(BucketOf[c])
    PROVE  Cardinality({d \in Attempts(BucketOf[c]) : at[d] + Per > clock}) < Rate
<1> DEFINE b == BucketOf[c]
           D == {d \in Attempts(b) : at[d] + Per > clock}
           f == [d \in D |-> at[d]]
<1>1. /\ Rate \in Nat \ {0} /\ Per \in Nat \ {0} /\ MaxTime \in Nat /\ IsFiniteSet(Calls) /\ b # NoBucket
      /\ Times = 0..MaxTime /\ clock \in Times /\ at \in [Calls -> Times \union {-1}]
      /\ sleeping \subseteq Calls /\ CooldownInv
  BY CooldownAssumption DEF CommandsInv, CooldownInv, CooldownTypeOK, Times
<1>2. RetryAfter(b) = 0
  BY DEF AskCooldown, Ask, CommandsInv, CooldownInv, CooldownTypeOK
<1>3. ASSUME NEW d \in D PROVE at[d] \in BucketCalls(b)
  <2>1. d \in Calls /\ BucketOf[d] = b /\ at[d] \in Times /\ at[d] + Per > clock /\ at[d] >= 0
    BY <1>1, <1>3 DEF Attempts
  <2>2. d \in sleeping
    BY <1>1, <2>1 DEF CooldownInv, CallsAreQueued, Behind
  <2>3. queue[at[d]] = b
    BY <1>1, <2>1, <2>2 DEF CooldownInv, CallsAreQueued, Behind
  <2> QED
    BY <2>1, <2>3 DEF BucketCalls
<1>4. f \in Injection(D, BucketCalls(b))
  <2>1. \A d, e \in D : at[d] = at[e] => d = e
    BY <1>1 DEF Behind, Attempts
  <2> QED
    BY <1>3, <2>1 DEF Injection, IsInjective
<1>5. IsFiniteSet(BucketCalls(b))
  <2>1. \A d \in Calls : at[d] \in BucketCalls(b) /\ BucketOf[d] = b => d \in Calls
    OBVIOUS
  <2> QED
    BY <1>1, <2>1, TimesAreOfCalls
<1> HIDE DEF f, D
<1>6. Cardinality(D) <= Cardinality(BucketCalls(b)) /\ Cardinality(D) \in Nat /\ Cardinality(BucketCalls(b)) \in Nat
  BY <1>4, <1>5, FS_Injection, FS_CardinalityType
<1>7. SUFFICES ASSUME Cardinality(D) >= Rate PROVE FALSE
  BY <1>1, <1>6 DEF D
<1>8. BucketCalls(b) # {} /\ Cardinality(BucketCalls(b)) >= Rate
  <2>1. Cardinality(BucketCalls(b)) >= Rate
    BY <1>1, <1>6, <1>7
  <2>2. ASSUME BucketCalls(b) = {} PROVE FALSE
    <3>1. Cardinality(BucketCalls(b)) = 0
      BY <2>2, FS_EmptySet
    <3> QED
      BY <1>1, <2>1, <3>1
  <2> QED
    BY <2>1, <2>2
<1>9. BucketCalls(b) \in SUBSET Nat
  BY <1>1 DEF BucketCalls
<1>10. Oldest(b) \in BucketCalls(b)
  BY <1>8, <1>9, AnOldest DEF Oldest
<1>11. Oldest(b) + Per <= clock
  BY <1>1, <1>2, <1>8, <1>9, <1>10 DEF RetryAfter
<1>12. PICK d \in sleeping : at[d] = Oldest(b) /\ BucketOf[d] = b
  BY <1>1, <1>10 DEF BucketCalls, CooldownInv, QueueIsOfCalls
<1>13. clock >= due[d]
  BY <1>1, <1>11, <1>12 DEF CooldownInv, CallsAreTimed
<1> QED
  BY <1>12, <1>13 DEF Behind

\* Where the recording tasks have caught up, no more than Rate calls of a bucket
\* pass within Per seconds.
THEOREM TheRateIsKept == Spec => RateIsKept
<1>1. CommandsInv /\ [Next]_vars =>
          [\A c \in Calls :
             verdict[c] = "none" /\ verdict'[c] = "passed" /\ ~Behind(BucketOf[c])
             => Cardinality({d \in Attempts(BucketOf[c]) : at[d] + Per > clock}) < Rate]_vars
  <2> SUFFICES ASSUME CommandsInv, Next, NEW c \in Calls,
                      verdict[c] = "none", verdict'[c] = "passed", ~Behind(BucketOf[c])
               PROVE  Cardinality({d \in Attempts(BucketOf[c]) : at[d] + Per > clock}) < Rate
    OBVIOUS
  <2>1. ASSUME NEW d \in Calls, ~(d = c /\ AskCooldown(c)), Receive(d) \/ Task(d)
        PROVE  verdict'[c] = verdict[c]
    <3>1. verdict \in [Calls -> {"none", "passed", "refused"}]
      BY DEF CommandsInv, CooldownInv, CooldownTypeOK
    <3>2. CASE AskCooldown(d)
      BY <2>1, <3>1, <3>2 DEF AskCooldown, Ask
    <3>3. CASE Receive(d)
      BY <3>3 DEF Receive, cooldown
    <3>4. CASE Task(d) /\ ~AskCooldown(d)
      BY <3>4 DEF Task, Ignore, NotFound, Invoke, CheckFails, CallEnds, Cancel, CancelAfterHook, cooldown
    <3> QED
      BY <2>1, <3>2, <3>3, <3>4
  <2>2. EventsNext /\ UNCHANGED <<cooldown, stage>> => verdict' = verdict
    BY DEF cooldown
  <2>3. Pass => verdict' = verdict
    BY DEF Pass, Tick, Record, Expire
  <2>4. AskCooldown(c)
    BY <2>1, <2>2, <2>3 DEF Next
  <2> QED
    BY <2>4, PassesAreFew
<1> QED
  BY <1>1, CommandsInvAlways, PTL DEF Spec, RateIsKept

----------------------------------------------------------------------------
(* Chat groups: the operators on the keys of the records *)

Keys == {s \in Seq(Users) : IsInjective(s)}

LEMMA KeysAreUsers ==
    ASSUME NEW s \in Seq(Users)
    PROVE  /\ ToSet(s) \subseteq Users
           /\ DOMAIN s = 1..Len(s) /\ Len(s) \in Nat
           /\ \A i \in 1..Len(s) : s[i] \in Users /\ s[i] \in ToSet(s)
           /\ \A u \in ToSet(s) : \E i \in 1..Len(s) : s[i] = u
<1>1. DOMAIN s = 1..Len(s) /\ Len(s) \in Nat /\ \A i \in 1..Len(s) : s[i] \in Users
  OBVIOUS
<1> QED
  BY <1>1 DEF ToSet

LEMMA WithoutIs ==
    ASSUME NEW s \in Keys, NEW u \in Users
    PROVE  /\ Without(s, u) \in Keys
           /\ ToSet(Without(s, u)) = ToSet(s) \ {u}
           /\ u \notin ToSet(s) => Without(s, u) = s
<1>1. s \in Seq(Users) /\ Len(s) \in Nat /\ DOMAIN s = 1..Len(s)
  BY KeysAreUsers DEF Keys
<1>2. CASE u \notin ToSet(s)
  BY <1>2 DEF Without
<1>3. CASE u \in ToSet(s)
  <2> DEFINE k == CHOOSE i \in DOMAIN s : s[i] = u
             t == Without(s, u)
  <2>1. k \in 1..Len(s) /\ s[k] = u
    BY <1>1, <1>3 DEF ToSet
  <2>2. t = SubSeq(s, 1, k - 1) \o SubSeq(s, k + 1, Len(s))
    BY <1>3 DEF Without, RemoveAt
  <2> HIDE DEF k
  <2> DEFINE before == SubSeq(s, 1, k - 1)
             after == SubSeq(s, k + 1, Len(s))
  <2>3. before \in Seq(Users) /\ Len(before) = k - 1 /\ \A i \in 1..(k - 1) : before[i] = s[i]
    <3>1. \A i \in 1..(k - 1) : s[i] \in Users
      BY <1>1, <2>1
    <3> QED
      BY <1>1, <2>1, <3>1, SubSeqProperties
  <2>4. /\ after \in Seq(Users) /\ Len(after) = Len(s) - k
        /\ \A i \in 1..(Len(s) - k) : after[i] = s[k + i]
    <3>1. \A i \in (k + 1)..Len(s) : s[i] \in Users
      BY <1>1, <2>1
    <3>2. /\ after \in Seq(Users)
          /\ Len(after) = IF k + 1 <= Len(s) THEN Len(s) - (k + 1) + 1 ELSE 0
          /\ \A i \in 1..(Len(s) - (k + 1) + 1) : after[i] = s[(k + 1) + i - 1]
      BY <1>1, <2>1, <3>1, SubSeqProperties
    <3> HIDE DEF after
    <3>3. Len(after) = Len(s) - k
      <4>1. Len(after) = IF k + 1 <= Len(s) THEN Len(s) - (k + 1) + 1 ELSE 0
        BY <3>2
      <4>2. CASE k + 1 <= Len(s)
        BY <1>1, <2>1, <4>1, <4>2
      <4>3. CASE k = Len(s)
        BY <1>1, <2>1, <4>1, <4>3
      <4>4. k + 1 <= Len(s) \/ k = Len(s)
        <5>1. k \in Int /\ Len(s) \in Int /\ k <= Len(s)
          BY <1>1, <2>1
        <5> QED
          BY <5>1
      <4> QED
        BY <4>2, <4>3, <4>4
    <3>4. ASSUME NEW i \in 1..(Len(s) - k) PROVE after[i] = s[k + i]
      <4>1. (k + 1) + i - 1 = k + i /\ i \in 1..(Len(s) - (k + 1) + 1)
        BY <1>1, <2>1
      <4> QED
        BY <3>2, <4>1
    <3> QED
      BY <3>2, <3>3, <3>4
  <2> HIDE DEF before, after
  <2>5. t \in Seq(Users) /\ Len(t) = Len(s) - 1
        /\ \A i \in 1..(Len(s) - 1) : t[i] = IF i <= k - 1 THEN before[i] ELSE after[i - (k - 1)]
    <3>1. t = before \o after
      BY <2>2 DEF before, after
    <3> HIDE DEF t
    <3>2. /\ t \in Seq(Users) /\ Len(t) = Len(before) + Len(after)
          /\ \A i \in 1..(Len(before) + Len(after)) :
               t[i] = IF i <= Len(before) THEN before[i] ELSE after[i - Len(before)]
      BY <2>3, <2>4, <3>1, ConcatProperties
    <3> QED
      BY <1>1, <2>1, <2>3, <2>4, <3>2
  <2>6. \A i \in 1..(Len(s) - 1) : t[i] = IF i < k THEN s[i] ELSE s[i + 1]
    <3> SUFFICES ASSUME NEW i \in 1..(Len(s) - 1) PROVE t[i] = IF i < k THEN s[i] ELSE s[i + 1]
        OBVIOUS
    <3> HIDE DEF t
    <3>1. CASE i < k
      BY <1>1, <2>1, <2>3, <2>5, <3>1
    <3>2. CASE i >= k
      <4>1. t[i] = after[i - (k - 1)]
        BY <1>1, <2>1, <2>5, <3>2
      <4>2. i - (k - 1) \in 1..(Len(s) - k) /\ k + (i - (k - 1)) = i + 1
        BY <1>1, <2>1, <3>2
      <4> QED
        BY <2>1, <2>4, <3>2, <4>1, <4>2
    <3> QED
      BY <1>1, <2>1, <3>1, <3>2
  <2> HIDE DEF t
  <2> USE <2>5
  <2>7. \A i, j \in 1..Len(s) : s[i] = s[j] => i = j
    BY <1>1 DEF Keys, IsInjective
  <2>8. IsInjective(t)
    <3> SUFFICES ASSUME NEW i \in 1..(Len(s) - 1), NEW j \in 1..(Len(s) - 1), t[i] = t[j] PROVE i = j
        BY <2>5 DEF IsInjective
    <3> QED
      BY <1>1, <2>1, <2>6, <2>7
  <2>9. ASSUME NEW v PROVE v \in ToSet(t) <=> v \in ToSet(s) \ {u}
    <3>1. ASSUME v \in ToSet(t) PROVE v \in ToSet(s) \ {u}
      <4>1. PICK i \in 1..(Len(s) - 1) : t[i] = v
        BY <2>5, <3>1 DEF ToSet
      <4>2. PICK j \in 1..Len(s) : j # k /\ s[j] = v
        BY <1>1, <2>1, <2>6, <4>1
      <4> QED
        BY <1>1, <2>1, <2>7, <4>2 DEF ToSet
    <3>2. ASSUME v \in ToSet(s) \ {u} PROVE v \in ToSet(t)
      <4>1. PICK j \in 1..Len(s) : s[j] = v /\ j # k
        BY <1>1, <2>1, <3>2 DEF ToSet
      <4>2. PICK i \in 1..(Len(s) - 1) : t[i] = v
        <5>1. CASE j < k
          BY <1>1, <2>1, <2>6, <4>1, <5>1
        <5>2. CASE j > k
          <6>1. j - 1 \in 1..(Len(s) - 1) /\ ~(j - 1 < k) /\ (j - 1) + 1 = j
            BY <1>1, <2>1, <5>2
          <6> QED
            BY <2>6, <4>1, <6>1
        <5> QED
          BY <1>1, <2>1, <4>1, <5>1, <5>2
      <4> QED
        BY <2>5, <4>2 DEF ToSet
    <3> QED
      BY <3>1, <3>2
  <2> QED
    BY <1>3, <2>5, <2>8, <2>9 DEF Keys, t
<1> QED
  BY <1>2, <1>3

LEMMA AppendIs ==
    ASSUME NEW s \in Keys, NEW u \in Users, u \notin ToSet(s)
    PROVE  /\ Append(s, u) \in Keys
           /\ ToSet(Append(s, u)) = ToSet(s) \union {u}
<1>1. s \in Seq(Users) /\ Len(s) \in Nat /\ DOMAIN s = 1..Len(s)
  BY KeysAreUsers DEF Keys
<1>2. /\ Append(s, u) \in Seq(Users) /\ DOMAIN Append(s, u) = 1..(Len(s) + 1)
      /\ Append(s, u)[Len(s) + 1] = u
      /\ \A i \in 1..Len(s) : Append(s, u)[i] = s[i]
  BY <1>1
<1>3. IsInjective(Append(s, u))
  BY <1>1, <1>2 DEF Keys, IsInjective, ToSet
<1>4. ToSet(Append(s, u)) = ToSet(s) \union {u}
  BY <1>1, <1>2 DEF ToSet
<1> QED
  BY <1>2, <1>3, <1>4 DEF Keys

\* Steam's answer names every member once.
LEMMA AnswerIs ==
    ASSUME NEW S \in SUBSET Users, NEW s \in SetToSeqs(S)
    PROVE  s \in Keys /\ ToSet(s) = S
<1> DEFINE n == Cardinality(S)
<1>1. IsFiniteSet(S) /\ n \in Nat
  BY ChatAssumption, FS_Subset, FS_CardinalityType
<1>2. s \in [1..n -> S] /\ \A i, j \in 1..n : i # j => s[i] # s[j]
  BY DEF SetToSeqs
<1>3. IsInjective(s) /\ s \in Injection(1..n, S)
  BY <1>2 DEF IsInjective, Injection
<1>4. Cardinality(1..n) = n
  BY <1>1, FS_Interval
<1> HIDE DEF n
<1>5. s \in Surjection(1..n, S)
  BY <1>1, <1>3, <1>4, FS_Injection DEF n
<1>6. s \in Seq(Users)
  BY <1>1, <1>2
<1>7. ToSet(s) = S
  BY <1>2, <1>5 DEF ToSet, Surjection
<1> QED
  BY <1>3, <1>6, <1>7 DEF Keys

LEMMA StopIs ==
    ASSUME NEW s \in Seq(Users), NEW i \in 1..(Len(s) + 1)
    PROVE  Stop(s, i) \in i..(Len(s) + 1)
<1> DEFINE stops == {j \in i..Len(s) : s[j] \notin cached}
<1>1. CASE stops = {}
  BY <1>1 DEF Stop
<1>2. CASE stops # {}
  <2>1. stops \in SUBSET Nat
    OBVIOUS
  <2>2. \E j \in stops : \A k \in stops : j <= k
    BY <1>2, <2>1, AnOldest
  <2>3. Stop(s, i) = CHOOSE j \in stops : \A k \in stops : j <= k
    BY <1>2 DEF Stop
  <2>4. Stop(s, i) \in stops
    BY <2>2, <2>3
  <2> QED
    BY <2>4
<1> QED
  BY <1>1, <1>2

\* A member is made of its own record when the users are those of the records.
LEMMA MadeOwn ==
    ASSUME NEW mem, NEW s, NEW I, NEW u \in Users
    PROVE  /\ (\E i \in I : s[i] = u) => Made(mem, s, s, I)[u] = u
           /\ (\A i \in I : s[i] # u) => Made(mem, s, s, I)[u] = mem[u]
BY DEF Made

----------------------------------------------------------------------------
(* The invariant of a chat group *)

\* Before it is stored, a group holds nothing but the records of the answer.
Unstored ==
    phase # "stored" =>
        /\ members = [u \in Users |-> "absent"]
        /\ ~deleted /\ joining = {} /\ guests = {} /\ Waiting = {}
        /\ phase = "filled" => \A u \in Users \ astray : u \in truth <=> u \in ToSet(partial)

\* Whom a task is about to make a member belongs to the group, or is invited.
NewcomersBelong ==
    /\ joining \subseteq truth \union astray
    /\ \A c \in Waiting : ToSet(ids[c]) \subseteq truth \union astray \union guests

\* Who was invited and has not joined is no member.
GuestsOutside == guests \intersect truth = {}

\* While a chunk() runs, whoever belongs to the group has a place in _members.
NobodyMissing ==
    Waiting # {} => \A u \in truth \ (astray \union joining) : members[u] # "absent"

\* A place that is not filled yet has its record, and a member is made of the
\* user's own, but for chunks that disturbed each other.
OwnRecords ==
    \A u \in Users :
        /\ ~deleted /\ members[u] = "none" => u \in ToSet(partial)
        /\ members[u] \in {u, "absent", "none"} \/ (deleted /\ disturbed # {})

\* A chunk() that nobody disturbs goes through the records that there are.
Undisturbed ==
    \A c \in Waiting \ disturbed :
        /\ ~deleted /\ partial = ids[c]
        /\ kind = "group" => \A i \in 1..(pos[c] - 1) : members[ids[c][i]] = ids[c][i]

ChatInv ==
    /\ ChatTypeOK /\ MembersAgree /\ LostAfterChunk /\ ChunkIsWhole
    /\ Unstored /\ NewcomersBelong /\ GuestsOutside /\ NobodyMissing /\ OwnRecords /\ Undisturbed

USE ChatAssumption

LEMMA ChunksAreTyped ==
    ASSUME ChatTypeOK, NEW c \in Waiting
    PROVE  /\ c \in Chunks /\ ids[c] \in Seq(Users) /\ Len(ids[c]) \in Nat
           /\ pos[c] \in 1..Len(ids[c])
           /\ \A i \in 1..Len(ids[c]) : ids[c][i] \in Users /\ ids[c][i] \in ToSet(ids[c])
           /\ \A i \in 1..(pos[c] - 1) : i \in 1..Len(ids[c]) /\ ids[c][i] \in Users
<1>1. c \in Chunks /\ ids[c] \in Seq(Users) /\ pos[c] \in DOMAIN ids[c]
  BY DEF ChatTypeOK, Waiting
<1> QED
  BY <1>1, KeysAreUsers

LEMMA ChatInvInit == ChatInit => ChatInv
<1> SUFFICES ASSUME ChatInit PROVE ChatInv
    OBVIOUS
<1>1. ChatTypeOK
  <2>1. <<>> \in Seq(Users) /\ IsInjective(<<>>)
    BY DEF IsInjective
  <2>2. ids \in [Chunks -> Seq(Users)] /\ pos \in [Chunks -> Nat]
    BY <2>1 DEF ChatInit
  <2>3. /\ members \in [Users -> Users \union {"absent", "none"}]
        /\ chunk \in [Chunks -> {"idle", "waiting", "returned", "failed"}]
        /\ \A c \in Chunks : chunk[c] # "waiting"
    BY DEF ChatInit
  <2>4. partial \in Seq(Users) /\ IsInjective(partial)
    BY <2>1 DEF ChatInit
  <2>5. /\ truth \union cached \union joining \union astray \union guests \subseteq Users
        /\ lost \in Users \union {Nobody} /\ happened \in 0..MaxEvents
    BY DEF ChatInit
  <2> QED
    BY <2>2, <2>3, <2>4, <2>5 DEF ChatInit, ChatTypeOK
<1>2. Waiting = {} /\ phase = "asked" /\ lost = Nobody /\ ~deleted
  BY DEF ChatInit, Waiting
<1>3. Unstored /\ NewcomersBelong /\ GuestsOutside /\ NobodyMissing /\ OwnRecords /\ Undisturbed
  BY <1>2 DEF ChatInit, Unstored, NewcomersBelong, GuestsOutside, NobodyMissing, OwnRecords, Undisturbed
<1> QED
  BY <1>1, <1>2, <1>3 DEF ChatInv, MembersAgree, LostAfterChunk, ChunkIsWhole

\* Nothing but the users that are cached changes.
LEMMA OthersKeep ==
    ASSUME ChatInv, cached' \subseteq Users,
           UNCHANGED <<object, truth, members, partial, deleted, joining, chunking, lost, happened, history>>
    PROVE  ChatInv'
<1>1. ChatTypeOK'
  BY DEF ChatInv, ChatTypeOK, object, chunking, history
<1>2. MembersAgree' /\ LostAfterChunk' /\ ChunkIsWhole'
  BY DEF ChatInv, MembersAgree, LostAfterChunk, ChunkIsWhole, object, chunking, history
<1>3. Waiting' = Waiting
  BY DEF Waiting, chunking
<1>4. Unstored' /\ NewcomersBelong' /\ GuestsOutside' /\ NobodyMissing' /\ OwnRecords' /\ Undisturbed'
  BY <1>3 DEF ChatInv, Unstored, NewcomersBelong, GuestsOutside, NobodyMissing, OwnRecords, Undisturbed, object, chunking, history
<1> QED
  BY <1>1, <1>2, <1>4 DEF ChatInv

----------------------------------------------------------------------------
(* Loading *)

LEMMA LoadingKeeps ==
    ASSUME ChatInv, Fill \/ Store \/ \E u \in Users : Unheard(u)
    PROVE  ChatInv'
<1>1. /\ phase # "stored" /\ members = [u \in Users |-> "absent"] /\ ~deleted /\ joining = {} /\ guests = {} /\ Waiting = {}
      /\ UNCHANGED <<members, deleted, joining, chunking, cached, kind, guests, disturbed, lost>>
  BY DEF ChatInv, Unstored, Fill, Store, Unheard, object, history
<1>2. Waiting' = {}
  BY <1>1 DEF Waiting, chunking
<1>3. /\ ChatTypeOK'
      /\ phase' # "asked" => \A u \in Users \ astray' : u \in truth' <=> u \in ToSet(partial')
      /\ astray \subseteq astray'
  <2>1. CASE Fill
    <3>1. partial' \in Keys /\ astray' \subseteq Users /\ astray \subseteq astray'
          /\ \A u \in Users \ astray' : u \in truth <=> u \in ToSet(partial')
      <4>1. CASE partial' \in SetToSeqs(truth) /\ UNCHANGED astray
        <5>1. truth \in SUBSET Users /\ astray \subseteq Users
          BY DEF ChatInv, ChatTypeOK
        <5> QED
          BY <4>1, <5>1, AnswerIs
      <4>2. CASE partial' = <<>> /\ astray' = Users
        BY <4>2 DEF Keys, IsInjective, ChatInv, ChatTypeOK
      <4> QED
        BY <2>1, <4>1, <4>2 DEF Fill
    <3>2. ChatTypeOK'
      BY <1>1, <2>1, <3>1 DEF ChatInv, ChatTypeOK, Fill, chunking, Keys
    <3> QED
      BY <1>1, <2>1, <3>1, <3>2 DEF Fill
  <2>2. CASE Store
    BY <1>1, <2>2 DEF Store, ChatInv, ChatTypeOK, Unstored, chunking, history
  <2>3. CASE \E u \in Users : Unheard(u)
    <3>1. PICK u \in Users : Unheard(u)
      BY <2>3
    <3>2. truth' \subseteq Users /\ astray' \subseteq Users /\ astray \subseteq astray' /\ happened' \in 0..MaxEvents
      BY <3>1 DEF ChatInv, ChatTypeOK, Unheard, Event
    <3>3. ChatTypeOK'
      BY <1>1, <3>1, <3>2 DEF ChatInv, ChatTypeOK, Unheard, object, chunking
    <3>4. phase' # "asked" => \A v \in Users \ astray' : v \in truth' <=> v \in ToSet(partial')
      BY <1>1, <3>1 DEF ChatInv, ChatTypeOK, Unstored, Unheard, object
    <3> QED
      BY <3>2, <3>3, <3>4
  <2> QED
    BY <2>1, <2>2, <2>3
<1>4. MembersAgree' /\ LostAfterChunk' /\ ChunkIsWhole'
  BY <1>1, <1>3 DEF ChatInv, LostAfterChunk, MembersAgree, ChunkIsWhole, ChatTypeOK
<1>5. Unstored' /\ NewcomersBelong' /\ GuestsOutside' /\ NobodyMissing' /\ OwnRecords' /\ Undisturbed'
  BY <1>1, <1>2, <1>3 DEF ChatInv, Unstored, NewcomersBelong, GuestsOutside, NobodyMissing, OwnRecords, Undisturbed, ChatTypeOK
<1> QED
  BY <1>3, <1>4, <1>5 DEF ChatInv

----------------------------------------------------------------------------
(* Messages and questions *)

\* The records after a user is looked up.
LEMMA KeptIs ==
    ASSUME ChatTypeOK, NEW u \in Users
    PROVE  /\ partial \in Keys /\ Kept(u) \in Keys
           /\ ~(Promotes(u) /\ MakesUp(u))
           /\ Promotes(u) => u \in ToSet(partial) /\ ToSet(Kept(u)) = ToSet(partial) \ {u}
           /\ MakesUp(u) => u \notin ToSet(partial) /\ ToSet(Kept(u)) = ToSet(partial) \union {u}
           /\ ~Promotes(u) /\ ~MakesUp(u) => Kept(u) = partial
<1>1. partial \in Keys
  BY DEF ChatTypeOK, Keys
<1>2. CASE Promotes(u)
  <2>1. Kept(u) = Without(partial, u) /\ ~MakesUp(u) /\ u \in ToSet(partial)
    BY <1>2 DEF Kept, Promotes, MakesUp
  <2> QED
    BY <1>1, <1>2, <2>1, WithoutIs
<1>3. CASE MakesUp(u)
  <2>1. Kept(u) = Append(partial, u) /\ ~Promotes(u) /\ u \notin ToSet(partial)
    BY <1>3 DEF Kept, Promotes, MakesUp
  <2> QED
    BY <1>1, <1>3, <2>1, AppendIs
<1>4. CASE ~Promotes(u) /\ ~MakesUp(u)
  BY <1>1, <1>4 DEF Kept
<1> QED
  BY <1>2, <1>3, <1>4

\* What looking up a user does to the places and to the records, when the users
\* of G, if any, have got records beside.
LooksUp(u, G) ==
    /\ partial' \in Keys
    /\ members' \in [Users -> Users \union {"absent", "none"}]
    /\ \A v \in Users \ {u} : /\ members'[v] = members[v]
                              /\ v \in ToSet(partial) => v \in ToSet(partial')
                              /\ v \in ToSet(partial') => v \in ToSet(partial) \union G
    /\ UNCHANGED <<partial, disturbed>> \/ disturbed' = disturbed \union Waiting
    /\ \/ /\ ~Promotes(u) /\ ~MakesUp(u)
          /\ UNCHANGED members
          /\ u \in ToSet(partial') <=> u \in ToSet(partial)
       \/ /\ Promotes(u)
          /\ members'[u] = u
          /\ disturbed' = disturbed \union Waiting
       \/ /\ MakesUp(u)
          /\ UNCHANGED members
          /\ u \in ToSet(partial')

LEMMA LookedUp ==
    ASSUME ChatTypeOK, NEW u \in Users, NEW G \in SUBSET (Users \ {u}),
           members' = IF Promotes(u) THEN [members EXCEPT ![u] = u] ELSE members,
           NEW new \in Keys, ToSet(new) = ToSet(Kept(u)) \union G, G = {} => new = Kept(u),
           G \intersect ToSet(partial) = {}, Records(new)
    PROVE  LooksUp(u, G)
<1>1. members \in [Users -> Users \union {"absent", "none"}]
  BY DEF ChatTypeOK
<1>2. partial' = new /\ (new = partial \/ disturbed' = disturbed \union Waiting) /\ (new = partial => UNCHANGED disturbed)
  BY DEF Records
<1>3. CASE ~Promotes(u) /\ ~MakesUp(u)
  <2>1. Kept(u) = partial /\ members' = members
    BY <1>3, KeptIs
  <2> QED
    BY <1>1, <1>2, <1>3, <2>1 DEF LooksUp
<1>4. CASE Promotes(u)
  <2>1. ~MakesUp(u) /\ u \in ToSet(partial) /\ ToSet(Kept(u)) = ToSet(partial) \ {u}
    BY <1>4, KeptIs
  <2>2. new # partial
    BY <2>1
  <2> QED
    BY <1>1, <1>2, <1>4, <2>1, <2>2 DEF LooksUp
<1>5. CASE MakesUp(u)
  <2>1. ~Promotes(u) /\ ToSet(Kept(u)) = ToSet(partial) \union {u}
    BY <1>5, KeptIs
  <2> QED
    BY <1>1, <1>2, <1>5, <2>1 DEF LooksUp
<1> QED
  BY <1>3, <1>4, <1>5

LEMMA InvitedLooks ==
    ASSUME ChatInv, NEW a \in Users, NEW u \in Users, Invited(a, u)
    PROVE  \E G \in SUBSET {u} : LooksUp(a, G) /\ guests' \in {guests, guests \union {u}} /\ (G # {} => u \in guests')
<1>1. ChatTypeOK /\ a # u /\ Kept(a) \in Keys
  BY KeptIs DEF ChatInv, Invited
<1>2. u \in ToSet(Kept(a)) <=> u \in ToSet(partial)
  BY <1>1, KeptIs
<1>3. guests' \in {guests, guests \union {u}}
  BY DEF Invited
<1>4. members' = IF Promotes(a) THEN [members EXCEPT ![a] = a] ELSE members
  BY DEF Invited
<1>5. CASE Records(Kept(a))
  <2>1. LooksUp(a, {})
    BY <1>1, <1>4, <1>5, LookedUp
  <2> QED
    BY <1>3, <2>1
<1>6. CASE ~Records(Kept(a))
  <2>1. u \notin ToSet(partial) /\ Records(Append(Kept(a), u)) /\ u \in guests'
    BY <1>6 DEF Invited
  <2>2. Append(Kept(a), u) \in Keys /\ ToSet(Append(Kept(a), u)) = ToSet(Kept(a)) \union {u}
    BY <1>1, <1>2, <2>1, AppendIs
  <2>3. LooksUp(a, {u})
    BY <1>1, <1>4, <2>1, <2>2, LookedUp
  <2> QED
    BY <1>3, <2>1, <2>3
<1> QED
  BY <1>5, <1>6

\* A user who is looked up, and belongs to the group or is known to be astray.
LEMMA LookingUpKeeps ==
    ASSUME ChatInv, NEW u \in Users, phase = "stored", lost = Nobody, happened' \in 0..MaxEvents,
           NEW G \in SUBSET guests', LooksUp(u, G),
           UNCHANGED <<object, truth, deleted, cached, joining, chunking>>,
           astray' \in {astray, astray \union {u}}, u \in truth \union astray',
           guests \subseteq guests', guests' \subseteq Users \ truth,
           \/ lost' = Nobody
           \/ lost' = u /\ u \in truth /\ ~Finds(u)
           \/ lost' \in guests' /\ (deleted \/ kind = "group")
    PROVE  ChatInv'
<1>1. LooksUp(u, G)
  OBVIOUS
<1> USE DEF LooksUp
<1>2. Waiting' = Waiting /\ Waiting \subseteq Chunks /\ UNCHANGED <<chunk, ids, pos, kind, phase>>
  BY DEF Waiting, chunking, object
<1>3. ChatTypeOK'
  BY <1>1, <1>2 DEF ChatInv, ChatTypeOK, Keys
<1>4. MembersAgree'
  <2> SUFFICES ASSUME NEW v \in Users, v \notin astray' \union joining \union guests'
               PROVE  v \in truth <=> members'[v] # "absent" \/ (~deleted /\ v \in ToSet(partial'))
      BY <1>2 DEF MembersAgree
  <2>1. v \in truth <=> members[v] # "absent" \/ (~deleted /\ v \in ToSet(partial))
    BY DEF ChatInv, MembersAgree
  <2>2. CASE v # u
    BY <1>1, <2>1, <2>2
  <2>3. CASE v = u
    BY <1>1, <2>1, <2>3 DEF Promotes, MakesUp
  <2> QED
    BY <2>2, <2>3
<1>5. LostAfterChunk'
  <2> SUFFICES ASSUME lost' = u, u \in truth, ~Finds(u), ~deleted, u \notin joining \union astray' PROVE FALSE
      BY <1>2 DEF LostAfterChunk
  <2>1. members[u] # "absent" \/ u \in ToSet(partial)
    BY DEF ChatInv, MembersAgree, GuestsOutside
  <2>2. members[u] \in Users \union {"absent"} \/ u \in ToSet(partial)
    BY DEF ChatInv, OwnRecords
  <2> QED
    BY <2>1, <2>2 DEF Finds, IsMember, Promotes
<1>6. ChunkIsWhole'
  BY <1>1 DEF ChatInv, ChunkIsWhole, Promotes, MakesUp, ChatTypeOK
<1>7. Unstored' /\ NewcomersBelong' /\ GuestsOutside'
  BY <1>2 DEF ChatInv, Unstored, NewcomersBelong, GuestsOutside
<1>8. NobodyMissing'
  <2> SUFFICES ASSUME Waiting # {}, NEW v \in truth \ (astray' \union joining) PROVE members'[v] # "absent"
      BY <1>2 DEF NobodyMissing
  <2>1. members[v] # "absent" /\ v \in Users
    BY DEF ChatInv, NobodyMissing, ChatTypeOK
  <2> QED
    BY <1>1, <2>1
<1>9. OwnRecords'
  BY <1>1 DEF ChatInv, OwnRecords, Promotes, MakesUp
<1>10. Undisturbed'
  <2> SUFFICES ASSUME NEW c \in Waiting \ disturbed'
               PROVE  /\ ~deleted /\ partial' = ids[c]
                      /\ kind = "group" => \A i \in 1..(pos[c] - 1) : members'[ids[c][i]] = ids[c][i]
      BY <1>2 DEF Undisturbed
  <2> QED
    BY <1>1 DEF ChatInv, Undisturbed
<1> QED
  BY <1>3, <1>4, <1>5, <1>6, <1>7, <1>8, <1>9, <1>10 DEF ChatInv

LEMMA QuestionsKeep ==
    ASSUME ChatInv, NEW u \in Users, Speak(u) \/ Look(u)
    PROVE  ChatInv'
<1>1. happened' \in 0..MaxEvents /\ guests' = guests /\ guests \subseteq Users \ truth
  BY DEF Speak, Look, Event, ChatInv, ChatTypeOK, GuestsOutside
<1>2. LooksUp(u, {})
  <2>1. ChatTypeOK /\ MaybeMember(u)
    BY DEF Speak, Look, ChatInv
  <2> QED
    BY <2>1, KeptIs, LookedUp DEF MaybeMember
<1> QED
  BY <1>1, <1>2, LookingUpKeeps DEF Speak, Look, Event

LEMMA InvitesKeep ==
    ASSUME ChatInv, NEW a \in Users, NEW u \in Users, Invited(a, u)
    PROVE  ChatInv'
<1>1. PICK G \in SUBSET {u} :
          LooksUp(a, G) /\ guests' \in {guests, guests \union {u}} /\ (G # {} => u \in guests')
  BY InvitedLooks
<1>2. happened' \in 0..MaxEvents /\ G \in SUBSET guests' /\ guests \subseteq guests' /\ guests' \subseteq Users \ truth
  BY <1>1 DEF Invited, Event, ChatInv, ChatTypeOK, GuestsOutside
<1>3. /\ phase = "stored" /\ lost = Nobody /\ a \in truth /\ astray' = astray
      /\ UNCHANGED <<object, truth, deleted, cached, joining, chunking>>
  BY DEF Invited, Event
<1>4. \/ lost' = Nobody
      \/ lost' = a /\ ~Finds(a)
      \/ lost' \in guests' /\ (deleted \/ kind = "group")
  BY <1>3 DEF Invited
<1> QED
  BY <1>1, <1>2, <1>3, <1>4, LookingUpKeeps

----------------------------------------------------------------------------
(* Comings and goings *)

LEMMA ComingsKeep ==
    ASSUME ChatInv, NEW u \in Users, Join(u) \/ Joined(u)
    PROVE  ChatInv'
<1>1. /\ lost = Nobody /\ u \in truth' \union astray
      /\ truth' \subseteq Users /\ truth \subseteq truth' /\ truth' \subseteq truth \union {u}
      /\ phase = "stored"
      /\ guests' \subseteq guests /\ guests \subseteq guests' \union {u} /\ guests' \intersect truth' = {}
      /\ UNCHANGED <<object, partial, deleted, chunking, lost, astray, disturbed>>
  BY DEF Join, Joined, Event, ChatInv, ChatTypeOK, NewcomersBelong, GuestsOutside, Unstored, history
<1>2. /\ joining' \subseteq Users /\ cached' \subseteq Users /\ happened' \in 0..MaxEvents
      /\ joining' \ {u} = joining \ {u}
      /\ \/ members' = [members EXCEPT ![u] = u] /\ u \notin joining'
         \/ members' = members /\ u \in joining'
  BY DEF Join, Joined, Event, ChatInv, ChatTypeOK
<1>3. /\ members' \in [Users -> Users \union {"absent", "none"}]
      /\ \A v \in Users \ {u} : members'[v] = members[v]
      /\ members'[u] = u \/ (u \in joining' /\ members'[u] = members[u])
  <2>1. members \in [Users -> Users \union {"absent", "none"}]
    BY DEF ChatInv, ChatTypeOK
  <2>2. CASE members' = [members EXCEPT ![u] = u]
    BY <2>1, <2>2
  <2>3. CASE members' = members /\ u \in joining'
    BY <2>1, <2>3
  <2> QED
    BY <1>2, <2>2, <2>3
<1>4. Waiting' = Waiting /\ Waiting \subseteq Chunks /\ UNCHANGED <<chunk, ids, pos, kind, phase, astray, disturbed>>
  BY <1>1 DEF Waiting, chunking, object, history
<1>5. ChatTypeOK'
  BY <1>1, <1>2, <1>3, <1>4 DEF ChatInv, ChatTypeOK
<1>6. MembersAgree'
  <2> SUFFICES ASSUME NEW v \in Users, v \notin astray \union joining' \union guests'
               PROVE  v \in truth' <=> members'[v] # "absent" \/ (~deleted /\ v \in ToSet(partial))
      BY <1>1, <1>4 DEF MembersAgree
  <2>1. CASE v = u
    BY <1>1, <1>3, <2>1
  <2>2. CASE v # u
    <3>1. v \in truth <=> members[v] # "absent" \/ (~deleted /\ v \in ToSet(partial))
      BY <1>1, <1>2, <2>2 DEF ChatInv, MembersAgree
    <3> QED
      BY <1>1, <1>3, <2>2, <3>1
  <2> QED
    BY <2>1, <2>2
<1>7. LostAfterChunk' /\ Unstored'
  BY <1>1, <1>4 DEF LostAfterChunk, Unstored
<1>8. ChunkIsWhole'
  <2> SUFFICES ASSUME deleted, disturbed = {}, NEW v \in truth' \ (astray \union joining') PROVE members'[v] = v
      BY <1>1, <1>4 DEF ChunkIsWhole
  <2>1. CASE v = u
    BY <1>3, <2>1
  <2>2. CASE v # u
    BY <1>1, <1>2, <1>3, <2>2 DEF ChatInv, ChunkIsWhole, ChatTypeOK
  <2> QED
    BY <2>1, <2>2
<1>9. NewcomersBelong' /\ GuestsOutside'
  BY <1>1, <1>2, <1>4 DEF ChatInv, NewcomersBelong, GuestsOutside
<1>10. NobodyMissing'
  <2> SUFFICES ASSUME Waiting # {}, NEW v \in truth' \ (astray \union joining') PROVE members'[v] # "absent"
      BY <1>4 DEF NobodyMissing
  <2>1. CASE v = u
    BY <1>3, <2>1
  <2>2. CASE v # u
    BY <1>1, <1>2, <1>3, <2>2 DEF ChatInv, NobodyMissing, ChatTypeOK
  <2> QED
    BY <2>1, <2>2
<1>11. OwnRecords'
  BY <1>1, <1>3, <1>4 DEF ChatInv, OwnRecords
<1>12. Undisturbed'
  <2> SUFFICES ASSUME NEW c \in Waiting \ disturbed
               PROVE  /\ ~deleted /\ partial = ids[c]
                      /\ kind = "group" => \A i \in 1..(pos[c] - 1) : members'[ids[c][i]] = ids[c][i]
      BY <1>1, <1>4 DEF Undisturbed
  <2>1. /\ ~deleted /\ partial = ids[c]
        /\ kind = "group" => \A i \in 1..(pos[c] - 1) : members[ids[c][i]] = ids[c][i]
    BY DEF ChatInv, Undisturbed
  <2>2. \A i \in 1..(pos[c] - 1) : ids[c][i] \in Users
    BY ChunksAreTyped DEF ChatInv
  <2> QED
    BY <1>3, <2>1, <2>2
<1> QED
  BY <1>5, <1>6, <1>7, <1>8, <1>9, <1>10, <1>11, <1>12 DEF ChatInv

LEMMA GoingsKeep ==
    ASSUME ChatInv, NEW u \in Users, Leave(u)
    PROVE  ChatInv'
<1>1. /\ lost = Nobody /\ phase = "stored" /\ u \in truth /\ truth' = truth \ {u} /\ happened' \in 0..MaxEvents
      /\ UNCHANGED <<object, deleted, cached, joining, chunking, guests>>
  BY DEF Leave, Event, ChatInv, ChatTypeOK
<1>2. /\ members' \in [Users -> Users \union {"absent", "none"}]
      /\ members'[u] = "absent"
      /\ \A v \in Users \ {u} : members'[v] = members[v]
  BY DEF Leave, ChatInv, ChatTypeOK
<1>3. /\ partial' \in Keys
      /\ \A v \in Users \ {u} : v \in ToSet(partial') <=> v \in ToSet(partial)
      /\ ~deleted => u \notin ToSet(partial')
      /\ disturbed' = disturbed \/ disturbed' = disturbed \union Waiting
      /\ partial' = partial \/ disturbed' = disturbed \union Waiting
      /\ u \in ToSet(partial) => deleted \/ disturbed' = disturbed \union Waiting
  <2>1. partial \in Keys
    BY DEF ChatInv, ChatTypeOK, Keys
  <2>2. CASE deleted
    BY <2>1, <2>2 DEF Leave, Records
  <2>3. CASE ~deleted
    <3>1. partial' = Without(partial, u)
      BY <2>3 DEF Leave, Records
    <3>2. partial' \in Keys /\ ToSet(partial') = ToSet(partial) \ {u}
      BY <2>1, <3>1, WithoutIs
    <3> QED
      BY <2>3, <3>2 DEF Leave, Records
  <2> QED
    BY <2>2, <2>3
<1>4. /\ Waiting' = Waiting /\ Waiting \subseteq Chunks /\ UNCHANGED <<chunk, ids, pos, kind, phase>>
      /\ astray' \subseteq Users /\ astray \subseteq astray' /\ astray' \subseteq astray \union {u}
      /\ (u \in joining \/ Waiting # {}) => u \in astray'
  BY <1>1 DEF Leave, Waiting, chunking, object, ChatInv, ChatTypeOK
<1>5. lost' = Nobody \/ (lost' = u /\ (deleted \/ (members[u] = "absent" /\ u \notin ToSet(partial))))
  BY <1>1 DEF Leave
<1>6. ChatTypeOK'
  BY <1>1, <1>2, <1>3, <1>4, <1>5 DEF ChatInv, ChatTypeOK, Keys
<1>7. MembersAgree'
  <2> SUFFICES ASSUME NEW v \in Users, v \notin astray' \union joining \union guests
               PROVE  v \in truth' <=> members'[v] # "absent" \/ (~deleted /\ v \in ToSet(partial'))
      BY <1>1, <1>4 DEF MembersAgree
  <2>1. CASE v = u
    BY <1>1, <1>2, <1>3, <2>1
  <2>2. CASE v # u
    <3>1. v \in truth <=> members[v] # "absent" \/ (~deleted /\ v \in ToSet(partial))
      BY <1>1, <1>4 DEF ChatInv, MembersAgree
    <3> QED
      BY <1>1, <1>2, <1>3, <2>2, <3>1
  <2> QED
    BY <2>1, <2>2
<1>8. LostAfterChunk'
  BY <1>1, <1>4, <1>5 DEF ChatInv, MembersAgree, GuestsOutside, LostAfterChunk
<1>9. ChunkIsWhole'
  BY <1>1, <1>2, <1>3, <1>4 DEF ChatInv, ChunkIsWhole, ChatTypeOK
<1>10. Unstored' /\ NewcomersBelong' /\ GuestsOutside'
  BY <1>1, <1>4 DEF ChatInv, Unstored, NewcomersBelong, GuestsOutside
<1>11. NobodyMissing'
  BY <1>1, <1>2, <1>4 DEF ChatInv, NobodyMissing, ChatTypeOK
<1>12. OwnRecords'
  BY <1>1, <1>2, <1>3 DEF ChatInv, OwnRecords, ChatTypeOK
<1>13. Undisturbed'
  <2> SUFFICES ASSUME NEW c \in Waiting \ disturbed'
               PROVE  /\ ~deleted /\ partial' = ids[c]
                      /\ kind = "group" => \A i \in 1..(pos[c] - 1) : members'[ids[c][i]] = ids[c][i]
      BY <1>1, <1>4 DEF Undisturbed
  <2>1. /\ ~deleted /\ partial = ids[c] /\ partial' = partial /\ u \notin ToSet(partial)
        /\ kind = "group" => \A i \in 1..(pos[c] - 1) : members[ids[c][i]] = ids[c][i]
    BY <1>3 DEF ChatInv, Undisturbed
  <2>2. ASSUME NEW i \in 1..(pos[c] - 1) PROVE ids[c][i] \in Users /\ ids[c][i] # u
    <3>1. ids[c] \in Seq(Users)
      BY ChunksAreTyped DEF ChatInv
    <3>2. i \in 1..Len(ids[c])
      BY ChunksAreTyped DEF ChatInv
    <3> QED
      BY <2>1, <3>1, <3>2, KeysAreUsers
  <2> QED
    BY <1>2, <2>1, <2>2
<1> QED
  BY <1>6, <1>7, <1>8, <1>9, <1>10, <1>11, <1>12, <1>13 DEF ChatInv

----------------------------------------------------------------------------
(* chunk() *)

\* chunk() is called.
LEMMA ChunkKeeps ==
    ASSUME ChatInv, NEW c \in Chunks, Chunk(c)
    PROVE  ChatInv'
<1>1. /\ lost = Nobody /\ phase = "stored" /\ chunk[c] = "idle" /\ c \notin Waiting /\ Waiting \subseteq Chunks
      /\ UNCHANGED <<object, kind, phase, truth, partial, cached, joining, lost, happened, guests>>
  BY DEF Chunk, object, Waiting, history
<1>2. CASE deleted
  <2>1. UNCHANGED <<members, deleted, ids, pos, astray, disturbed>> /\ chunk' = [chunk EXCEPT ![c] = "returned"]
    BY <1>2 DEF Chunk, To, history
  <2>2. chunk' \in [Chunks -> {"idle", "waiting", "returned", "failed"}] /\ Waiting' = Waiting
    BY <1>1, <2>1 DEF ChatInv, ChatTypeOK, Waiting
  <2>3. ChatTypeOK'
    BY <1>1, <2>1, <2>2 DEF ChatInv, ChatTypeOK
  <2> QED
    BY <1>1, <2>1, <2>2, <2>3 DEF ChatInv, MembersAgree, LostAfterChunk, ChunkIsWhole, Unstored,
                                  NewcomersBelong, GuestsOutside, NobodyMissing, OwnRecords, Undisturbed
<1>3. CASE ~deleted
  <2> DEFINE stop == Stop(partial, 1)
             n == Len(partial)
  <2>1. /\ partial \in Seq(Users) /\ n \in Nat /\ DOMAIN partial = 1..n /\ ToSet(partial) \subseteq Users
        /\ \A i \in 1..n : partial[i] \in Users /\ partial[i] \in ToSet(partial)
        /\ \A u \in ToSet(partial) : \E i \in 1..n : partial[i] = u
    BY KeysAreUsers DEF ChatInv, ChatTypeOK
  <2>2. stop \in 1..(n + 1)
    BY <2>1, StopIs
  <2>3. /\ ids' = [ids EXCEPT ![c] = partial]
        /\ pos' = [pos EXCEPT ![c] = stop]
        /\ astray' = astray \union {u \in truth : u \notin ToSet(partial) \union joining}
    BY <1>3 DEF Chunk
  <2>4. \/ /\ stop > n
           /\ members' = Made(Blank, partial, partial, 1..n)
           /\ Finish(c)
        \/ /\ stop <= n
           /\ members' = IF kind = "clan" THEN Blank ELSE Made(Blank, partial, partial, 1..(stop - 1))
           /\ chunk' = [chunk EXCEPT ![c] = "waiting"]
           /\ disturbed' = IF Waiting = {} THEN disturbed ELSE disturbed \union Waiting \union {c}
           /\ UNCHANGED deleted
    BY <1>3, <2>1, <2>2 DEF Chunk, To
  <2> HIDE DEF stop, n
  <2>5. /\ ids' \in [Chunks -> Seq(Users)] /\ pos' \in [Chunks -> Nat]
        /\ ids'[c] = partial /\ pos'[c] = stop
        /\ \A d \in Chunks \ {c} : ids'[d] = ids[d] /\ pos'[d] = pos[d]
        /\ astray' \subseteq Users /\ astray \subseteq astray'
    BY <2>1, <2>2, <2>3 DEF ChatInv, ChatTypeOK
  <2>6. \A v \in Users \ (astray' \union joining \union guests) : v \in truth <=> v \in ToSet(partial)
    BY <1>1, <1>3, <2>3, <2>5 DEF ChatInv, MembersAgree
  <2>7. ToSet(partial) \subseteq truth \union astray' \union guests
    BY <2>1, <2>5, <2>6 DEF ChatInv, NewcomersBelong
  <2>8. \A u \in Users : /\ u \in ToSet(partial) => Blank[u] = "none"
                         /\ u \notin ToSet(partial) => Blank[u] = "absent"
    BY DEF Blank
  <2>9. /\ members' \in [Users -> Users \union {"absent", "none"}]
        /\ \A u \in Users : /\ u \in ToSet(partial) => members'[u] \in {u, "none"}
                            /\ u \notin ToSet(partial) => members'[u] = "absent"
    <3>1. Blank \in [Users -> Users \union {"absent", "none"}]
      BY DEF Blank
    <3>2. CASE members' = Blank
      BY <2>8, <3>1, <3>2
    <3>3. ASSUME NEW I \in SUBSET (1..n), members' = Made(Blank, partial, partial, I)
          PROVE  /\ members' \in [Users -> Users \union {"absent", "none"}]
                 /\ \A u \in Users : /\ u \in ToSet(partial) => members'[u] \in {u, "none"}
                                     /\ u \notin ToSet(partial) => members'[u] = "absent"
      <4>1. \A u \in Users : members'[u] = u \/ members'[u] = Blank[u]
        BY <3>3, MadeOwn
      <4>2. \A u \in Users : u \notin ToSet(partial) => members'[u] = Blank[u]
        <5> SUFFICES ASSUME NEW u \in Users, u \notin ToSet(partial) PROVE members'[u] = Blank[u]
            OBVIOUS
        <5>1. \A i \in I : partial[i] # u
          BY <2>1
        <5> QED
          BY <3>3, <5>1 DEF Made
      <4>3. DOMAIN members' = Users /\ members' = [u \in Users |-> members'[u]]
        BY <3>3 DEF Made
      <4> QED
        BY <2>8, <4>1, <4>2, <4>3
    <3>4. 1..n \in SUBSET (1..n) /\ 1..(stop - 1) \in SUBSET (1..n)
      BY <2>1, <2>2 DEF n
    <3> QED
      BY <2>4, <3>2, <3>3, <3>4
  <2>10. CASE stop > n
    <3>1. /\ \A u \in ToSet(partial) : members'[u] = u
          /\ deleted' = TRUE /\ chunk' = [chunk EXCEPT ![c] = "returned"]
          /\ disturbed' = disturbed \union Waiting
      BY <1>1, <1>3, <2>1, <2>2, <2>4, <2>10, MadeOwn DEF Finish, To, n
    <3>2. chunk' \in [Chunks -> {"idle", "waiting", "returned", "failed"}] /\ Waiting' = Waiting
      BY <1>1, <3>1 DEF ChatInv, ChatTypeOK, Waiting
    <3>3. ChatTypeOK'
      BY <1>1, <2>5, <2>9, <3>1, <3>2 DEF ChatInv, ChatTypeOK, Waiting
    <3>4. MembersAgree' /\ LostAfterChunk' /\ ChunkIsWhole'
      BY <1>1, <2>1, <2>6, <2>9, <3>1 DEF MembersAgree, LostAfterChunk, ChunkIsWhole, GuestsOutside, ChatInv, ChatTypeOK
    <3>5. Unstored' /\ NobodyMissing'
      BY <1>1, <2>5, <2>6, <2>9, <3>1, <3>2 DEF Unstored, NobodyMissing, GuestsOutside, ChatInv, ChatTypeOK
    <3>7. NewcomersBelong' /\ GuestsOutside'
      BY <1>1, <2>5, <3>2 DEF NewcomersBelong, GuestsOutside, ChatInv
    <3>6. OwnRecords' /\ Undisturbed'
      BY <2>9, <3>1, <3>2 DEF OwnRecords, Undisturbed
    <3> QED
      BY <3>3, <3>4, <3>5, <3>6, <3>7 DEF ChatInv
  <2>11. CASE stop <= n
    <3>1. /\ deleted' = FALSE /\ chunk' = [chunk EXCEPT ![c] = "waiting"]
          /\ disturbed' = IF Waiting = {} THEN disturbed ELSE disturbed \union Waiting \union {c}
          /\ kind = "group" => members' = Made(Blank, partial, partial, 1..(stop - 1))
      BY <1>3, <2>1, <2>2, <2>4, <2>11 DEF n
    <3>2. /\ chunk' \in [Chunks -> {"idle", "waiting", "returned", "failed"}]
          /\ Waiting' = Waiting \union {c} /\ disturbed' \subseteq Chunks
      BY <1>1, <3>1 DEF ChatInv, ChatTypeOK, Waiting
    <3>3. ChatTypeOK'
      <4>1. \A d \in Chunks : chunk'[d] = "waiting" => pos'[d] \in DOMAIN ids'[d]
        <5>1. stop \in 1..n
          BY <2>1, <2>2, <2>11 DEF n
        <5>2. \A d \in Chunks \ {c} : chunk'[d] = chunk[d]
          BY <3>1 DEF ChatInv, ChatTypeOK
        <5> QED
          BY <2>1, <2>5, <5>1, <5>2 DEF ChatInv, ChatTypeOK
      <4> QED
        BY <1>1, <2>5, <2>9, <3>1, <3>2, <4>1 DEF ChatInv, ChatTypeOK
    <3>4. MembersAgree' /\ LostAfterChunk' /\ ChunkIsWhole'
      BY <1>1, <2>1, <2>6, <2>9, <3>1 DEF MembersAgree, LostAfterChunk, ChunkIsWhole, GuestsOutside, ChatInv, ChatTypeOK
    <3>5. Unstored' /\ NobodyMissing'
      BY <1>1, <2>5, <2>6, <2>9, <3>1, <3>2 DEF Unstored, NobodyMissing, GuestsOutside, ChatInv, ChatTypeOK
    <3>6. NewcomersBelong' /\ GuestsOutside'
      BY <1>1, <2>5, <2>7, <3>2 DEF NewcomersBelong, GuestsOutside, ChatInv
    <3>7. OwnRecords'
      BY <1>1, <2>9, <3>1 DEF OwnRecords
    <3>8. Undisturbed'
      <4> SUFFICES ASSUME NEW d \in Waiting' \ disturbed'
                   PROVE  /\ partial = ids'[d]
                          /\ kind = "group" => \A i \in 1..(pos'[d] - 1) : members'[ids'[d][i]] = ids'[d][i]
          BY <1>1, <3>1 DEF Undisturbed
      <4>1. d = c
        BY <3>1, <3>2
      <4>2. ASSUME kind = "group", NEW i \in 1..(stop - 1) PROVE members'[partial[i]] = partial[i]
        <5>1. i \in 1..n /\ partial[i] \in Users
          BY <2>1, <2>2
        <5>2. \E j \in 1..(stop - 1) : partial[j] = partial[i]
          OBVIOUS
        <5> QED
          BY <3>1, <4>2, <5>1, <5>2 DEF Made
      <4> QED
        BY <2>5, <4>1, <4>2
    <3> QED
      BY <3>3, <3>4, <3>5, <3>6, <3>7, <3>8 DEF ChatInv
  <2> QED
    BY <2>4, <2>10, <2>11
<1> QED
  BY <1>2, <1>3

\* What any resumption of a chunk() leaves as it was.
LEMMA ResumingKeeps ==
    ASSUME ChatInv, NEW c \in Waiting, lost = Nobody, phase = "stored",
           members' \in [Users -> Users \union {"absent", "none"}],
           \A v \in Users : members'[v] = members[v] \/ (v \in ToSet(ids[c]) /\ members'[v] \in Users),
           Waiting' \subseteq Waiting, deleted => deleted',
           UNCHANGED <<object, truth, partial, joining, ids, lost, astray, guests>>
    PROVE  MembersAgree' /\ LostAfterChunk' /\ Unstored' /\ NewcomersBelong' /\ GuestsOutside' /\ NobodyMissing'
<1>1. ToSet(ids[c]) \subseteq truth \union astray \union guests
  BY DEF ChatInv, NewcomersBelong
<1>2. \A v \in truth \ (astray \union joining) : members[v] # "absent" /\ members'[v] # "absent" /\ v \in Users
  BY DEF ChatInv, NobodyMissing, ChatTypeOK
<1>3. MembersAgree'
  BY <1>1, <1>2 DEF ChatInv, MembersAgree, object
<1>4. LostAfterChunk' /\ Unstored'
  BY DEF LostAfterChunk, Unstored, object
<1>5. NewcomersBelong' /\ GuestsOutside' /\ NobodyMissing'
  BY <1>2 DEF ChatInv, NewcomersBelong, GuestsOutside, NobodyMissing
<1> QED
  BY <1>3, <1>4, <1>5

LEMMA GroupKeeps ==
    ASSUME ChatInv, NEW c \in Chunks, GroupGoesOn(c)
    PROVE  ChatInv'
<1> DEFINE s == ids[c]
           p == pos[c]
           stop == IF Len(partial) # Len(s) THEN p + 1 ELSE Stop(s, p)
<1>1. /\ lost = Nobody /\ c \in Waiting /\ Waiting \subseteq Chunks /\ phase = "stored"
      /\ s \in Seq(Users) /\ Len(s) \in Nat /\ p \in 1..Len(s)
      /\ \A i \in 1..Len(s) : s[i] \in Users /\ s[i] \in ToSet(s)
      /\ \A u \in ToSet(s) : \E i \in 1..Len(s) : s[i] = u
      /\ UNCHANGED <<object, kind, phase, truth, partial, cached, joining, ids, lost, happened, astray, guests>>
  <2>1. c \in Waiting /\ lost = Nobody
    BY DEF GroupGoesOn, Waiting
  <2>2. phase = "stored"
    BY <2>1 DEF ChatInv, Unstored
  <2> QED
    BY <2>1, <2>2, ChunksAreTyped, KeysAreUsers DEF GroupGoesOn, object, ChatInv, Waiting
<1>2. stop \in p..(Len(s) + 1)
  BY <1>1, StopIs
<1>3. /\ members' = Made(members, s, s, p..(stop - 1))
      /\ pos' = [pos EXCEPT ![c] = stop]
      /\ \/ chunk' = [chunk EXCEPT ![c] = "failed"] /\ UNCHANGED <<deleted, disturbed>>
         \/ /\ stop > Len(s) /\ ~deleted /\ deleted' = TRUE
            /\ chunk' = [chunk EXCEPT ![c] = "returned"]
            /\ disturbed' = disturbed \union (Waiting \ {c})
         \/ stop <= Len(s) /\ UNCHANGED <<chunk, deleted, disturbed>>
  BY <1>1, <1>2 DEF GroupGoesOn, Finish, To
<1> HIDE DEF s, p, stop
<1>4. /\ \A u \in Users : members'[u] = members[u] \/ (u \in ToSet(s) /\ members'[u] = u)
      /\ \A i \in p..(stop - 1) : i \in 1..Len(s) /\ members'[s[i]] = s[i]
      /\ members' \in [Users -> Users \union {"absent", "none"}]
  <2>1. ASSUME NEW i \in p..(stop - 1) PROVE i \in 1..Len(s) /\ members'[s[i]] = s[i]
    <3>1. i \in 1..Len(s) /\ s[i] \in Users
      BY <1>1, <1>2
    <3>2. \E j \in p..(stop - 1) : s[j] = s[i]
      OBVIOUS
    <3> QED
      BY <1>3, <3>1, <3>2 DEF Made
  <2>2. ASSUME NEW u \in Users PROVE members'[u] = members[u] \/ (u \in ToSet(s) /\ members'[u] = u)
    <3>1. CASE \E i \in p..(stop - 1) : s[i] = u
      BY <1>1, <2>1, <3>1
    <3>2. CASE \A i \in p..(stop - 1) : s[i] # u
      BY <1>3, <3>2 DEF Made
    <3> QED
      BY <3>1, <3>2
  <2>3. members' = [u \in Users |-> members'[u]]
    BY <1>3 DEF Made
  <2>4. members \in [Users -> Users \union {"absent", "none"}]
    BY DEF ChatInv, ChatTypeOK
  <2> QED
    BY <2>1, <2>2, <2>3, <2>4
<1>5. /\ Waiting' = Waiting \/ Waiting' = Waiting \ {c}
      /\ chunk' \in [Chunks -> {"idle", "waiting", "returned", "failed"}]
      /\ pos' \in [Chunks -> Nat] /\ pos'[c] = stop
      /\ \A d \in Chunks \ {c} : pos'[d] = pos[d] /\ chunk'[d] = chunk[d]
      /\ c \in Waiting' => stop <= Len(s) /\ UNCHANGED <<deleted, disturbed>>
      /\ deleted' \in BOOLEAN /\ disturbed' \subseteq Chunks /\ disturbed \subseteq disturbed'
      /\ deleted => deleted'
      /\ deleted' /\ ~deleted => /\ disturbed' = disturbed \union (Waiting \ {c})
                                 /\ stop > Len(s) /\ c \notin Waiting'
  <2>1. /\ chunk \in [Chunks -> {"idle", "waiting", "returned", "failed"}] /\ pos \in [Chunks -> Nat]
        /\ deleted \in BOOLEAN /\ disturbed \subseteq Chunks /\ stop \in Nat
    BY <1>1, <1>2 DEF ChatInv, ChatTypeOK
  <2>2. pos' \in [Chunks -> Nat] /\ pos'[c] = stop /\ \A d \in Chunks \ {c} : pos'[d] = pos[d]
    BY <1>3, <2>1
  <2>3. CASE UNCHANGED chunk
    BY <1>1, <1>2, <1>3, <2>1, <2>2, <2>3 DEF Waiting
  <2>4. ASSUME NEW where \in {"failed", "returned"}, chunk' = [chunk EXCEPT ![c] = where]
        PROVE  /\ Waiting' = Waiting \ {c}
               /\ chunk' \in [Chunks -> {"idle", "waiting", "returned", "failed"}]
               /\ \A d \in Chunks \ {c} : chunk'[d] = chunk[d]
    BY <2>1, <2>4 DEF Waiting
  <2>5. CASE chunk' = [chunk EXCEPT ![c] = "failed"] /\ UNCHANGED <<deleted, disturbed>>
    BY <2>1, <2>2, <2>4, <2>5
  <2>6. CASE /\ stop > Len(s) /\ ~deleted /\ deleted' = TRUE
             /\ chunk' = [chunk EXCEPT ![c] = "returned"]
             /\ disturbed' = disturbed \union (Waiting \ {c})
    BY <1>1, <2>1, <2>2, <2>4, <2>6
  <2> QED
    BY <1>3, <2>1, <2>2, <2>3, <2>5, <2>6
<1>6. ChatTypeOK'
  <2>1. ASSUME NEW d \in Chunks, chunk'[d] = "waiting" PROVE pos'[d] \in DOMAIN ids[d]
    <3>1. CASE d = c
      <4>1. stop \in 1..Len(s)
        BY <1>1, <1>2, <1>5, <2>1, <3>1 DEF Waiting
      <4> QED
        BY <1>1, <1>5, <3>1, <4>1 DEF s
    <3>2. CASE d # c
      BY <1>5, <2>1, <3>2 DEF ChatInv, ChatTypeOK
    <3> QED
      BY <3>1, <3>2
  <2> QED
    BY <1>1, <1>4, <1>5, <2>1 DEF ChatInv, ChatTypeOK
<1>7. MembersAgree' /\ LostAfterChunk' /\ Unstored' /\ NewcomersBelong' /\ GuestsOutside' /\ NobodyMissing'
  <2>1. \A v \in Users : members'[v] = members[v] \/ (v \in ToSet(ids[c]) /\ members'[v] \in Users)
    BY <1>4 DEF s
  <2>2. Waiting' \subseteq Waiting /\ (deleted => deleted')
    BY <1>5
  <2> QED
    BY <1>1, <1>4, <2>1, <2>2, ResumingKeeps
<1>8. OwnRecords'
  BY <1>1, <1>4, <1>5 DEF ChatInv, OwnRecords, ChatTypeOK
<1>9. \/ c \in disturbed
      \/ /\ ~deleted /\ partial = s
         /\ kind = "group" => \A i \in 1..(p - 1) : members[s[i]] = s[i]
  BY <1>1 DEF ChatInv, Undisturbed, s, p
<1>10. ChunkIsWhole'
  <2> SUFFICES ASSUME deleted', disturbed' = {}, NEW v \in truth \ (astray \union joining) PROVE members'[v] = v
      BY <1>1 DEF ChunkIsWhole
  <2>1. /\ ~deleted /\ partial = s /\ stop > Len(s) /\ v \in Users
        /\ \A i \in 1..(p - 1) : members[s[i]] = s[i]
    BY <1>1, <1>5, <1>9 DEF GroupGoesOn, ChatInv, ChatTypeOK
  <2>2. members[v] = v \/ v \in ToSet(s)
    BY <1>1, <2>1 DEF ChatInv, NobodyMissing, OwnRecords
  <2>3. CASE v \in ToSet(s)
    <3>1. PICK i \in 1..Len(s) : s[i] = v
      BY <1>1, <2>3
    <3>2. i \in 1..(p - 1) \/ i \in p..(stop - 1)
      BY <1>1, <1>2, <2>1
    <3> QED
      BY <1>4, <2>1, <3>1, <3>2
  <2>4. CASE members[v] = v
    BY <1>4, <2>1, <2>4
  <2> QED
    BY <2>2, <2>3, <2>4
<1>11. Undisturbed'
  <2> SUFFICES ASSUME NEW d \in Waiting' \ disturbed'
               PROVE  /\ ~deleted' /\ partial = ids[d]
                      /\ kind = "group" => \A i \in 1..(pos'[d] - 1) : members'[ids[d][i]] = ids[d][i]
      BY <1>1 DEF Undisturbed
  <2>1. /\ d \in Waiting /\ ~deleted /\ partial = ids[d]
        /\ kind = "group" => \A i \in 1..(pos[d] - 1) : members[ids[d][i]] = ids[d][i]
    BY <1>5 DEF ChatInv, Undisturbed
  <2>2. ~deleted'
    BY <1>5, <2>1
  <2>3. ASSUME kind = "group", NEW i \in 1..(pos'[d] - 1) PROVE members'[ids[d][i]] = ids[d][i]
    <3>1. CASE i \in 1..(pos[d] - 1)
      <4>1. ids[d][i] \in Users
        BY <2>1, <3>1, ChunksAreTyped DEF ChatInv
      <4> QED
        BY <1>4, <2>1, <2>3, <3>1, <4>1
    <3>2. CASE i \notin 1..(pos[d] - 1)
      <4>1. d = c
        BY <1>1, <1>5, <2>1, <3>2
      <4>2. i \in p..(stop - 1)
        BY <1>1, <1>2, <1>5, <3>2, <4>1 DEF p
      <4> QED
        BY <1>4, <4>1, <4>2 DEF s
    <3> QED
      BY <3>1, <3>2
  <2> QED
    BY <2>1, <2>2, <2>3
<1> QED
  BY <1>6, <1>7, <1>8, <1>10, <1>11 DEF ChatInv

LEMMA ClanKeeps ==
    ASSUME ChatInv, NEW c \in Chunks, ClanGoesOn(c)
    PROVE  ChatInv'
<1> DEFINE s == ids[c]
           I == DOMAIN s \intersect DOMAIN partial
<1>1. /\ lost = Nobody /\ c \in Waiting /\ Waiting \subseteq Chunks /\ phase = "stored"
      /\ s \in Seq(Users) /\ Len(s) \in Nat /\ DOMAIN s = 1..Len(s) /\ ToSet(s) \subseteq Users
      /\ \A i \in 1..Len(s) : s[i] \in Users /\ s[i] \in ToSet(s)
      /\ \A u \in ToSet(s) : \E i \in 1..Len(s) : s[i] = u
      /\ UNCHANGED <<object, kind, phase, truth, partial, joining, ids, pos, lost, happened, astray, guests>>
  <2>1. c \in Waiting /\ lost = Nobody
    BY DEF ClanGoesOn, Waiting
  <2>2. phase = "stored"
    BY <2>1 DEF ChatInv, Unstored
  <2> QED
    BY <2>1, <2>2, ChunksAreTyped, KeysAreUsers DEF ClanGoesOn, object, ChatInv, Waiting
<1>2. /\ members' = IF deleted THEN members ELSE Made(members, s, partial, I)
      /\ cached' \subseteq Users
      /\ deleted' = TRUE
      /\ \/ chunk' = [chunk EXCEPT ![c] = "failed"] /\ deleted /\ UNCHANGED disturbed
         \/ /\ chunk' = [chunk EXCEPT ![c] = "returned"] /\ ~deleted
            /\ disturbed' = disturbed \union (Waiting \ {c})
  BY <1>1 DEF ClanGoesOn, Finish, To, ChatInv, ChatTypeOK
<1> HIDE DEF s, I
<1>3. /\ \A u \in Users : members'[u] = members[u] \/ (u \in ToSet(s) /\ members'[u] \in Users)
      /\ members' \in [Users -> Users \union {"absent", "none"}]
      /\ ~deleted => \A u \in Users : /\ (\E i \in I : s[i] = u) => \E i \in I : s[i] = u /\ members'[u] = partial[i]
                                      /\ (\A i \in I : s[i] # u) => members'[u] = members[u]
  <2>1. members \in [Users -> Users \union {"absent", "none"}]
    BY DEF ChatInv, ChatTypeOK
  <2>2. CASE deleted
    BY <1>2, <2>1, <2>2
  <2>3. CASE ~deleted
    <3>1. \A i \in I : i \in 1..Len(s) /\ partial[i] \in Users
      BY <1>1, KeysAreUsers DEF ChatInv, ChatTypeOK, I
    <3>2. ASSUME NEW u \in Users
          PROVE  /\ (\E i \in I : s[i] = u) => \E i \in I : s[i] = u /\ members'[u] = partial[i]
                 /\ (\A i \in I : s[i] # u) => members'[u] = members[u]
      BY <1>2, <2>3 DEF Made
    <3>3. \A u \in Users : members'[u] = members[u] \/ (u \in ToSet(s) /\ members'[u] \in Users)
      BY <1>1, <3>1, <3>2
    <3>4. members' = [u \in Users |-> members'[u]]
      BY <1>2, <2>3 DEF Made
    <3> QED
      BY <2>1, <3>2, <3>3, <3>4
  <2> QED
    BY <2>2, <2>3
<1>4. /\ Waiting' = Waiting \ {c}
      /\ chunk' \in [Chunks -> {"idle", "waiting", "returned", "failed"}]
      /\ \A d \in Chunks \ {c} : chunk'[d] = chunk[d]
      /\ chunk'[c] # "waiting"
      /\ disturbed' \subseteq Chunks /\ disturbed \subseteq disturbed'
      /\ ~deleted => disturbed' = disturbed \union (Waiting \ {c})
  BY <1>1, <1>2 DEF ChatInv, ChatTypeOK, Waiting
<1>5. ChatTypeOK'
  BY <1>1, <1>2, <1>3, <1>4 DEF ChatInv, ChatTypeOK
<1>6. MembersAgree' /\ LostAfterChunk' /\ Unstored' /\ NewcomersBelong' /\ GuestsOutside' /\ NobodyMissing'
  <2>1. \A v \in Users : members'[v] = members[v] \/ (v \in ToSet(ids[c]) /\ members'[v] \in Users)
    BY <1>3 DEF s
  <2> QED
    BY <1>1, <1>2, <1>3, <1>4, <2>1, ResumingKeeps
<1>7. c \in disturbed \/ (~deleted /\ partial = s)
  BY <1>1 DEF ChatInv, Undisturbed, s
<1>8. ASSUME disturbed' = {}, NEW v \in Users
      PROVE  members'[v] = v \/ (v \notin ToSet(s) /\ members'[v] = members[v])
  <2>1. ~deleted /\ partial = s /\ I = 1..Len(s)
    BY <1>1, <1>4, <1>7, <1>8 DEF I
  <2>2. CASE v \in ToSet(s)
    <3>1. \E i \in I : s[i] = v
      BY <1>1, <2>1, <2>2
    <3> QED
      BY <1>3, <2>1, <3>1
  <2>3. CASE v \notin ToSet(s)
    <3>1. \A i \in I : s[i] # v
      BY <1>1, <2>1, <2>3
    <3> QED
      BY <1>3, <2>1, <2>3, <3>1
  <2> QED
    BY <2>2, <2>3
<1>9. ChunkIsWhole'
  <2> SUFFICES ASSUME disturbed' = {}, NEW v \in truth \ (astray \union joining) PROVE members'[v] = v
      BY <1>1 DEF ChunkIsWhole
  <2>1. v \in Users /\ ~deleted /\ partial = s
    BY <1>4, <1>7 DEF ChatInv, ChatTypeOK
  <2>2. members[v] = v \/ v \in ToSet(s)
    BY <1>1, <2>1 DEF ChatInv, NobodyMissing, OwnRecords
  <2> QED
    BY <1>8, <2>1, <2>2
<1>10. OwnRecords'
  <2> SUFFICES ASSUME disturbed' = {}, NEW v \in Users PROVE members'[v] \in {v, "absent", "none"}
      BY <1>2 DEF OwnRecords
  <2>1. disturbed = {} /\ members[v] \in {v, "absent", "none"}
    BY <1>4 DEF ChatInv, OwnRecords
  <2> QED
    BY <1>8, <2>1
<1>11. Undisturbed'
  BY <1>2, <1>4 DEF ChatInv, Undisturbed
<1> QED
  BY <1>5, <1>6, <1>9, <1>10, <1>11 DEF ChatInv

----------------------------------------------------------------------------
(* All of the chat group *)

LEMMA ChatInvStep == ChatInv /\ [ChatNext]_chatVars => ChatInv'
<1> SUFFICES ASSUME ChatInv, [ChatNext]_chatVars PROVE ChatInv'
    OBVIOUS
<1>1. CASE Fill \/ Store \/ \E u \in Users : Unheard(u)
  BY <1>1, LoadingKeeps
<1>2. CASE \E u \in Users : Speak(u) \/ Look(u)
  BY <1>2, QuestionsKeep
<1>8. CASE \E a, u \in Users : Invited(a, u)
  BY <1>8, InvitesKeep
<1>3. CASE \E u \in Users : Join(u) \/ Joined(u)
  BY <1>3, ComingsKeep
<1>4. CASE \E u \in Users : Leave(u)
  BY <1>4, GoingsKeep
<1>5. CASE \E u \in Users : Cache(u)
  <2>1. cached' \subseteq Users
    BY <1>5 DEF Cache, ChatInv, ChatTypeOK
  <2> QED
    BY <1>5, <2>1, OthersKeep DEF Cache
<1>6. CASE \E c \in Chunks : Chunk(c) \/ ChunkStep(c)
  BY <1>6, ChunkKeeps, GroupKeeps, ClanKeeps DEF ChunkStep
<1>7. CASE UNCHANGED chatVars
  <2>1. cached' \subseteq Users
    BY <1>7 DEF chatVars, ChatInv, ChatTypeOK
  <2> QED
    BY <1>7, <2>1, OthersKeep DEF chatVars
<1> QED
  BY <1>1, <1>2, <1>3, <1>4, <1>5, <1>6, <1>7, <1>8 DEF ChatNext

LEMMA ChatInvAlways == ChatSpec => []ChatInv
BY ChatInvInit, ChatInvStep, PTL DEF ChatSpec

\* Every variable of a chat group keeps its type, and the records name nobody
\* twice.
THEOREM ChatTyped == ChatSpec => []ChatTypeOK
<1>1. ChatInv => ChatTypeOK
  BY DEF ChatInv
<1> QED
  BY <1>1, ChatInvAlways, PTL

\* The client holds who is in the group, but for the users it is known to lose
\* track of and those who were invited.
THEOREM MembersAreAgreed == ChatSpec => []MembersAgree
<1>1. ChatInv => MembersAgree
  BY DEF ChatInv
<1> QED
  BY <1>1, ChatInvAlways, PTL

\* A handler raises only in a chunked group, or for a user who is being fetched,
\* whom the client has wrong, or who was invited to a group.
THEOREM LostOnlyAfterChunk == ChatSpec => []LostAfterChunk
<1>1. ChatInv => LostAfterChunk
  BY DEF ChatInv
<1> QED
  BY <1>1, ChatInvAlways, PTL

\* An undisturbed chunk() makes every member, and of the user's own record.
THEOREM ChunksAreWhole == ChatSpec => []ChunkIsWhole
<1>1. ChatInv => ChunkIsWhole
  BY DEF ChatInv
<1> QED
  BY <1>1, ChatInvAlways, PTL
=============================================================================
