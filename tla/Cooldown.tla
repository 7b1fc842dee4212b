------------------------------ MODULE Cooldown ------------------------------
(***************************************************************************)
(* Cooldown of the commands extension (ext/commands/cooldown.py): who is   *)
(* refused, and the tasks that record a call and forget it.                *)
(*                                                                         *)
(* __call__ schedules the task that records the call and looks up the      *)
(* earlier ones at once: the task has not run then.  Messages that are     *)
(* handled in one turn of the event loop do not see each other.            *)
(*                                                                         *)
(* Abstractions.  The clock of time.time() is a counter that never goes    *)
(* back; it is read by two calls in one tick when it is coarse.  A task    *)
(* whose sleep is over may still be late; tasks of one tick run in any     *)
(* order.  What makes a bucket of a message is left out.                   *)
(***************************************************************************)
EXTENDS Integers, FiniteSets

CONSTANTS Calls,     \* the calls of one command
          BucketOf,  \* bucket.get_bucket of each
          NoBucket,  \* the key is not in _queue
          Rate, Per,
          MaxTime    \* bound: the clock stops here

ASSUME CooldownAssumption ==
    /\ Rate \in Nat \ {0}
    /\ Per \in Nat \ {0}
    /\ MaxTime \in Nat
    /\ IsFiniteSet(Calls)
    /\ \A c \in Calls : BucketOf[c] # NoBucket

VARIABLES clock,
          at,        \* the "now" of each call, -1 before it
          queue,     \* _queue
          recording, \* the calls whose expire_cache has not started
          sleeping,  \* those whose expire_cache sleeps
          due,       \* when it is to wake up
          verdict    \* of each call

cooldown == <<clock, at, queue, recording, sleeping, due, verdict>>

Times == 0..MaxTime

CooldownTypeOK ==
    /\ clock \in Times
    /\ at \in [Calls -> Times \union {-1}]
    /\ queue \in [Times -> {BucketOf[c] : c \in Calls} \union {NoBucket}]
    /\ recording \subseteq Calls
    /\ sleeping \subseteq Calls \ recording
    /\ due \in [Calls -> 0..(MaxTime + Per)]
    /\ verdict \in [Calls -> {"none", "passed", "refused"}]

CooldownInit ==
    /\ clock = 0
    /\ at = [c \in Calls |-> -1]
    /\ queue = [t \in Times |-> NoBucket]
    /\ recording = {}
    /\ sleeping = {}
    /\ due = [c \in Calls |-> 0]
    /\ verdict = [c \in Calls |-> "none"]

\* Bug a mutant checks: the buckets are not told apart.
AllCalls(b) == {t \in Times : queue[t] # NoBucket}

\* _calls: the times of a bucket, in the order of their insertion.
BucketCalls(b) == {t \in Times : queue[t] = b}

Oldest(b) == CHOOSE t \in BucketCalls(b) : \A u \in BucketCalls(b) : t <= u

\* Bug a mutant checks: one call too many.
RetryAfterLate(b) ==
    IF BucketCalls(b) # {} /\ Oldest(b) + Per >= clock /\ Cardinality(BucketCalls(b)) > Rate
    THEN Oldest(b) + Per - clock ELSE 0

\* get_retry_after at "now", which the caller has just read.
RetryAfter(b) ==
    IF BucketCalls(b) # {} /\ Oldest(b) + Per >= clock /\ Cardinality(BucketCalls(b)) >= Rate
    THEN Oldest(b) + Per - clock ELSE 0

\* __call__: refused calls are recorded as well.
Ask(c) ==
    /\ at' = [at EXCEPT ![c] = clock]
    /\ recording' = recording \union {c}
    /\ verdict' = [verdict EXCEPT ![c] =
                     IF RetryAfter(BucketOf[c]) # 0 THEN "refused" ELSE "passed"]
    /\ UNCHANGED <<clock, queue, sleeping, due>>

\* Bug a mutant checks: the call is recorded again by a second task.
RecordTwice(c) ==
    /\ c \in recording
    /\ sleeping' = sleeping \union {c}
    /\ due' = [due EXCEPT ![c] = clock + Per]
    /\ queue' = [queue EXCEPT ![at[c]] = BucketOf[c]]
    /\ UNCHANGED <<clock, at, recording, verdict>>

\* expire_cache up to its sleep.  A call that read the same time is replaced.
Record(c) ==
    /\ c \in recording
    /\ \A d \in recording : at[c] <= at[d]
    /\ recording' = recording \ {c}
    /\ sleeping' = sleeping \union {c}
    /\ due' = [due EXCEPT ![c] = clock + Per]
    /\ queue' = [queue EXCEPT ![at[c]] = BucketOf[c]]
    /\ UNCHANGED <<clock, at, verdict>>

Expire(c) ==
    /\ c \in sleeping
    /\ clock >= due[c]
    /\ sleeping' = sleeping \ {c}
    /\ queue' = [queue EXCEPT ![at[c]] = NoBucket]
    /\ UNCHANGED <<clock, at, recording, due, verdict>>

\* Tasks that are ready run within a tick.
Tick ==
    /\ clock < MaxTime
    /\ recording = {}
    /\ clock' = clock + 1
    /\ UNCHANGED <<at, queue, recording, sleeping, due, verdict>>

Pass == Tick \/ \E c \in Calls : Record(c) \/ Expire(c)
=============================================================================
