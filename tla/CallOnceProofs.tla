--------------------------- MODULE CallOnceProofs ---------------------------
(***************************************************************************)
(* The safety of utils.call_once, for any number of callers and calls.     *)
(*                                                                         *)
(* The argument.  being_called stands for exactly one leader, of the last  *)
(* flight (Led).  The future of every flight but that one is settled,      *)
(* cancelled by a follower, or was dropped by its leader (Settled).  A     *)
(* caller inside came no later than the flight it will be answered by      *)
(* (Timely).                                                               *)
(***************************************************************************)
EXTENDS CallOnce, TLAPS

Led ==
    /\ called => \E c \in Callers : pc[c] = "leader"
    /\ \A c \in Callers : pc[c] = "leader" => called /\ on[c] = flights
    /\ CalledOnce
    /\ called => flights \in Flights /\ future[flights] \in {"pending", "cancelled"}

Settled ==
    /\ \A f \in Flights : future[f] = "absent" <=> f > flights
    /\ \A f \in Flights : future[f] = "cancelled" => f \in quit
    /\ \A f \in Flights : future[f] = "pending" /\ f \notin dropped => called /\ f = flights

Timely ==
    /\ \A c \in Callers : pc[c] # "out" => since[c] <= IF called THEN flights ELSE flights + 1
    /\ \A c \in Callers : pc[c] \in {"leader", "follower"} =>
          on[c] \in 1 .. flights /\ since[c] <= on[c]

Dropped ==
    /\ \A f \in dropped : f <= flights /\ future[f] \in {"pending", "cancelled"}
    /\ called => flights \notin dropped

IndInv ==
    TypeOK /\ Led /\ Settled /\ Timely /\ Dropped /\ NeverStale /\ OnlyFollowersCancel

(* The initial states satisfy the invariant.                               *)
LEMMA InitIndInv == Init => IndInv
<1> SUFFICES ASSUME Init PROVE IndInv
  OBVIOUS
<1>1a. pc \in [Callers -> Places]
  BY DEF Init, Places
<1>1b. future \in [Flights -> FutureStates]
  BY DEF Init, FutureStates
<1>1c. got \in [Callers -> Answers] /\ asked \in [Callers -> BOOLEAN]
  BY Zenon DEF Init, Answers
<1>1d. on \in [Callers -> 0 .. MaxFlights] /\ since \in [Callers -> 0 .. MaxFlights + 1]
  BY MaxFlightsAssumption DEF Init
<1>1e. flights \in 0 .. MaxFlights /\ calls \in 0 .. MaxFlights
  BY MaxFlightsAssumption DEF Init
<1>2. TypeOK
  BY <1>1a, <1>1b, <1>1c, <1>1d, <1>1e DEF Init, TypeOK
<1>3. Led /\ Settled /\ Dropped
  BY MaxFlightsAssumption DEF Init, Led, CalledOnce, Settled, Dropped, Flights
<1>4. Timely /\ NeverStale /\ OnlyFollowersCancel
  BY DEF Init, Timely, NeverStale, OnlyFollowersCancel, Endings
<1> QED BY <1>2, <1>3, <1>4 DEF IndInv

(* being_called is right about whether the function runs.                   *)
LEMMA CalledIffRunning == ASSUME IndInv PROVE called <=> Running
  BY DEF IndInv, Led, Running

(* What a caller that has the lock knows: the last flight is the one that   *)
(* is under way, and its future was not settled yet.                       *)
LEMMA LastFlight ==
    ASSUME IndInv, called
    PROVE  /\ flights \in Flights
           /\ future[flights] = "pending" \/ (future[flights] = "cancelled" /\ flights \in quit)
  BY DEF IndInv, Led, Settled

(* A caller that gets past the lock, new or queued.                        *)
LEMMA EnterStep ==
    ASSUME IndInv, NEW c \in Callers, pc[c] \in {"out", "queued"},
           Lead(c) \/ Follow(c),
           UNCHANGED <<quit, dropped>>,
           asked' \in [Callers -> BOOLEAN], calls' \in 0 .. MaxFlights,
           since' \in [Callers -> 0 .. MaxFlights + 1],
           since'[c] <= IF called THEN flights ELSE flights + 1,
           \A d \in Callers \ {c} : since'[d] = since[d] /\ asked'[d] = asked[d]
    PROVE  IndInv'
<1> USE MaxFlightsAssumption DEF IndInv
<1>1. CASE Lead(c)
  <2>1. TypeOK'
    BY <1>1 DEF Lead, TypeOK, Places, FutureStates, Endings, Flights
  <2>2. Led'
    BY <1>1 DEF Lead, TypeOK, Led, CalledOnce, Flights
  <2>3. Settled' /\ Dropped'
    BY <1>1 DEF Lead, TypeOK, Settled, Dropped, Flights
  <2>4. Timely'
    BY <1>1 DEF Lead, TypeOK, Timely, Flights
  <2>5. NeverStale' /\ OnlyFollowersCancel'
    BY <1>1 DEF Lead, TypeOK, NeverStale, OnlyFollowersCancel
  <2> QED BY <2>1, <2>2, <2>3, <2>4, <2>5
<1>2. CASE Follow(c)
  <2>0. /\ called /\ flights \in Flights
        /\ future[flights] = "pending" \/ (future[flights] = "cancelled" /\ flights \in quit)
    BY <1>2, LastFlight DEF Follow
  <2>1. TypeOK'
    BY <1>2, <2>0 DEF Follow, TypeOK, Places, Answers, Flights
  <2>2. Led'
    BY <1>2, <2>0 DEF Follow, TypeOK, Led, CalledOnce
  <2>3. Settled' /\ Dropped'
    BY <1>2 DEF Follow, Settled, Dropped
  <2>4. Timely'
    BY <1>2, <2>0 DEF Follow, TypeOK, Timely, Flights
  <2>5. NeverStale' /\ OnlyFollowersCancel'
    BY <1>2, <2>0 DEF Follow, TypeOK, NeverStale, OnlyFollowersCancel, Endings
  <2> QED BY <2>1, <2>2, <2>3, <2>4, <2>5
<1> QED BY <1>1, <1>2

(* A call, whether it gets past the lock at once or queues.                *)
LEMMA CallStep == ASSUME IndInv, NEW c \in Callers, Call(c) PROVE IndInv'
<1> USE MaxFlightsAssumption DEF IndInv
<1>1. /\ asked' \in [Callers -> BOOLEAN] /\ calls' \in 0 .. MaxFlights
      /\ since' \in [Callers -> 0 .. MaxFlights + 1]
      /\ since'[c] = IF called THEN flights ELSE flights + 1
      /\ \A d \in Callers \ {c} : since'[d] = since[d] /\ asked'[d] = asked[d]
      /\ UNCHANGED <<quit, dropped>>
      /\ pc[c] = "out"
  BY CalledIffRunning DEF Call, TypeOK
<1>2. CASE LockFree
  <2>1. Lead(c) \/ Follow(c)
    BY <1>2 DEF Call
  <2>2. since'[c] <= IF called THEN flights ELSE flights + 1
    BY <1>1 DEF TypeOK
  <2> QED BY <1>1, <2>1, <2>2, EnterStep
<1>3. CASE ~LockFree
  <2>1. /\ pc' = [pc EXCEPT ![c] = "queued"]
        /\ UNCHANGED <<holder, called, flights, future, on, got>>
    BY <1>3 DEF Call
  <2>2. TypeOK'
    BY <1>1, <2>1 DEF TypeOK, Places
  <2>3. Led' /\ Settled' /\ Dropped'
    BY <1>1, <2>1 DEF TypeOK, Led, CalledOnce, Settled, Dropped
  <2>4. Timely'
    BY <1>1, <2>1 DEF TypeOK, Timely
  <2>5. NeverStale' /\ OnlyFollowersCancel'
    BY <1>1, <2>1 DEF TypeOK, NeverStale, OnlyFollowersCancel
  <2> QED BY <2>2, <2>3, <2>4, <2>5
<1> QED BY <1>2, <1>3

(* A queued caller gets the lock.                                          *)
LEMMA AcquireStep == ASSUME IndInv, NEW c \in Callers, Acquire(c) PROVE IndInv'
<1>1. since[c] <= IF called THEN flights ELSE flights + 1
  BY DEF IndInv, Timely, Acquire
<1> QED BY <1>1, EnterStep DEF IndInv, TypeOK, Acquire

(* A flight ends with a result or an exception.                            *)
LEMMA FinishStep ==
    ASSUME IndInv, NEW c \in Callers, NEW ending \in Endings, Finish(c, ending) PROVE IndInv'
<1> USE DEF IndInv
<1>0. /\ called /\ on[c] = flights /\ flights \in Flights
      /\ future[flights] = "pending" \/ (future[flights] = "cancelled" /\ flights \in quit)
      /\ pc[c] = "leader"
  BY LastFlight DEF Led, Finish
<1>1. TypeOK'
  BY <1>0 DEF Finish, TypeOK, Places, FutureStates, Answers
<1>2. Led'
  BY <1>0 DEF Finish, TypeOK, Led, CalledOnce
<1>3. Settled' /\ Dropped'
  BY <1>0 DEF Finish, TypeOK, Settled, Dropped, Endings
<1>4. Timely'
  BY <1>0 DEF Finish, TypeOK, Timely
<1>5. NeverStale' /\ OnlyFollowersCancel'
  BY <1>0 DEF Finish, TypeOK, NeverStale, OnlyFollowersCancel, Timely, Endings
<1> QED BY <1>1, <1>2, <1>3, <1>4, <1>5

(* A follower goes on when its future is done.                             *)
LEMMA ResumeStep == ASSUME IndInv, NEW c \in Callers, Resume(c) PROVE IndInv'
<1> USE DEF IndInv
<1>0. /\ pc[c] = "follower" /\ on[c] \in 1 .. flights /\ on[c] \in Flights /\ since[c] <= on[c]
      /\ future[on[c]] \in Endings \union {"cancelled"}
  BY MaxFlightsAssumption DEF Resume, Timely, Settled, TypeOK, FutureStates, Flights
<1>1. TypeOK'
  BY <1>0 DEF Resume, TypeOK, Places, Answers
<1>2. Led' /\ Settled' /\ Dropped'
  BY <1>0 DEF Resume, TypeOK, Led, CalledOnce, Settled, Dropped
<1>3. Timely'
  BY <1>0 DEF Resume, TypeOK, Timely
<1>4. NeverStale' /\ OnlyFollowersCancel'
  BY <1>0 DEF Resume, TypeOK, NeverStale, OnlyFollowersCancel, Settled, Endings
<1> QED BY <1>1, <1>2, <1>3, <1>4

(* The three ways a caller is cancelled.                                   *)
LEMMA CancelStep ==
    ASSUME IndInv, NEW c \in Callers, CancelQueued(c) \/ CancelFollower(c) \/ CancelLeader(c)
    PROVE  IndInv'
<1> USE DEF IndInv
<1>1. CASE CancelQueued(c)
  <2>1. TypeOK'
    BY <1>1 DEF CancelQueued, TypeOK, Places, Answers
  <2>2. Led' /\ Settled' /\ Dropped' /\ Timely'
    BY <1>1 DEF CancelQueued, TypeOK, Led, CalledOnce, Settled, Dropped, Timely
  <2>3. NeverStale' /\ OnlyFollowersCancel'
    BY <1>1 DEF CancelQueued, TypeOK, NeverStale, OnlyFollowersCancel, Endings
  <2> QED BY <2>1, <2>2, <2>3
<1>2. CASE CancelFollower(c)
  <2>0. on[c] \in Flights /\ on[c] <= flights
    BY <1>2, MaxFlightsAssumption DEF CancelFollower, Timely, TypeOK, Flights
  <2>1. TypeOK'
    BY <1>2, <2>0 DEF CancelFollower, TypeOK, FutureStates
  <2>2. Led' /\ Settled' /\ Dropped'
    BY <1>2, <2>0 DEF CancelFollower, TypeOK, Led, CalledOnce, Settled, Dropped, Flights
  <2>3. Timely' /\ NeverStale' /\ OnlyFollowersCancel'
    BY <1>2, <2>0 DEF CancelFollower, TypeOK, Timely, NeverStale, OnlyFollowersCancel
  <2> QED BY <2>1, <2>2, <2>3
<1>3. CASE CancelLeader(c)
  <2>0. called /\ on[c] = flights /\ flights \in Flights
    BY <1>3 DEF CancelLeader, Led
  <2>1. TypeOK'
    BY <1>3, <2>0 DEF CancelLeader, TypeOK, Places, Answers
  <2>2. Led'
    BY <1>3, <2>0 DEF CancelLeader, TypeOK, Led, CalledOnce
  <2>3. Settled' /\ Dropped'
    BY <1>3, <2>0, LastFlight DEF CancelLeader, TypeOK, Settled, Dropped, Flights
  <2>4. Timely' /\ NeverStale' /\ OnlyFollowersCancel'
    BY <1>3, <2>0 DEF CancelLeader, TypeOK, Timely, NeverStale, OnlyFollowersCancel, Endings
  <2> QED BY <2>1, <2>2, <2>3, <2>4
<1> QED BY <1>1, <1>2, <1>3

(* Stuttering changes nothing.                                             *)
LEMMA StutterStep == ASSUME IndInv, UNCHANGED vars PROVE IndInv'
  BY DEF vars, IndInv, TypeOK, Led, CalledOnce, Settled, Timely, Dropped, NeverStale, OnlyFollowersCancel

(* The inductive invariant holds always.                                   *)
THEOREM Invariance == Spec => []IndInv
<1>1. IndInv /\ [Next]_vars => IndInv'
  BY CallStep, AcquireStep, FinishStep, ResumeStep, CancelStep, StutterStep DEF Next, Step
<1> QED BY <1>1, InitIndInv, PTL DEF Spec

(* Every variable keeps its type.                                          *)
THEOREM TypeCorrect == Spec => []TypeOK
  BY Invariance, PTL DEF IndInv

(* The wrapped function never runs twice at a time (being_called).         *)
THEOREM FunctionCalledOnce == Spec => []CalledOnce
<1>1. IndInv => CalledOnce
  BY DEF IndInv, Led
<1> QED BY <1>1, Invariance, PTL

(* Nobody is answered by a call that had ended before it came.             *)
THEOREM NothingStale == Spec => []NeverStale
  BY Invariance, PTL DEF IndInv

(* A follower can only be stranded by the cancellation of its leader.      *)
THEOREM StrandedByLeadersOnly == Spec => []OnlyDroppedFlightsStrand
<1>1. IndInv => OnlyDroppedFlightsStrand
  BY MaxFlightsAssumption DEF IndInv, Led, Settled, Timely, TypeOK, OnlyDroppedFlightsStrand, Flights
<1> QED BY <1>1, Invariance, PTL

(* A cancellation that reaches a caller nobody cancelled came from a        *)
(* follower of its flight.                                                 *)
THEOREM CancelledByFollowersOnly == Spec => []OnlyFollowersCancel
  BY Invariance, PTL DEF IndInv

----------------------------------------------------------------------------
(* The refinement: every step of CallOnce is a step of SingleFlight, or     *)
(* leaves the promise's variables as they are.                             *)

PromiseStep == [Promise!Next]_<<Inside, Leading, Owed, Answered>>

(* The flights that ended: all but the one under way and the dropped ones. *)
LEMMA EndedFact ==
    ASSUME IndInv
    PROVE  Ended = {f \in 1 .. flights : f \notin dropped /\ ~(called /\ f = flights)}
  BY DEF IndInv, Led, Ended

(* The same in the next state.                                             *)
LEMMA EndedFactNext ==
    ASSUME IndInv'
    PROVE  Ended' = {f \in 1 .. flights' : f \notin dropped' /\ ~(called' /\ f = flights')}
  BY DEF IndInv, Led, Ended

(* A caller that comes is not owed: every flight that ended did so before.  *)
LEMMA NotOwedYet ==
    ASSUME IndInv, NEW c \in Callers, since[c] = IF called THEN flights ELSE flights + 1
    PROVE  ~\E f \in Ended : since[c] <= f
  BY EndedFact DEF IndInv, TypeOK

(* A caller that gets past the lock leads a run, or is inside and not owed, *)
(* or is refused at once because a follower has cancelled the flight.      *)
LEMMA EnterPromise ==
    ASSUME IndInv, IndInv', NEW c \in Callers, Call(c) \/ Acquire(c)
    PROVE  PromiseStep
<1> USE MaxFlightsAssumption DEF IndInv, TypeOK
<1>0. /\ \A d \in Callers \ {c} : since'[d] = since[d]
      /\ dropped' = dropped
      /\ Call(c) => pc[c] = "out" /\ since'[c] = IF called THEN flights ELSE flights + 1
      /\ Acquire(c) => pc[c] = "queued" /\ since'[c] = since[c]
  BY CalledIffRunning DEF Call, Acquire
<1>1. CASE Lead(c)
  <2>1. Leading = {} /\ Leading' = {c}
    BY <1>1 DEF Lead, Leading, Led
  <2>2. Inside' = Inside \union {c}
    BY <1>1 DEF Lead, Inside
  <2>3. Ended' = Ended
    <3>1. ~called /\ called' /\ flights \in Nat /\ flights' = flights + 1
      BY <1>1 DEF Lead
    <3>2. Ended = {f \in 1 .. flights : f \notin dropped}
      BY <3>1, EndedFact
    <3>3. Ended' = {f \in 1 .. flights + 1 : f \notin dropped /\ f # flights + 1}
      BY <1>0, <3>1, EndedFactNext
    <3> QED BY <3>1, <3>2, <3>3
  <2>4. \A d \in Callers \ {c} : pc'[d] = pc[d] /\ got'[d] = got[d]
    BY <1>1 DEF Lead
  <2>5. pc'[c] = "leader"
    BY <1>1 DEF Lead
  <2>6. Owed' = Owed \ {c} /\ Answered' = Answered \ {c}
    BY <1>0, <2>3, <2>4, <2>5 DEF Owed, Answered
  <2> QED BY <2>1, <2>2, <2>6 DEF PromiseStep, Promise!Next, Promise!Lead
<1>2. CASE Follow(c)
  <2>0. /\ called /\ UNCHANGED <<called, flights, future>>
        /\ \A d \in Callers \ {c} : pc'[d] = pc[d] /\ got'[d] = got[d]
        /\ pc[c] \in {"out", "queued"}
        /\ \/ pc'[c] = "follower" /\ got'[c] = got[c]
           \/ pc'[c] = "out" /\ got'[c] = "cancelled"
    BY <1>0, <1>2, LastFlight DEF Follow
  <2>1. Leading' = Leading /\ Ended' = Ended
    BY <1>0, <2>0, EndedFact, EndedFactNext DEF Leading
  <2>2. Answered' = Answered \ {c}
    BY <2>0 DEF Answered, Endings
  <2>3. CASE Call(c)
    <3>1. c \notin Inside /\ Inside' \in {Inside, Inside \union {c}}
      BY <1>0, <2>0, <2>3 DEF Inside
    <3>2. ~\E f \in Ended' : since'[c] <= f
      BY <1>0, <2>0, <2>1, <2>3, EndedFact
    <3>3. Owed' = Owed
      BY <1>0, <2>0, <2>1, <2>3, <3>2 DEF Owed
    <3> QED BY <2>1, <2>2, <3>1, <3>3 DEF PromiseStep, Promise!Next, Promise!Enter
  <2>4. CASE Acquire(c)
    <3>1. Answered' = Answered
      BY <1>0, <2>2, <2>4 DEF Answered
    <3>2. CASE pc'[c] = "follower"
      <4>1. Inside' = Inside /\ Owed' = Owed
        BY <1>0, <2>0, <2>1, <2>4, <3>2 DEF Inside, Owed
      <4> QED BY <2>1, <3>1, <4>1 DEF PromiseStep
    <3>3. CASE pc'[c] = "out"
      <4>1. c \in Inside /\ Inside' = Inside \ {c} /\ Owed' = Owed \ {c} /\ c \notin Leading
        BY <1>0, <2>0, <2>1, <2>4, <3>3 DEF Inside, Owed, Leading
      <4>2. Promise!Leave(c)
        BY <2>1, <3>1, <4>1 DEF Promise!Leave
      <4> QED BY <4>2 DEF PromiseStep, Promise!Next
    <3> QED BY <2>0, <3>2, <3>3
  <2> QED BY <2>3, <2>4
<1>3. CASE ~(Lead(c) \/ Follow(c))
  <2>1. /\ Call(c) /\ pc' = [pc EXCEPT ![c] = "queued"]
        /\ UNCHANGED <<called, flights, got>>
    BY <1>3 DEF Call, Acquire
  <2>2. Inside' = Inside \union {c} /\ c \notin Inside /\ Leading' = Leading
    BY <1>0, <2>1 DEF Inside, Leading
  <2>3. Ended' = Ended
    BY <1>0, <2>1, EndedFact, EndedFactNext
  <2>4. ~\E f \in Ended' : since'[c] <= f
    BY <1>0, <2>1, <2>3, EndedFact
  <2>5. Owed' = Owed /\ Answered' = Answered \ {c}
    BY <1>0, <2>1, <2>3, <2>4 DEF Owed, Answered
  <2> QED BY <2>2, <2>5 DEF PromiseStep, Promise!Next, Promise!Enter
<1> QED BY <1>1, <1>2, <1>3

(* A flight that ends makes everybody inside owed.                         *)
LEMMA FinishPromise ==
    ASSUME IndInv, IndInv', NEW c \in Callers, NEW ending \in Endings, Finish(c, ending)
    PROVE  Promise!End(c)
<1> USE DEF IndInv, TypeOK
<1>0. /\ pc[c] = "leader" /\ pc' = [pc EXCEPT ![c] = "out"]
      /\ called /\ ~called' /\ flights' = flights /\ since' = since /\ dropped' = dropped
      /\ flights \in Flights /\ flights \notin dropped
      /\ \A d \in Callers \ {c} : got'[d] = got[d]
  BY LastFlight DEF Finish, Led, Dropped
<1>1. Leading = {c} /\ Leading' = {}
  BY <1>0 DEF Leading, Led, CalledOnce
<1>2. Inside' = Inside \ {c}
  BY <1>0 DEF Inside
<1>3. \A d \in Callers : pc[d] # "out" => since[d] <= flights
  BY <1>0 DEF Timely
<1>4. \A d \in Callers \ {c} : pc[d] # "out" <=> pc[d] \in {"queued", "follower"}
  BY <1>0, <1>1 DEF Leading, Places
<1>5. flights \in Ended'
  BY <1>0, EndedFactNext DEF Flights
<1>6. Owed' = Inside \ {c}
  BY <1>0, <1>3, <1>4, <1>5 DEF Owed, Inside
<1>7. Answered' \in {Answered, Answered \union {c}}
  BY <1>0 DEF Answered
<1> QED BY <1>1, <1>2, <1>6, <1>7 DEF Promise!End

(* A follower that goes on was owed, or leaves without an answer.          *)
LEMMA ResumePromise ==
    ASSUME IndInv, IndInv', NEW c \in Callers, Resume(c)
    PROVE  PromiseStep
<1> USE DEF IndInv, TypeOK
<1>0. /\ pc[c] = "follower" /\ pc' = [pc EXCEPT ![c] = "out"] /\ future[on[c]] # "pending"
      /\ got' = [got EXCEPT ![c] = IF asked[c] THEN "cancelled" ELSE future[on[c]]]
      /\ UNCHANGED <<called, flights, since, dropped>>
  BY DEF Resume
<1>1. Ended' = Ended
  BY <1>0, EndedFact, EndedFactNext
<1>2. Inside' = Inside \ {c} /\ c \in Inside /\ Leading' = Leading /\ c \notin Leading /\ Owed' = Owed \ {c}
  BY <1>0, <1>1 DEF Inside, Leading, Owed
<1>3. CASE got'[c] \in Endings
  <2>1. on[c] \in Flights /\ on[c] <= flights /\ since[c] <= on[c]
    BY <1>0, MaxFlightsAssumption DEF Timely, Flights
  <2>2. future[on[c]] \in Endings
    BY <1>0, <1>3 DEF Endings
  <2>3. on[c] \in Ended
    <3>1. on[c] \notin dropped
      BY <2>2 DEF Dropped, Endings
    <3>2. ~(called /\ on[c] = flights)
      BY <2>2, LastFlight DEF Endings
    <3> QED BY <2>1, <3>1, <3>2, EndedFact DEF Flights
  <2>4. c \in Owed
    BY <1>0, <2>1, <2>3 DEF Owed
  <2>5. Answered' = Answered \union {c}
    BY <1>0, <1>3 DEF Answered
  <2> QED BY <1>2, <2>4, <2>5 DEF PromiseStep, Promise!Next, Promise!Answer
<1>4. CASE got'[c] \notin Endings
  <2>1. Answered' = Answered
    BY <1>0, <1>4 DEF Answered
  <2>2. Promise!Leave(c)
    BY <1>2, <2>1 DEF Promise!Leave
  <2> QED BY <2>2 DEF PromiseStep, Promise!Next
<1> QED BY <1>3, <1>4

(* A cancelled caller leaves; a follower is only asked to.                 *)
LEMMA CancelPromise ==
    ASSUME IndInv, IndInv', NEW c \in Callers, CancelQueued(c) \/ CancelFollower(c) \/ CancelLeader(c)
    PROVE  PromiseStep
<1> USE DEF IndInv, TypeOK
<1>1. CASE CancelFollower(c)
  <2>1. UNCHANGED <<pc, called, flights, got, since, dropped>>
    BY <1>1 DEF CancelFollower
  <2>2. Ended' = Ended
    BY <2>1, EndedFact, EndedFactNext
  <2> QED BY <2>1, <2>2 DEF PromiseStep, Inside, Leading, Owed, Answered
<1>2. CASE CancelQueued(c) \/ CancelLeader(c)
  <2>1. /\ pc[c] # "out" /\ pc' = [pc EXCEPT ![c] = "out"] /\ got' = [got EXCEPT ![c] = "cancelled"]
        /\ UNCHANGED <<flights, since>>
    BY <1>2 DEF CancelQueued, CancelLeader
  <2>2. Ended' = Ended
    <3>1. CASE CancelQueued(c)
      BY <2>1, <3>1, EndedFact, EndedFactNext DEF CancelQueued
    <3>2. CASE CancelLeader(c)
      <4>1. called /\ on[c] = flights /\ ~called' /\ dropped' = dropped \union {flights}
        BY <3>2 DEF CancelLeader, Led
      <4> QED BY <2>1, <4>1, EndedFact, EndedFactNext
    <3> QED BY <1>2, <3>1, <3>2
  <2>3. c \in Inside /\ Inside' = Inside \ {c} /\ Leading' = Leading \ {c} /\ Owed' = Owed \ {c}
    BY <2>1, <2>2 DEF Inside, Leading, Owed
  <2>4. Answered' = Answered
    BY <2>1 DEF Answered, Endings
  <2> QED BY <2>3, <2>4 DEF PromiseStep, Promise!Next, Promise!Leave
<1> QED BY <1>1, <1>2

(* call_once keeps its promise, whoever is cancelled and when.             *)
THEOREM Refinement == Spec => SharesFlights
<1>1. Init => Promise!Init
  BY DEF Init, Promise!Init, Inside, Leading, Owed, Answered, Endings
<1>2. ASSUME IndInv, IndInv', [Next]_vars PROVE PromiseStep
  <2>1. CASE UNCHANGED vars
    BY <2>1 DEF vars, PromiseStep, Inside, Leading, Owed, Answered, Ended
  <2>2. ASSUME NEW c \in Callers, Step(c) PROVE PromiseStep
    <3>1. CASE \E ending \in Endings : Finish(c, ending)
      BY <1>2, <3>1, FinishPromise DEF PromiseStep, Promise!Next
    <3> QED BY <1>2, <2>2, <3>1, EnterPromise, ResumePromise, CancelPromise DEF Step
  <2> QED BY <1>2, <2>1, <2>2 DEF Next
<1> QED BY <1>1, <1>2, Invariance, PTL DEF Spec, SharesFlights, PromiseStep, Promise!Spec, Promise!vars
=============================================================================
