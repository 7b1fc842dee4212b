----------------------------- MODULE JobsProofs -----------------------------
(***************************************************************************)
(* Proofs about Jobs, for every set of calls, modulus and number of ids.   *)
(*                                                                         *)
(* The id of a request says which request it is only up to a full turn of  *)
(* the counter.  The inductive invariant keeps, for each id that is known  *)
(* to a caller or to the server, how far the counter has moved since it    *)
(* was handed out (Tracks), and from it that an id shared by a caller and  *)
(* an unanswered request is either the same request or a turn away (Paired).*)
(***************************************************************************)
EXTENDS Jobs, TLAPS

USE UmAssumption, ModulusAssumption, MaxSerialAssumption

Turn == Modulus - 1

(* The n-th id handed out is j, and unless that was more than a turn ago   *)
(* the counter is exactly as far past j as ids have been handed out since. *)
Behind(n, j) ==
    /\ n <= serial
    /\ serial - n <= Turn => \/ currentJobId - j = serial - n
                             \/ currentJobId - j = serial - n - Turn

Far(m, n) == m = n \/ m - n >= Turn \/ n - m >= Turn

Issued == {c \in Calls : born[c] > 0}

Started ==
    \A c \in Calls : /\ pc[c] = "idle" => fut[c] = "none"
                     /\ fut[c] # "none" => c \in Issued

Tracks ==
    /\ \A c \in Issued : job[c] > 0 /\ Behind(born[c], job[c])
    /\ \A r \in atServer : Behind(r.serial, r.job)

Paired == \A c \in Issued, r \in atServer : job[c] = r.job => Far(born[c], r.serial)

IndInv ==
    /\ TypeOK
    /\ NoSettledListener
    /\ NoLostWaiter
    /\ Started
    /\ Tracks
    /\ Paired
    /\ Correlated

----------------------------------------------------------------------------
(* Remainders below the modulus, and of the modulus itself.                *)
LEMMA ModSmall ==
    ASSUME NEW x \in Nat, x < Modulus
    PROVE  x % Modulus = x
  OBVIOUS

(* The case in which "or 1" applies.                                       *)
LEMMA ModSelf == Modulus % Modulus = 0
  OBVIOUS

(* next_job_id stays in 1 .. Modulus - 1 and goes up by one or back to 1.  *)
LEMMA NextJobIdFact ==
    ASSUME NEW x \in 0 .. Modulus - 1
    PROVE  NextJobId(x) = IF x + 1 = Modulus THEN 1 ELSE x + 1
<1>1. CASE x + 1 = Modulus
  BY <1>1, ModSelf DEF NextJobId
<1>2. CASE x + 1 < Modulus
  BY <1>2, ModSmall DEF NextJobId
<1> QED BY <1>1, <1>2

(* Handing out the next id moves the counter one past every id known.      *)
LEMMA TakeJobIdBehind ==
    ASSUME TypeOK, TakeJobId,
           NEW n \in 1 .. MaxSerial, NEW j \in 1 .. Modulus - 1, Behind(n, j)
    PROVE  /\ Behind(n, j)'
           /\ currentJobId' = j => Far(n, serial')
           /\ currentJobId' \in 1 .. Modulus - 1
           /\ serial' \in 1 .. MaxSerial
<1>1. currentJobId' = IF currentJobId + 1 = Modulus THEN 1 ELSE currentJobId + 1
  BY NextJobIdFact DEF TypeOK, TakeJobId
<1> QED BY <1>1 DEF TypeOK, Serials, TakeJobId, Behind, Far, Turn

(* The id just handed out is a legal one, and the counter stands at it.    *)
LEMMA TakeJobIdFact ==
    ASSUME TypeOK, TakeJobId
    PROVE  /\ currentJobId' \in 1 .. Modulus - 1
           /\ serial' \in 1 .. MaxSerial
           /\ Behind(serial, currentJobId)'
           /\ \A um \in BOOLEAN : Transmit(um) => atServer' \subseteq Requests
<1>1. currentJobId' = IF currentJobId + 1 = Modulus THEN 1 ELSE currentJobId + 1
  BY NextJobIdFact DEF TypeOK, TakeJobId
<1>2. /\ currentJobId' \in 1 .. Modulus - 1
      /\ serial' \in 1 .. MaxSerial
      /\ Behind(serial, currentJobId)'
  BY <1>1 DEF TypeOK, Serials, TakeJobId, Behind, Turn
<1>3. ASSUME NEW um \in BOOLEAN
      PROVE  [serial |-> serial', job |-> currentJobId', um |-> um] \in Requests
  BY <1>2 DEF Requests
<1> QED BY <1>2, <1>3 DEF TypeOK, Transmit

(* Nothing is listed, known or settled at first.                           *)
LEMMA InitIndInv == Init => IndInv
  BY DEF Init, IndInv, TypeOK, Serials, Requests, NoSettledListener, NoLostWaiter, Started,
         Tracks, Paired, Correlated, Issued

(* A new call is listed with an id that only requests a turn away share.   *)
LEMMA RequestStep ==
    ASSUME IndInv, NEW c \in Calls, Request(c)
    PROVE  IndInv'
<1> USE DEF IndInv
<1>1. TypeOK'
  <2> DEFINE um == c \in UmCalls
  <2>0. um \in BOOLEAN /\ Transmit(um)
    BY DEF Request
  <2> HIDE DEF um
  <2>1. /\ atServer' \subseteq Requests
        /\ currentJobId' \in 1 .. Modulus - 1
        /\ serial' \in 1 .. MaxSerial
    BY <2>0, TakeJobIdFact DEF Request
  <2>2. /\ job' \in [Calls -> 0 .. Modulus - 1]
        /\ born' \in [Calls -> Serials]
        /\ serial' \in Serials
    BY <2>1 DEF TypeOK, Serials, Request
  <2> QED BY <2>1, <2>2 DEF TypeOK, Request
<1>2. (NoSettledListener /\ NoLostWaiter /\ Started)'
  BY TakeJobIdFact DEF TypeOK, NoSettledListener, NoLostWaiter, Started, Issued, Request
<1>3. Tracks'
  BY TakeJobIdFact, TakeJobIdBehind DEF TypeOK, Serials, Requests, Tracks, Issued, Request, Transmit
<1>4. Paired'
  BY TakeJobIdFact, TakeJobIdBehind DEF TypeOK, Serials, Requests, Tracks, Paired, Issued, Request, Transmit, Far
<1>5. Correlated'
  BY DEF TypeOK, Started, Correlated, Request
<1> QED BY <1>1, <1>2, <1>3, <1>4, <1>5

(* The id of a request nobody waits for is apart from every caller's too.  *)
LEMMA SendUmStep == IndInv /\ SendUm => IndInv'
<1> SUFFICES ASSUME IndInv, SendUm PROVE IndInv'
  OBVIOUS
<1> USE DEF IndInv
<1>1. TypeOK'
  <2>1. /\ atServer' \subseteq Requests
        /\ currentJobId' \in 1 .. Modulus - 1
        /\ serial' \in 1 .. MaxSerial
    BY TakeJobIdFact DEF SendUm
  <2> QED BY <2>1 DEF TypeOK, Serials, SendUm
<1>2. (NoSettledListener /\ NoLostWaiter /\ Started /\ Correlated)'
  BY DEF TypeOK, NoSettledListener, NoLostWaiter, Started, Correlated, Issued, SendUm
<1>3. Tracks'
  BY TakeJobIdFact, TakeJobIdBehind DEF TypeOK, Serials, Requests, Tracks, Issued, SendUm, Transmit
<1>4. Paired'
  BY TakeJobIdFact, TakeJobIdBehind DEF TypeOK, Serials, Requests, Tracks, Paired, Issued, SendUm, Transmit, Far
<1> QED BY <1>1, <1>2, <1>3, <1>4

(* Resuming or cancelling a caller disturbs no listener but its own.       *)
LEMMA CallerStep ==
    ASSUME IndInv, NEW c \in Calls, Sent(c) \/ Return(c) \/ Cancel(c)
    PROVE  IndInv'
<1> USE DEF IndInv
<1>1. (TypeOK /\ NoSettledListener /\ NoLostWaiter /\ Started)'
  BY DEF TypeOK, NoSettledListener, NoLostWaiter, Started, Issued, Sent, Return, Cancel
<1>2. (Tracks /\ Paired)'
  BY DEF Tracks, Paired, Issued, Behind, Far, Sent, Return, Cancel
<1>3. Correlated'
  BY DEF TypeOK, Correlated, Sent, Return, Cancel
<1> QED BY <1>1, <1>2, <1>3

(* An answer settles the calls that hold its id, which Paired accounts for.*)
LEMMA AnswerStep ==
    ASSUME IndInv, NEW r \in atServer, Answer(r)
    PROVE  IndInv'
<1> USE DEF IndInv
<1> DEFINE m == [um |-> r.um, target |-> r.job, serial |-> r.serial]
<1>0. /\ m.um = r.um /\ m.target = r.job /\ m.serial = r.serial
      /\ r.serial \in 1 .. MaxSerial /\ Dispatch(m)
  BY DEF TypeOK, Requests, Answer
<1> HIDE DEF m
<1>1. TypeOK'
  BY <1>0 DEF TypeOK, Serials, Answer, Dispatch
<1>2. (NoSettledListener /\ NoLostWaiter /\ Started)'
  BY <1>0 DEF TypeOK, NoSettledListener, NoLostWaiter, Started, Issued, Answer, Dispatch, Accepts, Removed
<1>3. (Tracks /\ Paired)'
  BY DEF Tracks, Paired, Issued, Behind, Far, Answer
<1>4. Correlated'
  <2> SUFFICES ASSUME NEW c \in Calls, fut'[c] = "result"
               PROVE  /\ answered'[c] # 0
                      /\ \/ answered'[c] = born[c]
                         \/ answered'[c] - born[c] >= Turn
                         \/ born[c] - answered'[c] >= Turn
    BY DEF Correlated, Answer, Turn
  <2>1. CASE c \in listeners /\ Accepts(c, m)
    <3>1. c \in Issued /\ job[c] = r.job /\ answered'[c] = r.serial
      BY <1>0, <2>1 DEF TypeOK, Accepts, Dispatch, NoSettledListener, Started
    <3>2. Far(born[c], r.serial)
      BY <3>1 DEF Paired
    <3> QED BY <1>0, <3>1, <3>2 DEF Far
  <2>2. CASE ~(c \in listeners /\ Accepts(c, m))
    BY <1>0, <2>2 DEF TypeOK, Dispatch, Correlated, Turn
  <2> QED BY <2>1, <2>2
<1> QED BY <1>1, <1>2, <1>3, <1>4

(* A message with no target settles nothing: no id is 0.                   *)
LEMMA PushStep ==
    ASSUME IndInv, NEW um \in BOOLEAN, Push(um)
    PROVE  IndInv'
<1> USE DEF IndInv
<1> DEFINE m == [um |-> um, target |-> 0, serial |-> 0]
<1>0. m.um = um /\ m.target = 0 /\ m.serial = 0 /\ Dispatch(m)
  BY DEF Push
<1> HIDE DEF m
<1>1. \A c \in listeners : m.target # job[c] \/ fut[c] = "cancelled"
  <2> SUFFICES ASSUME NEW c \in listeners, fut[c] # "cancelled" PROVE job[c] # 0
    BY <1>0
  <2>1. c \in Calls /\ fut[c] = "pending"
    BY DEF TypeOK, NoSettledListener
  <2>2. c \in Issued
    BY <2>1 DEF Started
  <2> QED BY <2>1, <2>2 DEF TypeOK, Tracks
<1>2. fut' = fut /\ answered' = answered
  BY <1>0, <1>1 DEF TypeOK, Dispatch, Accepts
<1>3. (TypeOK /\ NoSettledListener /\ NoLostWaiter /\ Started)'
  BY <1>0, <1>1, <1>2 DEF TypeOK, NoSettledListener, NoLostWaiter, Started, Issued, Push, Dispatch, Removed
<1>4. (Tracks /\ Paired)'
  BY DEF Tracks, Paired, Issued, Behind, Far, Push
<1>5. Correlated'
  BY <1>2 DEF Correlated, Push
<1> QED BY <1>3, <1>4, <1>5

(* A message receive() gives up on changes no listener.                    *)
LEMMA DiscardStep ==
    ASSUME IndInv, NEW r \in atServer, Discard(r)
    PROVE  IndInv'
<1> USE DEF IndInv
<1>0. r.serial \in Serials
  BY DEF TypeOK, Requests, Serials
<1>1. (TypeOK /\ NoSettledListener /\ NoLostWaiter /\ Started)'
  BY <1>0 DEF TypeOK, NoSettledListener, NoLostWaiter, Started, Issued, Discard
<1>2. (Tracks /\ Paired)'
  BY DEF Tracks, Paired, Issued, Behind, Far, Discard
<1>3. Correlated'
  BY DEF Correlated, Discard
<1> QED BY <1>1, <1>2, <1>3

(* Closing the socket changes no listener.                                 *)
LEMMA UnchangedStep == IndInv /\ (Close \/ UNCHANGED vars) => IndInv'
  BY DEF IndInv, TypeOK, NoSettledListener, NoLostWaiter, Started, Tracks, Paired, Correlated,
         Issued, Behind, Far, Close, vars

----------------------------------------------------------------------------
(* The inductive invariant: every action of the specification keeps it.    *)
THEOREM Invariance == Spec => []IndInv
<1>1. IndInv /\ [Next]_vars => IndInv'
  BY RequestStep, SendUmStep, CallerStep, AnswerStep, PushStep, DiscardStep, UnchangedStep DEF Next
<1> QED BY InitIndInv, <1>1, PTL DEF Spec

(* The variables keep their types: job ids stay within the counter's range.*)
THEOREM TypeCorrect == Spec => []TypeOK
<1>1. IndInv => TypeOK
  BY DEF IndInv
<1> QED BY Invariance, <1>1, PTL

(* receive() never settles a future twice, whatever the calls and ids.     *)
THEOREM NeverSettledTwice == Spec => []NoSettledListener
<1>1. IndInv => NoSettledListener
  BY DEF IndInv
<1> QED BY Invariance, <1>1, PTL

(* A pending future is always listed, so its answer finds it.              *)
THEOREM NoWakeupLost == Spec => []NoLostWaiter
<1>1. IndInv => NoLostWaiter
  BY DEF IndInv
<1> QED BY Invariance, <1>1, PTL

(* A call returns the answer to its own request unless the counter has     *)
(* gone a full turn, and never an unsolicited message.                     *)
THEOREM Correlation == Spec => []Correlated
<1>1. IndInv => Correlated
  BY DEF IndInv
<1> QED BY Invariance, <1>1, PTL

(* No message, request, cancellation or closing changes the result of a    *)
(* future that has one: its listener has left the list by then.            *)
THEOREM ResultsStay == Spec => ResultsAreFinal
<1> DEFINE Final == \A c \in Calls : fut[c] = "result" => fut'[c] = "result" /\ answered'[c] = answered[c]
<1>1. IndInv /\ [Next]_vars => Final
  <2> SUFFICES ASSUME IndInv, [Next]_vars, NEW d \in Calls, fut[d] = "result"
               PROVE  fut'[d] = "result" /\ answered'[d] = answered[d]
    OBVIOUS
  <2>1. d \notin listeners /\ pc[d] # "idle"
    BY DEF IndInv, NoSettledListener, Started
  <2>2. ASSUME NEW m, Dispatch(m)
        PROVE  fut'[d] = "result" /\ answered'[d] = answered[d]
    BY <2>1, <2>2 DEF Dispatch
  <2>3. ASSUME NEW r \in atServer, Answer(r)
        PROVE  fut'[d] = "result" /\ answered'[d] = answered[d]
    BY <2>2, <2>3 DEF Answer
  <2>4. ASSUME NEW um \in BOOLEAN, Push(um)
        PROVE  fut'[d] = "result" /\ answered'[d] = answered[d]
    BY <2>2, <2>4 DEF Push
  <2>5. ASSUME NEW c \in Calls, Request(c) \/ Sent(c) \/ Return(c) \/ Cancel(c)
        PROVE  fut'[d] = "result" /\ answered'[d] = answered[d]
    BY <2>1, <2>5 DEF IndInv, TypeOK, Request, Sent, Return, Cancel
  <2>6. CASE SendUm \/ Close \/ UNCHANGED vars \/ \E r \in atServer : Discard(r)
    BY <2>6 DEF SendUm, Close, Discard, vars
  <2> QED BY <2>3, <2>4, <2>5, <2>6 DEF Next
<1> QED BY Invariance, <1>1, PTL DEF ResultsAreFinal, Spec
=============================================================================
