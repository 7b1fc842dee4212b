---------------------------- MODULE StartupProofs ----------------------------
(***************************************************************************)
(* What holds of the licenses, for any packages, calls and lists, and of   *)
(* the friends, for any users and lists, while the client gets ready.      *)
(*                                                                         *)
(* Steps of Friends and of dispatch_ready leave the licenses alone, steps  *)
(* of Licenses leave the friends alone, and while a session is lost no     *)
(* task of it goes on.                                                     *)
(***************************************************************************)
EXTENDS Startup, FiniteSetTheorems, TLAPS

\* A step of Licenses in a session that is not lost.
LicensesStep ==
    /\ ~lost
    /\ \/ SendAgain
       \/ \E k \in 1..MaxLists : LicenseHandler(k)
       \/ \E c \in Calls : Ask(c) \/ Grant(c) \/ Fail(c) \/ Cancel(c) \/ LicenseCall(c)

LEMMA StepOfLicenses == [Next]_vars => LicensesStep \/ UNCHANGED <<licensing, lost>>
<1> SUFFICES ASSUME [Next]_vars PROVE LicensesStep \/ UNCHANGED <<licensing, lost>>
    OBVIOUS
<1>1. CASE LoginCompletes /\ UNCHANGED <<befriending, licensing, ready, extra>>
  BY <1>1 DEF LoginCompletes
<1>2. CASE Outside
  <2>1. CASE Changes /\ UNCHANGED <<licensing, extra>>
    BY <2>1 DEF Changes, Change, logon
  <2> QED
    BY <1>2, <2>1 DEF Outside, LicensesStep
<1>3. CASE FriendsHandlers
  <2>1. UNCHANGED logon
    BY <1>3 DEF FriendsHandlers, FriendsHandler, Begin, EntryFriend, EntryRequest, EntryNone,
                EndOfList, FriendFetched, InviteeFetched, Loaded
  <2> QED
    BY <1>3, <2>1 DEF FriendsHandlers, logon
<1>4. CASE LicensesHandler \/ \E c \in Calls : Answered(c) \/ Called(c) \/ Licensing(Cancel(c))
  <2>1. CASE LicensesHandler
    BY <2>1 DEF LicensesHandler, Licensing, LicensesStep
  <2>2. ASSUME NEW c \in Calls, Answered(c) \/ Called(c) \/ Licensing(Cancel(c)) PROVE LicensesStep
    BY <2>2 DEF Answered, Called, Licensing, LicensesStep, LicenseCall
  <2> QED
    BY <1>4, <2>1, <2>2
<1>5. CASE FriendsReady \/ LicensesReady
  BY <1>5 DEF FriendsReady, LicensesReady, logon
<1>6. CASE UNCHANGED vars
  BY <1>6 DEF vars, logon
<1> QED
  BY <1>1, <1>2, <1>3, <1>4, <1>5, <1>6 DEF Next

----------------------------------------------------------------------------
(* Types *)

LEMMA LicensesTypesInit == Init => LicensesTypeOK
<1> SUFFICES ASSUME Init PROVE LicensesTypeOK
    OBVIOUS
<1>1. lists \in Seq(SUBSET Packages) /\ Len(lists) = 1
  BY DEF Init, LicensesInit
<1>2. 1 <= MaxLists
  BY StartupAssumption
<1>3. \A c \in Calls : c # NoCall
  BY LicensesAssumption
<1> QED
  BY <1>1, <1>2, <1>3 DEF Init, LicensesInit, LicensesTypeOK, CallSteps

\* What the steps of the calls keep.
LEMMA CallMoves ==
    ASSUME LicensesTypeOK, NEW c \in Calls, NEW s \in CallSteps,
           call' = [call EXCEPT ![c] = s],
           \/ holder' = holder /\ (call[c] \in {"asking", "granted", "waiting", "unwinding"}
                                   <=> s \in {"asking", "granted", "waiting", "unwinding"})
           \/ holder = NoCall /\ holder' = c /\ s \in {"asking", "granted", "waiting", "unwinding"}
           \/ holder = c /\ holder' = NoCall /\ s \notin {"asking", "granted", "waiting", "unwinding"}
    PROVE  /\ call' \in [Calls -> CallSteps]
           /\ holder' \in Calls \union {NoCall}
           /\ \A d \in Calls : holder' = d <=> call'[d] \in {"asking", "granted", "waiting", "unwinding"}
<1>1. call' \in [Calls -> CallSteps] /\ holder' \in Calls \union {NoCall}
  BY DEF LicensesTypeOK
<1>2. call'[c] = s /\ \A d \in Calls \ {c} : call'[d] = call[d]
  BY DEF LicensesTypeOK
<1>3. ASSUME NEW d \in Calls
      PROVE  holder' = d <=> call'[d] \in {"asking", "granted", "waiting", "unwinding"}
  <2>1. holder = d <=> call[d] \in {"asking", "granted", "waiting", "unwinding"}
    BY DEF LicensesTypeOK
  <2>2. d # NoCall /\ c # NoCall
    BY LicensesAssumption
  <2>3. CASE d = c
    BY <1>2, <2>1, <2>2, <2>3
  <2>4. CASE d # c
    BY <1>2, <2>1, <2>2, <2>4
  <2> QED
    BY <2>3, <2>4
<1> QED
  BY <1>1, <1>3

\* How each step of a call moves it.
LEMMA HowCallsMove ==
    ASSUME LicensesTypeOK, NEW c \in Calls,
           Ask(c) \/ Grant(c) \/ Fail(c) \/ Cancel(c) \/ LicenseCall(c)
    PROVE  /\ call' \in [Calls -> CallSteps]
           /\ holder' \in Calls \union {NoCall}
           /\ \A d \in Calls : holder' = d <=> call'[d] \in {"asking", "granted", "waiting", "unwinding"}
<1>1. holder = c <=> call[c] \in {"asking", "granted", "waiting", "unwinding"}
  BY DEF LicensesTypeOK
<1>2. \E s \in CallSteps :
        /\ call' = [call EXCEPT ![c] = s]
        /\ \/ holder' = holder /\ (call[c] \in {"asking", "granted", "waiting", "unwinding"}
                                   <=> s \in {"asking", "granted", "waiting", "unwinding"})
           \/ holder = NoCall /\ holder' = c /\ s \in {"asking", "granted", "waiting", "unwinding"}
           \/ holder = c /\ holder' = NoCall /\ s \notin {"asking", "granted", "waiting", "unwinding"}
  BY <1>1 DEF Ask, Grant, Fail, Cancel, LicenseCall, Redeem, Hold, Answer, Return, Unwind, To, CallSteps
<1> QED
  BY <1>2, CallMoves

LEMMA LicensesTypesStep == LicensesTypeOK /\ [Next]_vars => LicensesTypeOK'
<1> SUFFICES ASSUME LicensesTypeOK, [Next]_vars PROVE LicensesTypeOK'
    OBVIOUS
<1>1. CASE UNCHANGED <<licensing, lost>>
  BY <1>1 DEF LicensesTypeOK, licensing, account, past
<1>2. Len(lists) \in Nat /\ MaxLists \in Nat
  BY StartupAssumption DEF LicensesTypeOK
<1>3. ASSUME NEW packages \in SUBSET Packages, SendList(packages)
      PROVE  lists' \in Seq(SUBSET Packages) /\ Len(lists') <= MaxLists /\ Len(lists) <= Len(lists')
  <2>1. lists' = Append(lists, packages) /\ Len(lists) < MaxLists
    BY <1>3 DEF SendList
  <2>2. lists' \in Seq(SUBSET Packages) /\ Len(lists') = Len(lists) + 1
    BY <2>1 DEF LicensesTypeOK
  <2> QED
    BY <1>2, <2>1, <2>2
<1>4. CASE SendAgain
  <2>1. SendList(owned) /\ owned \in SUBSET Packages
    BY <1>4 DEF SendAgain, LicensesTypeOK
  <2>2. lists' \in Seq(SUBSET Packages) /\ Len(lists') <= MaxLists /\ Len(lists) <= Len(lists')
    BY <1>3, <2>1
  <2>3. \A k \in 1..MaxLists : handler[k] # "none" => k <= Len(lists')
    BY <1>2, <2>2 DEF LicensesTypeOK
  <2> QED
    BY <1>4, <2>2, <2>3 DEF SendAgain, LicensesTypeOK, past
<1>5. ASSUME NEW k \in 1..MaxLists, FetchOwners(k) PROVE LicensesTypeOK'
  <2>1. handler' = [handler EXCEPT ![k] = "users"] /\ k <= Len(lists) /\ lists' = lists
    BY <1>2, <1>5 DEF FetchOwners, LicensesTypeOK, account
  <2>2. /\ handler' \in [1..MaxLists -> {"none", "users", "done"}]
        /\ \A j \in 1..MaxLists : handler'[j] # "none" => j <= Len(lists')
    BY <2>1 DEF LicensesTypeOK
  <2> QED
    BY <1>5, <2>1, <2>2 DEF FetchOwners, LicensesTypeOK, account, past
<1>6. ASSUME NEW k \in 1..MaxLists, Store(k) PROVE LicensesTypeOK'
  <2>1. UNCHANGED <<account, holder, call, waited, past>>
    BY <1>6 DEF Store
  <2>2. CASE Raise /\ UNCHANGED <<handler, licenses, handled, fut>>
    BY <2>1, <2>2 DEF LicensesTypeOK, account, past
  <2>3. CASE /\ handler' = [handler EXCEPT ![k] = "done"]
             /\ licenses' = licenses \union lists[k]
             /\ handled' = TRUE
             /\ fut' = [c \in Redeems |-> IF c \in Waiting(k) THEN "result" ELSE fut[c]]
    <3>1. handler[k] # "none" /\ k \in 1..Len(lists)
      BY <1>2, <1>6 DEF Store, LicensesTypeOK
    <3>2. lists[k] \subseteq Packages
      BY <3>1 DEF LicensesTypeOK
    <3>3. /\ handler' \in [1..MaxLists -> {"none", "users", "done"}]
          /\ \A j \in 1..MaxLists : handler'[j] # "none" => j <= Len(lists)
      BY <1>2, <2>3, <3>1 DEF LicensesTypeOK
    <3>4. fut' \in [Redeems -> {"none", "pending", "result", "cancelled"}]
      BY <2>3 DEF LicensesTypeOK
    <3> QED
      BY <2>1, <2>3, <3>2, <3>3, <3>4 DEF LicensesTypeOK, account, past
  <2> QED
    BY <1>6, <2>2, <2>3 DEF Store
<1>7. ASSUME NEW c \in Calls, Ask(c) \/ Grant(c) \/ Fail(c) \/ Cancel(c) \/ LicenseCall(c)
      PROVE  LicensesTypeOK'
  <2>1. /\ call' \in [Calls -> CallSteps]
        /\ holder' \in Calls \union {NoCall}
        /\ \A d \in Calls : holder' = d <=> call'[d] \in {"asking", "granted", "waiting", "unwinding"}
    BY <1>7, HowCallsMove
  <2>2. PackageOf[c] \in Packages
    BY LicensesAssumption
  <2>3. /\ owned' \subseteq Packages /\ again' \subseteq Calls
        /\ lists' \in Seq(SUBSET Packages) /\ Len(lists') <= MaxLists /\ Len(lists) <= Len(lists')
    <3>1. CASE Grant(c)
      <4>1. owned' = owned \union {PackageOf[c]} /\ owned' \in SUBSET Packages
        BY <2>2, <3>1 DEF Grant, LicensesTypeOK
      <4>2. SendList(owned') \/ UNCHANGED lists
        BY <3>1 DEF Grant
      <4>3. again' \subseteq Calls
        BY <3>1 DEF Grant, LicensesTypeOK
      <4>4. CASE UNCHANGED lists
        BY <1>2, <4>1, <4>3, <4>4 DEF LicensesTypeOK
      <4>5. CASE SendList(owned')
        BY <4>1, <4>3, <4>5, <1>3
      <4> QED
        BY <4>2, <4>4, <4>5
    <3>2. CASE ~Grant(c)
      <4>1. UNCHANGED <<owned, again, lists>>
        BY <1>7, <3>2 DEF Ask, Fail, Cancel, LicenseCall, Redeem, Hold, Answer, Return, Unwind, account, past
      <4> QED
        BY <1>2, <4>1 DEF LicensesTypeOK
    <3> QED
      BY <3>1, <3>2
  <2>4. /\ handler' = handler /\ licenses' = licenses /\ handled' \in BOOLEAN
    BY <1>7 DEF Ask, Grant, Fail, Cancel, LicenseCall, Redeem, Hold, Answer, Return, Unwind, LicensesTypeOK
  <2>5. fut' \in [Redeems -> {"none", "pending", "result", "cancelled"}]
    BY <1>7 DEF Ask, Grant, Fail, Cancel, LicenseCall, Redeem, Hold, Answer, Return, Unwind, LicensesTypeOK
  <2>6. waited' \in [Packages -> Redeems \union {NoCall}]
    <3>1. UNCHANGED waited \/ waited' = Drop(c) \/ (c \in Redeems /\ waited' = [waited EXCEPT ![PackageOf[c]] = c])
      BY <1>7 DEF Ask, Grant, Fail, Cancel, LicenseCall, Redeem, Hold, Answer, Return, Unwind
    <3> QED
      BY <2>2, <3>1 DEF Drop, LicensesTypeOK
  <2>7. unheard' \in [Frees -> SUBSET (1..MaxLists)]
    <3>1. UNCHANGED unheard \/ unheard' = [unheard EXCEPT ![c] = {k \in 1..MaxLists : handler[k] # "done"}]
      BY <1>7 DEF Ask, Grant, Fail, Cancel, LicenseCall, Redeem, Hold, Answer, Return, Unwind, past
    <3> QED
      BY <3>1 DEF LicensesTypeOK
  <2>8. \A k \in 1..MaxLists : handler'[k] # "none" => k <= Len(lists')
    BY <1>2, <2>3, <2>4 DEF LicensesTypeOK
  <2> QED
    BY <2>1, <2>3, <2>4, <2>5, <2>6, <2>7, <2>8 DEF LicensesTypeOK
<1> QED
  BY <1>1, <1>4, <1>5, <1>6, <1>7, StepOfLicenses DEF LicensesStep, LicenseHandler

\* The licenses keep their types, and the lock has the call that is inside.
THEOREM LicensesTyped == Spec => []LicensesTypeOK
<1> QED
  BY LicensesTypesInit, LicensesTypesStep, PTL DEF Spec

----------------------------------------------------------------------------
(* What ends the session.                                                  *)
(*                                                                         *)
(* The argument.  A future is found in licenses_being_waited_for only      *)
(* while the call that made it has the lock, and a call's future is        *)
(* cancelled only when the call is about to unwind.  So the handler that   *)
(* finds a future it cannot settle finds one of the calls LostToALicense   *)
(* names; and nothing happens to the calls after that.                     *)

Holding == {"asking", "granted", "waiting", "unwinding"}

WaitedAreHolding == \A p \in Packages : waited[p] # NoCall => call[waited[p]] \in Holding

FutureOfACall ==
    \A c \in Redeems : call[c] \in Holding =>
        fut[c] \in {"pending", "result"} \/ (fut[c] = "cancelled" /\ call[c] = "unwinding")

FutureInv == LicensesTypeOK /\ WaitedAreHolding /\ FutureOfACall /\ LostToALicense

LEMMA FutureInvInit == Init => FutureInv
<1> SUFFICES ASSUME Init PROVE FutureInv
    OBVIOUS
<1>1. WaitedAreHolding /\ FutureOfACall /\ LostToALicense
  BY LicensesAssumption
     DEF Init, LicensesInit, LogonInit, WaitedAreHolding, FutureOfACall, LostToALicense, Holding, Calls
<1> QED
  BY <1>1, LicensesTypesInit DEF FutureInv

\* Once the session is lost the calls stay where they are.
LEMMA LostStays ==
    ASSUME LostToALicense, UNCHANGED <<licensing, lost>> PROVE LostToALicense'
BY DEF LostToALicense, licensing

\* The handler of a list raises, or settles the futures it finds.
LEMMA StoreSettles ==
    ASSUME FutureInv, ~lost, NEW k \in 1..MaxLists, Store(k)
    PROVE  WaitedAreHolding' /\ FutureOfACall' /\ LostToALicense'
<1> USE DEF FutureInv
<1>1. UNCHANGED <<call, waited>>
  BY DEF Store
<1>2. CASE \A c \in Waiting(k) : fut[c] = "pending"
  <2>1. /\ \A c \in Redeems : fut'[c] \in {"result", fut[c]}
        /\ lost' = lost
    BY <1>2 DEF Store, logon
  <2> QED
    BY <1>1, <2>1 DEF WaitedAreHolding, FutureOfACall, LostToALicense
<1>3. CASE ~\A c \in Waiting(k) : fut[c] = "pending"
  <2>1. UNCHANGED fut
    BY <1>3 DEF Store
  <2>2. PICK c \in Waiting(k) : fut[c] # "pending"
    BY <1>3
  <2>3. k \in 1..Len(lists)
    BY StartupAssumption DEF LicensesTypeOK, Store
  <2>4. lists[k] \subseteq Packages
    BY <2>3 DEF LicensesTypeOK
  <2>5. c \in Redeems /\ call[c] \in Holding
    BY <2>4, LicensesAssumption DEF Waiting, WaitedAreHolding, Calls
  <2>6. call[c] = "unwinding" \/ (call[c] \in {"asking", "granted", "waiting"} /\ fut[c] = "result")
    BY <2>2, <2>5 DEF FutureOfACall, Holding
  <2> QED
    BY <1>1, <2>1, <2>5, <2>6 DEF WaitedAreHolding, FutureOfACall, LostToALicense
<1> QED
  BY <1>2, <1>3

\* A call that lets the lock go takes its future with it.
LEMMA CallSettles ==
    ASSUME FutureInv, ~lost, NEW c \in Calls,
           Ask(c) \/ Grant(c) \/ Fail(c) \/ Cancel(c) \/ LicenseCall(c)
    PROVE  WaitedAreHolding' /\ FutureOfACall' /\ LostToALicense'
<1> USE DEF FutureInv
<1>1. lost' = lost
  BY DEF Ask, Grant, Fail, Cancel, LicenseCall, Redeem, Hold, Answer, Return, Unwind, logon
<1>2. /\ \A d \in Calls \ {c} : call'[d] = call[d]
      /\ \A d \in Redeems \ {c} : fut'[d] = fut[d]
  BY DEF Ask, Grant, Fail, Cancel, LicenseCall, Redeem, Hold, Answer, Return, Unwind, To, LicensesTypeOK
<1>3. PackageOf[c] \in Packages /\ NoCall \notin Calls /\ Redeems \subseteq Calls
  BY LicensesAssumption DEF Calls
<1>4. WaitedAreHolding'
  <2>1. CASE Fail(c) \/ Return(c) \/ Unwind(c)
    <3>1. waited' = Drop(c)
      BY <2>1 DEF Fail, Return, Unwind
    <3>2. ASSUME NEW p \in Packages, waited'[p] # NoCall PROVE call'[waited'[p]] \in Holding
      <4>1. waited'[p] = waited[p] /\ waited[p] # c /\ waited[p] \in Calls
        BY <1>3, <3>1, <3>2 DEF Drop, LicensesTypeOK
      <4> QED
        BY <1>2, <4>1, <3>2 DEF WaitedAreHolding
    <3> QED
      BY <3>2 DEF WaitedAreHolding
  <2>2. CASE Redeem(c)
    <3>1. waited' = [waited EXCEPT ![PackageOf[c]] = c] /\ call'[c] = "asking"
      BY <2>2 DEF Redeem, To, LicensesTypeOK
    <3>2. ASSUME NEW p \in Packages, waited'[p] # NoCall PROVE call'[waited'[p]] \in Holding
      <4>1. waited'[p] = c \/ (waited'[p] = waited[p] /\ waited[p] \in Calls)
        <5>1. waited[p] # NoCall => waited[p] \in Calls
          BY <1>3 DEF LicensesTypeOK
        <5>2. waited'[p] = IF p = PackageOf[c] THEN c ELSE waited[p]
          BY <1>3, <3>1 DEF LicensesTypeOK
        <5> QED
          BY <3>2, <5>1, <5>2
      <4> QED
        BY <1>2, <3>1, <3>2, <4>1 DEF WaitedAreHolding, Holding
    <3> QED
      BY <3>2 DEF WaitedAreHolding
  <2>3. CASE Ask(c) \/ Grant(c) \/ Cancel(c) \/ Hold(c) \/ Answer(c)
    <3>1. waited' = waited /\ (call[c] \in Holding => call'[c] \in Holding)
      BY <2>3 DEF Ask, Grant, Cancel, Hold, Answer, To, LicensesTypeOK, Holding
    <3>2. \A p \in Packages : waited[p] # NoCall => waited[p] \in Calls
      BY <1>3 DEF LicensesTypeOK
    <3> QED
      BY <1>2, <3>1, <3>2 DEF WaitedAreHolding
  <2> QED
    BY <2>1, <2>2, <2>3 DEF LicenseCall
<1>5. FutureOfACall'
  <2>1. ASSUME c \in Redeems, call'[c] \in Holding
        PROVE  fut'[c] \in {"pending", "result"} \/ (fut'[c] = "cancelled" /\ call'[c] = "unwinding")
    <3>1. CASE Redeem(c)
      BY <2>1, <3>1 DEF Redeem, LicensesTypeOK
    <3>2. CASE Cancel(c)
      BY <2>1, <3>2 DEF Cancel, To, LicensesTypeOK
    <3>3. CASE Grant(c) \/ Answer(c)
      BY <2>1, <3>3 DEF Grant, Answer, To, LicensesTypeOK, FutureOfACall, Holding
    <3>4. CASE Ask(c) \/ Fail(c) \/ Return(c) \/ Unwind(c)
      BY <2>1, <3>4 DEF Ask, Fail, Return, Unwind, To, LicensesTypeOK, Holding
    <3>5. CASE Hold(c)
      BY <2>1, <3>5, LicensesAssumption DEF Hold
    <3> QED
      BY <3>1, <3>2, <3>3, <3>4, <3>5 DEF LicenseCall
  <2> QED
    BY <1>2, <1>3, <2>1 DEF FutureOfACall
<1> QED
  BY <1>1, <1>4, <1>5 DEF LostToALicense

LEMMA FutureInvStep == FutureInv /\ [Next]_vars => FutureInv'
<1> SUFFICES ASSUME FutureInv, [Next]_vars PROVE FutureInv'
    OBVIOUS
<1>1. LicensesTypeOK'
  BY LicensesTypesStep DEF FutureInv
<1>2. CASE UNCHANGED <<licensing, lost>>
  BY <1>1, <1>2, LostStays DEF FutureInv, WaitedAreHolding, FutureOfACall, licensing
<1>3. ASSUME ~lost, SendAgain \/ \E k \in 1..MaxLists : FetchOwners(k) PROVE FutureInv'
  <2>1. UNCHANGED <<call, fut, waited, lost>>
    BY <1>3 DEF SendAgain, FetchOwners, logon
  <2> QED
    BY <1>1, <2>1 DEF FutureInv, WaitedAreHolding, FutureOfACall, LostToALicense
<1>4. ASSUME ~lost, NEW k \in 1..MaxLists, Store(k) PROVE FutureInv'
  BY <1>1, <1>4, StoreSettles DEF FutureInv
<1>5. ASSUME ~lost, NEW c \in Calls, Ask(c) \/ Grant(c) \/ Fail(c) \/ Cancel(c) \/ LicenseCall(c)
      PROVE  FutureInv'
  BY <1>1, <1>5, CallSettles DEF FutureInv
<1> QED
  BY <1>2, <1>3, <1>4, <1>5, StepOfLicenses DEF LicensesStep, LicenseHandler

\* A list of licenses ends the session only when it names the package of a
\* redeem_package that was settled and has not resumed, or that timed out and
\* has not unwound.
THEOREM OnlyLateCallsLose == Spec => []LostToALicense
<1>1. FutureInv => LostToALicense
  BY DEF FutureInv
<1> QED
  BY <1>1, FutureInvInit, FutureInvStep, PTL DEF Spec

----------------------------------------------------------------------------
(* What request_free_licenses returns with.                                *)
(*                                                                         *)
(* The argument.  While a call has the lock nobody else clears the event,  *)
(* so it is set only by a handler that had not ended when the call began;  *)
(* what that handler's list names is among the licenses from then on.      *)

\* A list that had not been handled when c cleared the event has been by now.
Served(c) ==
    \E k \in unheard[c] : k \in 1..Len(lists) /\ handler[k] = "done" /\ lists[k] \subseteq licenses

EventIsOfALateList ==
    \A c \in Frees : call[c] \in {"asking", "granted", "waiting"} =>
        /\ \A k \in 1..MaxLists : handler[k] # "done" => k \in unheard[c]
        /\ handled => Served(c)

ReturnedAreServed == \A c \in Frees : call[c] = "returned" => Served(c)

EventInv == LicensesTypeOK /\ EventIsOfALateList /\ ReturnedAreServed

LEMMA EventInvInit == Init => EventInv
<1> SUFFICES ASSUME Init PROVE EventInv
    OBVIOUS
<1>1. EventIsOfALateList /\ ReturnedAreServed
  BY DEF Init, LicensesInit, EventIsOfALateList, ReturnedAreServed, Calls
<1> QED
  BY <1>1, LicensesTypesInit DEF EventInv

\* Lists that come, and handlers that start, take nothing back.
LEMMA ServedStays ==
    ASSUME LicensesTypeOK, NEW c \in Frees, Served(c), unheard'[c] = unheard[c],
           licenses \subseteq licenses',
           UNCHANGED lists \/ \E packages : SendList(packages),
           \A k \in 1..MaxLists : handler[k] = "done" => handler'[k] = "done"
    PROVE  Served(c)'
<1>1. PICK k \in unheard[c] : k \in 1..Len(lists) /\ handler[k] = "done" /\ lists[k] \subseteq licenses
  BY DEF Served
<1>2. Len(lists) \in Nat /\ k \in 1..MaxLists
  BY <1>1, StartupAssumption DEF LicensesTypeOK
<1>3. k \in 1..Len(lists') /\ lists'[k] = lists[k]
  <2>1. CASE UNCHANGED lists
    BY <1>1, <2>1
  <2>2. ASSUME NEW packages, SendList(packages) PROVE k \in 1..Len(lists') /\ lists'[k] = lists[k]
    <3>1. lists' = Append(lists, packages)
      BY <2>2 DEF SendList
    <3> QED
      BY <1>1, <1>2, <3>1 DEF LicensesTypeOK
  <2> QED
    BY <2>1, <2>2
<1> QED
  BY <1>1, <1>2, <1>3 DEF Served

LEMMA ListsServe ==
    ASSUME EventInv, SendAgain \/ \E k \in 1..MaxLists : FetchOwners(k)
    PROVE  EventIsOfALateList' /\ ReturnedAreServed'
<1> USE DEF EventInv
<1>1. UNCHANGED <<call, unheard, handled, licenses>>
  BY DEF SendAgain, FetchOwners, past
<1>2. UNCHANGED lists \/ \E packages : SendList(packages)
  BY DEF SendAgain, FetchOwners, account
<1>3. \A k \in 1..MaxLists : handler'[k] = "done" <=> handler[k] = "done"
  BY DEF SendAgain, FetchOwners, LicensesTypeOK
<1>4. \A c \in Frees : Served(c) => Served(c)'
  BY <1>1, <1>2, <1>3, ServedStays
<1> QED
  BY <1>1, <1>3, <1>4 DEF EventIsOfALateList, ReturnedAreServed

LEMMA StoreServes ==
    ASSUME EventInv, NEW k \in 1..MaxLists, Store(k)
    PROVE  EventIsOfALateList' /\ ReturnedAreServed'
<1> USE DEF EventInv
<1>1. UNCHANGED <<lists, call, unheard>> /\ handler[k] = "users"
  BY DEF Store, account, past
<1>2. CASE UNCHANGED <<handler, licenses, handled>>
  BY <1>1, <1>2 DEF EventIsOfALateList, ReturnedAreServed, Served
<1>3. CASE handler' = [handler EXCEPT ![k] = "done"] /\ licenses' = licenses \union lists[k]
  <2>1. /\ handler'[k] = "done"
        /\ \A j \in 1..MaxLists \ {k} : handler'[j] = handler[j]
    BY <1>3 DEF LicensesTypeOK
  <2>2. \A c \in Frees : Served(c) => Served(c)'
    BY <1>1, <1>3, <2>1, ServedStays
  <2>3. ASSUME NEW c \in Frees, call[c] \in {"asking", "granted", "waiting"} PROVE Served(c)'
    <3>1. k \in unheard[c]
      BY <1>1, <2>3 DEF EventIsOfALateList
    <3>2. k \in 1..Len(lists)
      BY <1>1, StartupAssumption DEF LicensesTypeOK
    <3> QED
      BY <1>1, <1>3, <2>1, <3>1, <3>2 DEF Served
  <2> QED
    BY <1>1, <2>1, <2>2, <2>3 DEF EventIsOfALateList, ReturnedAreServed
<1> QED
  BY <1>2, <1>3 DEF Store

LEMMA CallServes ==
    ASSUME EventInv, NEW c \in Calls,
           Ask(c) \/ Grant(c) \/ Fail(c) \/ Cancel(c) \/ LicenseCall(c)
    PROVE  EventIsOfALateList' /\ ReturnedAreServed'
<1> USE DEF EventInv
<1>1. UNCHANGED <<handler, licenses>>
  BY DEF Ask, Grant, Fail, Cancel, LicenseCall, Redeem, Hold, Answer, Return, Unwind
<1>2. UNCHANGED lists \/ \E packages : SendList(packages)
  BY DEF Ask, Grant, Fail, Cancel, LicenseCall, Redeem, Hold, Answer, Return, Unwind, account
<1>3. \A d \in Calls \ {c} : call'[d] = call[d]
  BY DEF Ask, Grant, Fail, Cancel, LicenseCall, Redeem, Hold, Answer, Return, Unwind, To, LicensesTypeOK
<1>4. Frees \subseteq Calls
  BY DEF Calls
<1>5. CASE Hold(c)
  <2>1. /\ handled' = FALSE /\ call'[c] = "asking"
        /\ unheard'[c] = {k \in 1..MaxLists : handler[k] # "done"}
        /\ \A d \in Frees \ {c} : unheard'[d] = unheard[d]
    BY <1>5 DEF Hold, To, LicensesTypeOK
  <2>2. ASSUME NEW d \in Frees, d # c, Served(d) PROVE Served(d)'
    BY <1>1, <1>2, <2>1, <2>2, ServedStays
  <2>3. EventIsOfALateList'
    BY <1>1, <1>3, <1>4, <2>1 DEF EventIsOfALateList
  <2>4. ReturnedAreServed'
    BY <1>3, <1>4, <2>1, <2>2 DEF ReturnedAreServed
  <2> QED
    BY <2>3, <2>4
<1>6. CASE ~Hold(c)
  <2>1. UNCHANGED <<unheard, handled>>
    BY <1>6 DEF Ask, Grant, Fail, Cancel, LicenseCall, Redeem, Answer, Return, Unwind, past
  <2>2. \A d \in Frees : Served(d) => Served(d)'
    BY <1>1, <1>2, <2>1, ServedStays
  <2>3. ASSUME c \in Frees
        PROVE  /\ call'[c] \in {"asking", "granted", "waiting"} => call[c] \in {"asking", "granted", "waiting"}
               /\ call'[c] = "returned" => call[c] = "waiting" /\ handled
    <3>1. c \notin Redeems
      BY <2>3, LicensesAssumption
    <3> QED
      BY <1>6, <3>1 DEF Ask, Grant, Fail, Cancel, LicenseCall, Redeem, Answer, Return, Unwind, To, LicensesTypeOK
  <2>4. EventIsOfALateList'
    BY <1>1, <1>3, <1>4, <2>1, <2>2, <2>3 DEF EventIsOfALateList
  <2>5. ReturnedAreServed'
    BY <1>3, <1>4, <2>2, <2>3 DEF EventIsOfALateList, ReturnedAreServed
  <2> QED
    BY <2>4, <2>5
<1> QED
  BY <1>5, <1>6

LEMMA EventInvStep == EventInv /\ [Next]_vars => EventInv'
<1> SUFFICES ASSUME EventInv, [Next]_vars PROVE EventInv'
    OBVIOUS
<1>1. LicensesTypeOK'
  BY LicensesTypesStep DEF EventInv
<1>2. CASE UNCHANGED <<licensing, lost>>
  BY <1>1, <1>2 DEF EventInv, EventIsOfALateList, ReturnedAreServed, Served, licensing, account, past
<1>3. CASE LicensesStep
  <2>1. CASE SendAgain \/ \E k \in 1..MaxLists : FetchOwners(k)
    BY <1>1, <2>1, ListsServe DEF EventInv
  <2>2. ASSUME NEW k \in 1..MaxLists, Store(k) PROVE EventInv'
    BY <1>1, <2>2, StoreServes DEF EventInv
  <2>3. ASSUME NEW c \in Calls, Ask(c) \/ Grant(c) \/ Fail(c) \/ Cancel(c) \/ LicenseCall(c)
        PROVE  EventInv'
    BY <1>1, <2>3, CallServes DEF EventInv
  <2> QED
    BY <1>3, <2>1, <2>2, <2>3 DEF LicensesStep, LicenseHandler
<1> QED
  BY <1>2, <1>3, StepOfLicenses

\* request_free_licenses returns without its license only when a list that was
\* not handled when it asked, and that lacks the license, came first.
THEOREM FreeLicensesAreHeld == Spec => []FreeIsHeld
<1>1. EventInv => FreeIsHeld
  BY DEF EventInv, ReturnedAreServed, Served, FreeIsHeld
<1> QED
  BY <1>1, EventInvInit, EventInvStep, PTL DEF Spec

----------------------------------------------------------------------------
(* The friends.                                                            *)
(*                                                                         *)
(* The argument.  The lists tell of changes: what a list says that a user  *)
(* becomes can follow what the lists before it say.  While no other        *)
(* handler deals with a user, the client holds the user as the lists up to *)
(* one of them say, and of the entries that name the user just those up to *)
(* that list were processed.  The handler that comes to the next such      *)
(* entry thus finds what the entry changes: a removal finds a friend or an *)
(* invite, a request finds neither.  When all lists are done with, the     *)
(* client holds the user as the last list says, which is what Steam has.   *)

\* The users that a list names.  No list names one twice.
Names(list) == {list[i][1] : i \in DOMAIN list}

NamedOnce ==
    \A k \in DOMAIN posts : \A i, j \in DOMAIN posts[k] :
        posts[k][i][1] = posts[k][j][1] => i = j

\* What the first n of some lists say that a user is: what the last of them
\* that names the user says.
Says(told, n, id, rel) ==
    \/ rel = "none" /\ \A k \in 1..n : id \notin Names(told[k])
    \/ \E k \in 1..n : /\ \E i \in DOMAIN told[k] : told[k][i] = <<id, rel>>
                       /\ \A j \in (k + 1)..n : id \notin Names(told[j])

\* All lists together say what Steam has, and each of them tells of changes.
SteamTells == \A id \in Ids : Says(posts, Len(posts), id, relation[id])

ListsTellChanges ==
    \A k \in DOMAIN posts : \A i \in DOMAIN posts[k] :
        \E rel \in Relations : Says(posts, k - 1, posts[k][i][1], rel) /\ posts[k][i][2] \in Becomes(rel)

ListsInv == FriendsTypeOK /\ NamedOnce /\ SteamTells /\ ListsTellChanges

\* Handlers begin in order, and wait for what they fetch.
HandlersWait ==
    /\ \A k \in Posts : stage[k] = "unread" => at[k] = 1 /\ \A l \in (k + 1)..MaxPosts : stage[l] = "unread"
    /\ \A k \in Posts : stage[k] = "friend" => k # 1 /\ Here(k)[2] = "friend"
    /\ \A k \in Posts : stage[k] = "invitee" => Here(k)[2] = "request"
    /\ \A k \in Posts : stage[k] = "users" => k = 1 /\ at[1] > Len(posts[1])

\* The users with whom two handlers never dealt at a time, and whom none left out.
Fair == Ids \ (crossed \union skipped)

\* While a list names such a user, those before it that do are done with.
OneAtATime ==
    "Users" \in intents =>
        \A id \in Fair : \A k \in DOMAIN posts :
            id \in Names(posts[k]) /\ stage[k] # "unread"
            => \A j \in 1..(k - 1) : j = 1 \/ id \in Names(posts[j]) => stage[j] = "done"

Processed(k, i) == stage[k] = "done" \/ i < at[k]

\* The client holds a user as rel; the full list keeps its friends for the end.
HeldAs(id, rel) ==
    /\ id \in invites <=> rel = "request"
    /\ IF stage[1] = "done" THEN id \in friends <=> rel = "friend"
       ELSE id \notin friends /\ (id \in collected <=> rel = "friend")

\* The client holds a user as the first n lists say, and went through them.
UpTo(n, id) ==
    \A k \in DOMAIN posts : \A i \in DOMAIN posts[k] :
        posts[k][i][1] = id => (Processed(k, i) <=> k <= n)
Knows(id, n, rel) == Says(posts, n, id, rel) /\ HeldAs(id, rel) /\ UpTo(n, id)

ClientKnows ==
    "Users" \in intents =>
        \A id \in Fair : \E n \in 0..Len(posts), rel \in Relations : Knows(id, n, rel)

\* A friend is fetched who is not invited.
FetchedUninvited ==
    "Users" \in intents =>
        \A k \in Posts : stage[k] = "friend" /\ Here(k)[1] \in Fair => Here(k)[1] \notin invites

FriendsInv ==
    /\ ListsInv /\ HandlersWait
    /\ OneAtATime /\ ClientKnows /\ FetchedUninvited
    /\ GivesUpWhenCrossed

----------------------------------------------------------------------------
\* The order in which a list names users.
LEMMA OrderOfAList ==
    ASSUME NEW order \in SetToAllKPermutations(Ids)
    PROVE  /\ order \in Seq(Ids)
           /\ \A i, j \in DOMAIN order : order[i] = order[j] => i = j
<1>1. PICK ids \in SUBSET Ids : order \in SetToSeqs(ids)
  BY DEF SetToAllKPermutations
<1>2. Cardinality(ids) \in Nat
  BY FriendsAssumption, FS_Subset, FS_CardinalityType
<1>3. order \in [1..Cardinality(ids) -> ids] /\ \A i, j \in DOMAIN order : i # j => order[i] # order[j]
  BY <1>1 DEF SetToSeqs
<1> QED
  BY <1>2, <1>3

\* The full list names everybody with whom the client has to do, once.
LEMMA FullList ==
    ASSUME FriendsInit
    PROVE  /\ posts \in Seq(Seq(Entry)) /\ Len(posts) = 1
           /\ \A i, j \in DOMAIN posts[1] : posts[1][i][1] = posts[1][j][1] => i = j
           /\ \A i \in DOMAIN posts[1] : /\ posts[1][i] = <<posts[1][i][1], relation[posts[1][i][1]]>>
                                         /\ posts[1][i] \in Entry /\ posts[1][i][2] # "none"
           /\ \A id \in Ids : relation[id] # "none" => id \in Named(1)
<1> DEFINE known == {id \in Ids : relation[id] # "none"}
           order == SetToSeq(known)
           n == Cardinality(known)
<1>1. IsFiniteSet(known) /\ n \in Nat /\ ExistsBijection(1..n, known)
  BY FriendsAssumption, FS_Subset, FS_CardinalityType
<1>2. PICK g \in [1..n -> known] : IsInjective(g)
  BY <1>1 DEF ExistsBijection, Bijection, Injection
<1>3. order \in [1..n -> known] /\ IsInjective(order)
  BY <1>2 DEF SetToSeq
<1>4. order \in Surjection(1..n, known)
  <2>1. Cardinality(1..n) = n
    BY <1>1, FS_Interval
  <2>2. order \in Injection(1..n, known)
    BY <1>3 DEF Injection
  <2> QED
    BY <1>1, <2>1, <2>2, FS_Injection
<1>5. DOMAIN order = 1..n /\ (\A i \in 1..n : order[i] \in known)
      /\ \A id \in known : \E i \in 1..n : order[i] = id
  BY <1>3, <1>4 DEF Surjection
<1> DEFINE list == [i \in DOMAIN order |-> <<order[i], relation[order[i]]>>]
<1>6. posts = <<list>> /\ relation \in [Ids -> Relations]
  BY DEF FriendsInit
<1> HIDE DEF order, n
<1>7. \A id \in known : id \in Ids /\ relation[id] \in Relations /\ relation[id] # "none"
  BY <1>6
<1>8. \A i \in 1..n : list[i] = <<order[i], relation[order[i]]>> /\ list[i] \in Entry
  BY <1>5, <1>7 DEF Entry
<1>9. DOMAIN list = 1..n /\ list \in Seq(Entry)
  BY <1>1, <1>5, <1>8
<1> HIDE DEF list
<1>10. posts \in Seq(Seq(Entry)) /\ Len(posts) = 1 /\ posts[1] = list
  BY <1>6, <1>9
<1>11. \A id \in Ids : relation[id] # "none" => id \in Named(1)
  BY <1>5, <1>8, <1>9, <1>10 DEF Named
<1>12. \A i, j \in 1..n : list[i][1] = list[j][1] => i = j
  BY <1>3, <1>5, <1>8 DEF IsInjective
<1>13. \A i \in 1..n : list[i] = <<list[i][1], relation[list[i][1]]>> /\ list[i][2] # "none"
  BY <1>5, <1>7, <1>8
<1> HIDE DEF known
<1> QED
  BY <1>8, <1>9, <1>10, <1>11, <1>12, <1>13

\* A list that Steam sends: the users in it become what it says.
LEMMA ChangeSends ==
    ASSUME FriendsTypeOK, Changes
    PROVE  \E list \in Seq(Entry) :
             /\ posts' = Append(posts, list) /\ Len(posts) < MaxPosts
             /\ \A i, j \in DOMAIN list : list[i][1] = list[j][1] => i = j
             /\ \A i \in DOMAIN list : /\ list[i][2] \in Becomes(relation[list[i][1]])
                                       /\ relation'[list[i][1]] = list[i][2]
             /\ \A id \in Ids : (\A i \in DOMAIN list : list[i][1] # id) => relation'[id] = relation[id]
             /\ relation' \in [Ids -> Relations]
<1>1. PICK order \in SetToAllKPermutations(Ids) : Change(order)
  BY DEF Changes
<1>2. order \in Seq(Ids) /\ \A i, j \in DOMAIN order : order[i] = order[j] => i = j
  BY <1>1, OrderOfAList
<1>3. ToSet(order) \subseteq Ids /\ ToSet(order) = {order[i] : i \in DOMAIN order}
  BY <1>2 DEF ToSet
<1>4. PICK new \in [ToSet(order) -> Relations] :
           /\ \A id \in ToSet(order) : new[id] \in Becomes(relation[id])
           /\ relation' = [id \in Ids |-> IF id \in ToSet(order) THEN new[id] ELSE relation[id]]
           /\ posts' = Append(posts, [i \in DOMAIN order |-> <<order[i], new[order[i]]>>])
  BY <1>1 DEF Change
<1> DEFINE list == [i \in DOMAIN order |-> <<order[i], new[order[i]]>>]
<1>5. \A i \in DOMAIN order : /\ order[i] \in Ids /\ order[i] \in ToSet(order)
                              /\ new[order[i]] \in Relations
  BY <1>2, <1>3, <1>4
<1>6. list \in Seq(Entry) /\ DOMAIN list = DOMAIN order
  BY <1>2, <1>5 DEF Entry
<1>7. \A i \in DOMAIN list : list[i][1] = order[i] /\ list[i][2] = new[order[i]]
  OBVIOUS
<1>8. relation' \in [Ids -> Relations]
  BY <1>4 DEF FriendsTypeOK
<1>9. Len(posts) < MaxPosts
  BY <1>1 DEF Change
<1>10. \A i \in DOMAIN list : /\ list[i][2] \in Becomes(relation[list[i][1]])
                              /\ relation'[list[i][1]] = list[i][2]
  BY <1>4, <1>5, <1>6, <1>7
<1>11. \A id \in Ids : (\A i \in DOMAIN list : list[i][1] # id) => relation'[id] = relation[id]
  BY <1>3, <1>4, <1>6, <1>7
<1> HIDE DEF list
<1> QED
  BY <1>2, <1>4, <1>6, <1>7, <1>8, <1>9, <1>10, <1>11 DEF list

----------------------------------------------------------------------------
\* A step of Friends, in whatever it is a part of.
FriendsStep == Changes \/ FriendsHandler \/ UNCHANGED <<befriending, intents>>

LEMMA StepOfStartup == [Next]_vars => FriendsStep
<1> SUFFICES ASSUME [Next]_vars PROVE FriendsStep
    OBVIOUS
<1>1. CASE Outside \/ LicensesHandler
            \/ \E c \in Calls : Answered(c) \/ Called(c) \/ Licensing(Cancel(c))
  <2>1. \A k \in 1..MaxLists : LicenseHandler(k) => UNCHANGED intents
    BY DEF LicenseHandler, FetchOwners, Store, Raise, logon
  <2>2. \A c \in Calls : Grant(c) \/ Answer(c) \/ Fail(c) \/ LicenseCall(c) \/ Cancel(c) \/ Ask(c)
                         => UNCHANGED intents
    BY DEF Grant, Answer, Fail, LicenseCall, Cancel, Ask, Redeem, Hold, Return, Unwind, logon
  <2>3. CASE Outside
    BY <2>2, <2>3 DEF Outside, FriendsStep, SendAgain, logon
  <2> QED
    BY <1>1, <2>1, <2>2, <2>3 DEF LicensesHandler, Answered, Called, Licensing, FriendsStep
<1>2. CASE LoginCompletes /\ UNCHANGED <<befriending, licensing, ready, extra>>
  BY <1>2 DEF LoginCompletes, FriendsStep
<1>3. CASE FriendsHandlers
  BY <1>3 DEF FriendsHandlers, FriendsStep
<1>4. CASE FriendsReady \/ LicensesReady \/ UNCHANGED vars
  BY <1>4 DEF FriendsReady, LicensesReady, FriendsStep, logon, vars
<1> QED
  BY <1>1, <1>2, <1>3, <1>4 DEF Next

LEMMA StepAlone == [FriendsNext]_<<logon, befriending>> => FriendsStep
BY DEF FriendsNext, FriendsStep, LoginCompletes, logon

----------------------------------------------------------------------------
\* What every step of a handler leaves alone.
LEMMA HandlersLeave == FriendsHandler => UNCHANGED <<intents, relation, posts>>
BY DEF FriendsHandler, Begin, EntryFriend, EntryRequest, EntryNone, EndOfList, FriendFetched,
       InviteeFetched, Loaded, logon, steam

\* A step of the handler of a list, which goes on to s.
Moves(k, s) ==
    /\ running \in {0, k} /\ stage[k] # "done" /\ s # "unread"
    /\ stage' = [stage EXCEPT ![k] = s]
    /\ running' = IF s = "entries" THEN k ELSE 0
    /\ at' = at \/ (at' = [at EXCEPT ![k] = @ + 1] /\ s = "entries")
    /\ stage[k] = "unread" => /\ at' = at /\ \A j \in 1..(k - 1) : stage[j] # "unread"
                              /\ "Users" \in intents => crossed' = crossed \union Overlap(k)
    /\ s \in {"friend", "invitee"} => at' = at /\ at[k] \in DOMAIN posts[k]
    /\ s = "friend" => k # 1 /\ Here(k)[2] = "friend"
    /\ s = "invitee" => Here(k)[2] = "request"
    /\ s = "users" => k = 1 /\ at' = at /\ at[1] > Len(posts[1])

LEMMA HandlerMoves ==
    ASSUME FriendsTypeOK, NEW k \in Posts
    PROVE  /\ Begin(k) => /\ k \in DOMAIN posts
                          /\ Moves(k, "entries") \/ ("Users" \notin intents /\ Moves(k, "done"))
           /\ EntryFriend(k) => Moves(k, "entries") \/ Moves(k, "friend")
           /\ EntryRequest(k) => Moves(k, "invitee")
           /\ EntryNone(k) => Moves(k, "entries") \/ Moves(k, "done")
           /\ EndOfList(k) => Moves(k, "users") \/ Moves(k, "done")
           /\ FriendFetched(k) \/ InviteeFetched(k) => Moves(k, "entries")
           /\ k = 1 /\ Loaded => Moves(1, "done")
<1>1. running = k => stage[k] = "entries" /\ k # 0
  BY DEF FriendsTypeOK, Posts
<1>2. ASSUME Begin(k)
      PROVE  k \in DOMAIN posts /\ (Moves(k, "entries") \/ ("Users" \notin intents /\ Moves(k, "done")))
  <2>1. /\ k \in DOMAIN posts /\ running = 0 /\ at' = at /\ stage[k] = "unread"
        /\ \A j \in 1..(k - 1) : stage[j] # "unread"
        /\ \/ /\ stage' = [stage EXCEPT ![k] = "entries"] /\ running' = k
              /\ crossed' = crossed \union Overlap(k)
           \/ stage' = [stage EXCEPT ![k] = "done"] /\ running' = 0 /\ "Users" \notin intents
    BY <1>2 DEF Begin
  <2> QED
    BY <2>1 DEF Moves
<1>3. ASSUME running = k, Advance(k) PROVE Moves(k, "entries")
  <2>1. stage' = [stage EXCEPT ![k] = "entries"]
    BY <1>1, <1>3 DEF Advance, FriendsTypeOK
  <2> QED
    BY <1>1, <1>3, <2>1 DEF Advance, Moves
<1>4. ASSUME running = k
      PROVE  /\ Suspend(k, "done") => Moves(k, "done")
             /\ Suspend(k, "friend") /\ k # 1 /\ AtEntry(k, "friend") => Moves(k, "friend")
             /\ Suspend(k, "invitee") /\ AtEntry(k, "request") => Moves(k, "invitee")
             /\ Suspend(k, "users") /\ k = 1 /\ at[k] > Len(posts[k]) => Moves(k, "users")
  BY <1>1, <1>4 DEF Suspend, Moves, AtEntry
<1>5. EntryFriend(k) => Moves(k, "entries") \/ Moves(k, "friend")
  BY <1>3, <1>4 DEF EntryFriend, AtEntry
<1>6. EntryRequest(k) => Moves(k, "invitee")
  BY <1>4 DEF EntryRequest, AtEntry
<1>7. EntryNone(k) => Moves(k, "entries") \/ Moves(k, "done")
  BY <1>3, <1>4 DEF EntryNone, AtEntry
<1>8. EndOfList(k) => Moves(k, "users") \/ Moves(k, "done")
  BY <1>4 DEF EndOfList
<1>9. FriendFetched(k) \/ InviteeFetched(k) => Moves(k, "entries")
  BY DEF FriendFetched, InviteeFetched, Resume, Moves
<1>10. k = 1 /\ Loaded => Moves(1, "done")
  BY DEF Loaded, Suspend, Moves
<1> QED
  BY <1>2, <1>5, <1>6, <1>7, <1>8, <1>9, <1>10

LEMMA HandlersMove ==
    ASSUME FriendsTypeOK, FriendsHandler
    PROVE  \E k \in DOMAIN posts : k \in Posts /\ \E s \in Stages : Moves(k, s)
<1>1. PICK k \in Posts : \/ Begin(k) \/ EntryFriend(k) \/ EntryRequest(k) \/ EntryNone(k) \/ EndOfList(k)
                         \/ FriendFetched(k) \/ InviteeFetched(k) \/ (k = 1 /\ Loaded)
  <2>1. 1 \in Posts
    BY FriendsAssumption DEF Posts
  <2> QED
    BY <2>1 DEF FriendsHandler
<1>2. Begin(k) \/ stage[k] # "unread"
  BY <1>1 DEF EntryFriend, EntryRequest, EntryNone, EndOfList, AtEntry, FriendFetched, InviteeFetched,
              Resume, Loaded, FriendsTypeOK
<1>3. k \in DOMAIN posts
  BY <1>2 DEF Begin, FriendsTypeOK
<1>4. \E s \in Stages : Moves(k, s)
  BY <1>1, HandlerMoves DEF Stages
<1> QED
  BY <1>3, <1>4

\* Whom the handlers can put where.
LEMMA HandlersKeepIds ==
    ASSUME FriendsTypeOK, FriendsHandler
    PROVE  /\ collected' \subseteq Ids
           /\ friends' \union invites' \union crossed' \union skipped' \subseteq Ids
           /\ handledFriends' \in BOOLEAN
<1>1. ASSUME NEW k \in DOMAIN posts, NEW i \in DOMAIN posts[k]
      PROVE  posts[k][i][1] \in Ids /\ posts[k][i][2] \in Relations
             /\ posts[k][i] = <<posts[k][i][1], posts[k][i][2]>>
  <2>1. posts[k] \in Seq(Entry)
    BY DEF FriendsTypeOK
  <2>2. posts[k][i] \in Entry
    BY <2>1
  <2> QED
    BY <2>2 DEF Entry
<1>2. \A k \in Posts : /\ stage[k] # "unread" => k \in DOMAIN posts
                       /\ running = k => k \in DOMAIN posts
  BY DEF FriendsTypeOK, Posts
<1>3. \A k \in Posts : stage[k] \in {"friend", "invitee"} \/ (running = k /\ at[k] \in DOMAIN posts[k])
                       => Here(k)[1] \in Ids
  BY <1>1, <1>2 DEF Here, FriendsTypeOK
<1>4. \A k \in DOMAIN posts : Named(k) \subseteq Ids
  BY <1>1 DEF Named
<1>5. ASSUME NEW k \in Posts, Begin(k)
      PROVE  crossed' \subseteq Ids /\ UNCHANGED <<collected, friends, invites, skipped, handledFriends>>
  BY <1>4, <1>5 DEF Begin, Overlap, FriendsTypeOK
<1>6. ASSUME NEW k \in Posts, EntryFriend(k)
      PROVE  friends' \union invites' \union collected' \subseteq Ids
             /\ UNCHANGED <<crossed, skipped, handledFriends>>
  <2>1. Here(k)[1] \in Ids
    BY <1>3, <1>6 DEF EntryFriend, AtEntry
  <2> QED
    BY <1>6, <2>1 DEF EntryFriend, FriendsTypeOK, history
<1>7. ASSUME NEW k \in Posts, EntryNone(k)
      PROVE  friends' \union invites' \union skipped' \subseteq Ids
             /\ UNCHANGED <<crossed, collected, handledFriends>>
  <2>1. running = k /\ k \in DOMAIN posts /\ at[k] \in Nat \ {0}
    BY <1>2, <1>7 DEF EntryNone, AtEntry, FriendsTypeOK
  <2>2. DOMAIN posts[k] = 1..Len(posts[k]) /\ Len(posts[k]) \in Nat
    BY <2>1 DEF FriendsTypeOK
  <2>3. \A i \in (at[k] + 1)..Len(posts[k]) : posts[k][i][1] \in Ids
    BY <1>1, <2>1, <2>2
  <2> QED
    BY <1>7, <2>3 DEF EntryNone, FriendsTypeOK
<1>8. ASSUME NEW k \in Posts, FriendFetched(k) \/ InviteeFetched(k)
      PROVE  friends' \union invites' \subseteq Ids
             /\ UNCHANGED <<collected, crossed, skipped, handledFriends>>
  <2>1. Here(k)[1] \in Ids
    BY <1>3, <1>8 DEF FriendFetched, InviteeFetched, Resume
  <2> QED
    BY <1>8, <2>1 DEF FriendFetched, InviteeFetched, FriendsTypeOK, history
<1>9. ASSUME NEW k \in Posts, EntryRequest(k) \/ EndOfList(k)
      PROVE  UNCHANGED <<collected, friends, invites, crossed, skipped, handledFriends>>
  BY <1>9 DEF EntryRequest, EndOfList, history
<1>10. ASSUME Loaded
       PROVE  friends' \subseteq Ids /\ handledFriends' \in BOOLEAN
              /\ UNCHANGED <<collected, invites, crossed, skipped>>
  BY <1>10 DEF Loaded, FriendsTypeOK, history
<1> QED
  BY <1>5, <1>6, <1>7, <1>8, <1>9, <1>10 DEF FriendsHandler, FriendsTypeOK

LEMMA FriendsTypesInit == FriendsInit => FriendsTypeOK
<1> SUFFICES ASSUME FriendsInit PROVE FriendsTypeOK
    OBVIOUS
<1>1. Posts = 1..MaxPosts /\ 1 \in Posts /\ 0 \notin Posts
  BY FriendsAssumption DEF Posts
<1>2. posts \in Seq(Seq(Entry)) /\ Len(posts) = 1
  BY FullList
<1>3. /\ relation \in [Ids -> Relations]
      /\ stage = [k \in Posts |-> "unread"]
      /\ at = [k \in Posts |-> 1]
      /\ collected = {} /\ running = 0 /\ friends = {} /\ invites = {}
      /\ handledFriends = FALSE /\ crossed = {} /\ skipped = {}
  BY DEF FriendsInit
<1>4. at \in [Posts -> Nat \ {0}] /\ stage \in [Posts -> Stages]
  BY <1>3 DEF Stages
<1>5. \A k \in Posts : stage[k] = "unread" /\ running # k
  BY <1>1, <1>3
<1> QED
  BY <1>1, <1>2, <1>3, <1>4, <1>5 DEF FriendsTypeOK

LEMMA FriendsTypesStep == FriendsTypeOK /\ FriendsStep => FriendsTypeOK'
<1> SUFFICES ASSUME FriendsTypeOK, FriendsStep PROVE FriendsTypeOK'
    OBVIOUS
<1>0. MaxPosts \in Nat \ {0} /\ posts \in Seq(Seq(Entry)) /\ Len(posts) \in 1..MaxPosts
      /\ DOMAIN posts = 1..Len(posts)
  BY FriendsAssumption DEF FriendsTypeOK, Posts
<1>1. CASE Changes
  <2>1. PICK list \in Seq(Entry) : posts' = Append(posts, list) /\ Len(posts) < MaxPosts
                                   /\ relation' \in [Ids -> Relations]
    BY <1>1, ChangeSends
  <2>2. /\ posts' \in Seq(Seq(Entry)) /\ Len(posts') = Len(posts) + 1
        /\ \A k \in DOMAIN posts : k \in DOMAIN posts' /\ posts'[k] = posts[k]
    BY <1>0, <2>1
  <2>3. Len(posts') \in 1..MaxPosts
    BY <1>0, <2>1, <2>2
  <2>4. UNCHANGED <<handlers, friends, invites, handledFriends, history>>
    BY <1>1 DEF Changes, Change
  <2>5. \A k \in Posts : stage[k] \in {"friend", "invitee"} => at[k] \in DOMAIN posts'[k]
    BY <2>2 DEF FriendsTypeOK
  <2>6. \A k \in Posts : stage[k] # "unread" => k \in DOMAIN posts'
    BY <2>2 DEF FriendsTypeOK
  <2> QED
    BY <2>1, <2>2, <2>3, <2>4, <2>5, <2>6 DEF FriendsTypeOK, handlers, history, Posts
<1>2. CASE FriendsHandler
  <2>1. UNCHANGED <<relation, posts>>
    BY <1>2, HandlersLeave
  <2>2. PICK k \in DOMAIN posts, s \in Stages : k \in Posts /\ Moves(k, s)
    BY <1>2, HandlersMove
  <2>3. k # 0 /\ \A j \in Posts : j # 0
    BY <1>0, <2>2 DEF Posts
  <2>4. /\ stage' \in [Posts -> Stages] /\ stage'[k] = s
        /\ \A j \in Posts \ {k} : stage'[j] = stage[j]
    BY <2>2 DEF Moves, FriendsTypeOK
  <2>5. at' \in [Posts -> Nat \ {0}] /\ \A j \in Posts \ {k} : at'[j] = at[j]
    <3>1. at \in [Posts -> Nat \ {0}] /\ at[k] + 1 \in Nat \ {0}
      BY <2>2 DEF FriendsTypeOK
    <3>2. at' = at \/ at' = [at EXCEPT ![k] = at[k] + 1]
      BY <2>2 DEF Moves
    <3> QED
      BY <2>2, <3>1, <3>2
  <2>6. \A j \in Posts : stage'[j] # "unread" => j \in DOMAIN posts
    BY <2>2, <2>4 DEF FriendsTypeOK
  <2>7. \A j \in Posts : stage'[j] \in {"friend", "invitee"} => at'[j] \in DOMAIN posts[j]
    BY <2>2, <2>4, <2>5 DEF FriendsTypeOK, Moves
  <2>8. running' \in Posts \union {0} /\ \A j \in Posts : running' = j <=> stage'[j] = "entries"
    BY <2>2, <2>3, <2>4 DEF FriendsTypeOK, Moves
  <2> QED
    BY <1>2, <2>1, <2>4, <2>5, <2>6, <2>7, <2>8, HandlersKeepIds DEF FriendsTypeOK
<1>3. CASE UNCHANGED <<befriending, intents>>
  BY <1>3 DEF FriendsTypeOK, befriending, steam, handlers, history
<1> QED
  BY <1>1, <1>2, <1>3 DEF FriendsStep

----------------------------------------------------------------------------
\* What the lists say: of the lists alone.

LEMMA ListsTyped ==
    ASSUME FriendsTypeOK
    PROVE  /\ DOMAIN posts = 1..Len(posts) /\ Len(posts) \in Nat /\ Len(posts) \in Posts
           /\ \A k \in DOMAIN posts : DOMAIN posts[k] = 1..Len(posts[k]) /\ Len(posts[k]) \in Nat
           /\ \A k \in DOMAIN posts : \A i \in DOMAIN posts[k] :
                  /\ posts[k][i][1] \in Ids /\ posts[k][i][2] \in Relations
                  /\ posts[k][i] = <<posts[k][i][1], posts[k][i][2]>>
<1>1. /\ posts \in Seq(Seq(Entry)) /\ Len(posts) \in Posts
  BY DEF FriendsTypeOK
<1>2. ASSUME NEW k \in DOMAIN posts, NEW i \in DOMAIN posts[k]
      PROVE  /\ posts[k][i][1] \in Ids /\ posts[k][i][2] \in Relations
             /\ posts[k][i] = <<posts[k][i][1], posts[k][i][2]>>
  <2>1. posts[k] \in Seq(Entry)
    BY <1>1
  <2>2. posts[k][i] \in Entry
    BY <2>1
  <2> QED
    BY <2>2 DEF Entry
<1> QED
  BY <1>1, <1>2

\* A list says what it says; later lists that do not name a user change nothing.
LEMMA SaysOfAnEntry ==
    ASSUME NEW told, NEW k \in Nat \ {0}, NEW id, NEW rel,
           \E i \in DOMAIN told[k] : told[k][i] = <<id, rel>>
    PROVE  Says(told, k, id, rel)
BY DEF Says

LEMMA SaysUntilNamed ==
    ASSUME NEW told, NEW id, NEW rel, NEW n \in Nat, NEW m \in Nat, n <= m, Says(told, n, id, rel),
           \A j \in (n + 1)..m : id \notin Names(told[j])
    PROVE  Says(told, m, id, rel)
<1>1. CASE rel = "none" /\ \A k \in 1..n : id \notin Names(told[k])
  <2>1. \A k \in 1..m : k \in 1..n \/ k \in (n + 1)..m
    OBVIOUS
  <2> QED
    BY <1>1, <2>1 DEF Says
<1>2. ASSUME NEW k \in 1..n, \E i \in DOMAIN told[k] : told[k][i] = <<id, rel>>,
             \A j \in (k + 1)..n : id \notin Names(told[j])
      PROVE  Says(told, m, id, rel)
  <2>1. k \in 1..m /\ \A j \in (k + 1)..m : j \in (k + 1)..n \/ j \in (n + 1)..m
    BY <1>2
  <2> QED
    BY <1>2, <2>1 DEF Says
<1> QED
  BY <1>1, <1>2 DEF Says

LEMMA SaysOneThing ==
    ASSUME FriendsTypeOK, NamedOnce, NEW id, NEW n \in 0..Len(posts), NEW r, NEW s,
           Says(posts, n, id, r), Says(posts, n, id, s)
    PROVE  r = s
<1>1. DOMAIN posts = 1..Len(posts) /\ Len(posts) \in Nat
  BY ListsTyped
<1>2. ASSUME NEW k \in 1..n, NEW i \in DOMAIN posts[k], NEW rel, posts[k][i] = <<id, rel>>
      PROVE  id \in Names(posts[k]) /\ k \in DOMAIN posts
  BY <1>1, <1>2 DEF Names
<1>3. CASE r = "none" /\ \A k \in 1..n : id \notin Names(posts[k])
  BY <1>2, <1>3 DEF Says
<1>4. CASE s = "none" /\ \A k \in 1..n : id \notin Names(posts[k])
  BY <1>2, <1>4 DEF Says
<1>5. ASSUME NEW k \in 1..n, NEW i \in DOMAIN posts[k], posts[k][i] = <<id, r>>,
             \A j \in (k + 1)..n : id \notin Names(posts[j]),
             NEW l \in 1..n, NEW h \in DOMAIN posts[l], posts[l][h] = <<id, s>>,
             \A j \in (l + 1)..n : id \notin Names(posts[j])
      PROVE  r = s
  <2>1. k = l
    BY <1>1, <1>2, <1>5
  <2>2. posts[k][i][1] = posts[k][h][1]
    BY <1>5, <2>1
  <2>3. i = h
    BY <1>1, <1>2, <1>5, <2>1, <2>2 DEF NamedOnce
  <2> QED
    BY <1>5, <2>1, <2>3
<1> QED
  BY <1>3, <1>4, <1>5 DEF Says

\* Lists that come do not change what the earlier ones say.
LEMMA SaysStays ==
    ASSUME NEW old, NEW new, NEW n \in Nat, \A k \in 1..n : old[k] = new[k], NEW id, NEW rel
    PROVE  Says(old, n, id, rel) <=> Says(new, n, id, rel)
<1>1. \A k \in 1..n : \A j \in (k + 1)..n : old[j] = new[j]
  OBVIOUS
<1> QED
  BY <1>1 DEF Says

LEMMA ListsInit == FriendsInit => ListsInv
<1> SUFFICES ASSUME FriendsInit PROVE ListsInv
    OBVIOUS
<1>1. FriendsTypeOK
  BY FriendsTypesInit
<1>2. Len(posts) = 1 /\ DOMAIN posts = {1}
  BY <1>1, FullList DEF FriendsTypeOK
<1>3. NamedOnce
  BY <1>2, FullList DEF NamedOnce
<1>4. ListsTellChanges
  <2>1. \A id : Says(posts, 0, id, "none")
    BY DEF Says
  <2>2. \A i \in DOMAIN posts[1] : posts[1][i][2] \in Relations \ {"none"}
    BY <1>1, <1>2, FullList, ListsTyped
  <2> QED
    BY <1>2, <2>1, <2>2 DEF ListsTellChanges, Relations, Becomes
<1>5. ASSUME NEW id \in Ids PROVE Says(posts, 1, id, relation[id])
  <2>1. CASE id \in Named(1)
    <3>1. PICK i \in DOMAIN posts[1] : posts[1][i][1] = id
      BY <2>1 DEF Named
    <3>2. posts[1][i] = <<id, relation[id]>>
      BY <3>1, FullList
    <3> QED
      BY <3>2, SaysOfAnEntry
  <2>2. CASE id \notin Named(1)
    BY <2>2, FullList DEF Says, Named, Names
  <2> QED
    BY <2>1, <2>2
<1> QED
  BY <1>1, <1>2, <1>3, <1>4, <1>5 DEF ListsInv, SteamTells

LEMMA ListsStep == ListsInv /\ FriendsStep => ListsInv'
<1> SUFFICES ASSUME ListsInv, FriendsStep PROVE ListsInv'
    OBVIOUS
<1>1. FriendsTypeOK /\ FriendsTypeOK'
  BY FriendsTypesStep DEF ListsInv
<1>2. CASE UNCHANGED <<relation, posts>>
  BY <1>1, <1>2 DEF ListsInv, NamedOnce, SteamTells, ListsTellChanges
<1>3. CASE Changes
  <2>1. PICK list \in Seq(Entry) :
             /\ posts' = Append(posts, list)
             /\ \A i, j \in DOMAIN list : list[i][1] = list[j][1] => i = j
             /\ \A i \in DOMAIN list : /\ list[i][2] \in Becomes(relation[list[i][1]])
                                       /\ relation'[list[i][1]] = list[i][2]
             /\ \A id \in Ids : (\A i \in DOMAIN list : list[i][1] # id) => relation'[id] = relation[id]
    BY <1>1, <1>3, ChangeSends
  <2> DEFINE n == Len(posts)
  <2>2. /\ n \in Nat /\ Len(posts') = n + 1 /\ DOMAIN posts = 1..n /\ DOMAIN posts' = 1..(n + 1)
        /\ posts'[n + 1] = list /\ \A k \in 1..n : posts'[k] = posts[k]
    BY <1>1, <2>1 DEF FriendsTypeOK
  <2>3. \A i \in DOMAIN list : list[i] = <<list[i][1], list[i][2]>> /\ list[i][1] \in Ids
    BY <2>1 DEF Entry
  <2>4. NamedOnce'
    BY <2>1, <2>2 DEF ListsInv, NamedOnce
  <2> HIDE DEF n
  <2>5. \A id \in Ids : relation[id] \in Relations /\ Says(posts, n, id, relation[id])
    BY <1>1 DEF ListsInv, SteamTells, FriendsTypeOK, n
  <2>6. \A id, rel : \A m \in 0..n : Says(posts, m, id, rel) <=> Says(posts', m, id, rel)
    <3> SUFFICES ASSUME NEW id, NEW rel, NEW m \in 0..n
                 PROVE  Says(posts, m, id, rel) <=> Says(posts', m, id, rel)
      OBVIOUS
    <3>1. m \in Nat /\ \A k \in 1..m : posts[k] = posts'[k]
      BY <2>2
    <3> QED
      BY <3>1, SaysStays
  <2>7. ASSUME NEW id \in Ids PROVE Says(posts', n + 1, id, relation'[id])
    <3>1. CASE \A i \in DOMAIN list : list[i][1] # id
      <4>1. \A j \in (n + 1)..(n + 1) : id \notin Names(posts'[j])
        BY <2>2, <3>1 DEF Names
      <4>2. relation'[id] = relation[id] /\ Says(posts', n, id, relation[id])
        BY <2>1, <2>2, <2>5, <2>6, <3>1
      <4> QED
        BY <2>2, <4>1, <4>2, SaysUntilNamed
    <3>2. ASSUME NEW i \in DOMAIN list, list[i][1] = id PROVE Says(posts', n + 1, id, relation'[id])
      <4>1. list[i] = <<id, relation'[id]>>
        BY <2>1, <2>3, <3>2
      <4> QED
        BY <2>2, <4>1, SaysOfAnEntry
    <3> QED
      BY <3>1, <3>2
  <2>8. SteamTells'
    BY <2>2, <2>7 DEF SteamTells
  <2>9. ASSUME NEW k \in 1..(n + 1), NEW i \in DOMAIN posts'[k]
        PROVE  \E rel \in Relations : Says(posts', k - 1, posts'[k][i][1], rel)
                                      /\ posts'[k][i][2] \in Becomes(rel)
    <3>1. CASE k = n + 1
      BY <2>1, <2>2, <2>3, <2>5, <2>6, <3>1
    <3>2. CASE k \in 1..n
      <4>1. PICK rel \in Relations : Says(posts, k - 1, posts[k][i][1], rel)
                                     /\ posts[k][i][2] \in Becomes(rel)
        BY <2>2, <2>9, <3>2 DEF ListsInv, ListsTellChanges
      <4> QED
        BY <2>2, <2>6, <3>2, <4>1
    <3> QED
      BY <2>2, <3>1, <3>2
  <2>10. ListsTellChanges'
    BY <2>2, <2>9 DEF ListsTellChanges
  <2> QED
    BY <1>1, <2>4, <2>8, <2>10 DEF ListsInv
<1> QED
  BY <1>2, <1>3, HandlersLeave DEF FriendsStep, befriending, steam

----------------------------------------------------------------------------
LEMMA HandlersWaitStep ==
    ASSUME FriendsTypeOK, HandlersWait, FriendsStep
    PROVE  HandlersWait'
<1>0. DOMAIN posts = 1..Len(posts) /\ Len(posts) \in Nat /\ MaxPosts \in Nat
  BY ListsTyped, FriendsAssumption
<1>1. CASE Changes
  <2>1. PICK list \in Seq(Entry) : posts' = Append(posts, list)
    BY <1>1, ChangeSends
  <2>2. \A k \in DOMAIN posts : posts'[k] = posts[k]
    BY <1>0, <2>1 DEF FriendsTypeOK
  <2>3. UNCHANGED <<stage, at>>
    BY <1>1 DEF Changes, Change, handlers
  <2>4. \A k \in Posts : stage[k] # "unread" => k \in DOMAIN posts
    BY DEF FriendsTypeOK
  <2> QED
    BY <2>2, <2>3, <2>4 DEF HandlersWait, Here
<1>2. CASE FriendsHandler
  <2>1. UNCHANGED posts
    BY <1>2, HandlersLeave
  <2>2. PICK k \in DOMAIN posts, s \in Stages : k \in Posts /\ Moves(k, s)
    BY <1>2, HandlersMove
  <2>3. /\ stage' \in [Posts -> Stages] /\ stage'[k] = s /\ s # "unread"
        /\ \A j \in Posts \ {k} : stage'[j] = stage[j] /\ at'[j] = at[j]
        /\ s \in {"friend", "invitee", "users"} => at'[k] = at[k]
    BY <2>2 DEF Moves, FriendsTypeOK
  <2>4. \A j \in Posts : stage'[j] = "unread" => stage[j] = "unread" /\ j # k
    BY <2>3
  <2>5. \A j \in Posts : stage'[j] = "unread" => at'[j] = 1 /\ \A l \in (j + 1)..MaxPosts : stage'[l] = "unread"
    <3> SUFFICES ASSUME NEW j \in Posts, stage'[j] = "unread"
                 PROVE  at'[j] = 1 /\ \A l \in (j + 1)..MaxPosts : stage'[l] = "unread"
      OBVIOUS
    <3>1. stage[j] = "unread" /\ j # k /\ at[j] = 1 /\ \A l \in (j + 1)..MaxPosts : stage[l] = "unread"
      BY <2>4 DEF HandlersWait
    <3>2. stage[k] = "unread" => ~(j < k)
      BY <2>2, <3>1 DEF Moves, Posts
    <3>3. \A l \in (j + 1)..MaxPosts : l \in Posts /\ l # k
      BY <1>0, <2>2, <3>1, <3>2 DEF Posts
    <3> QED
      BY <2>3, <3>1, <3>3
  <2>6. s = "friend" => k # 1 /\ Here(k)'[2] = "friend"
    BY <2>1, <2>2, <2>3 DEF Moves, Here
  <2>7. s = "invitee" => Here(k)'[2] = "request"
    BY <2>1, <2>2, <2>3 DEF Moves, Here
  <2>8. s = "users" => k = 1 /\ at'[1] > Len(posts'[1])
    BY <2>1, <2>2, <2>3 DEF Moves
  <2>9. \A j \in Posts \ {k} : Here(j)' = Here(j)
    BY <2>1, <2>3 DEF Here
  <2>10. \A j \in Posts : /\ stage'[j] = "friend" => j # 1 /\ Here(j)'[2] = "friend"
                          /\ stage'[j] = "invitee" => Here(j)'[2] = "request"
                          /\ stage'[j] = "users" => j = 1 /\ at'[1] > Len(posts'[1])
    BY <2>1, <2>3, <2>6, <2>7, <2>8, <2>9 DEF HandlersWait
  <2> QED
    BY <2>5, <2>10 DEF HandlersWait
<1>3. CASE UNCHANGED <<befriending, intents>>
  BY <1>3 DEF HandlersWait, Here, befriending, steam, handlers
<1> QED
  BY <1>1, <1>2, <1>3 DEF FriendsStep

\* The history only grows.
LEMMA FairStays == FriendsStep => Fair' \subseteq Fair /\ intents' = intents
<1> USE DEF Fair
<1>1. Changes => UNCHANGED <<history, intents>>
  BY DEF Changes, Change, logon
<1>2. \A k \in Posts : /\ Begin(k) => crossed \subseteq crossed' /\ UNCHANGED <<skipped, intents>>
                       /\ EntryNone(k) => skipped \subseteq skipped' /\ UNCHANGED <<crossed, intents>>
                       /\ EntryFriend(k) \/ EntryRequest(k) \/ EndOfList(k) \/ FriendFetched(k) \/ InviteeFetched(k)
                          => UNCHANGED <<history, intents>>
  BY DEF Begin, EntryNone, EntryFriend, EntryRequest, EndOfList, FriendFetched, InviteeFetched, logon
<1>3. Loaded => UNCHANGED <<history, intents>>
  BY DEF Loaded, logon
<1> QED
  BY <1>1, <1>2, <1>3 DEF FriendsStep, FriendsHandler, befriending, history

LEMMA OneAtATimeStep ==
    ASSUME FriendsTypeOK, HandlersWait, OneAtATime, FriendsStep
    PROVE  OneAtATime'
<1>0. DOMAIN posts = 1..Len(posts) /\ Len(posts) \in Nat /\ Len(posts) \in Posts
  BY ListsTyped
<1> SUFFICES ASSUME "Users" \in intents', NEW id \in Fair', NEW k \in DOMAIN posts',
                    id \in Names(posts'[k]), stage'[k] # "unread",
                    NEW j \in 1..(k - 1), j = 1 \/ id \in Names(posts'[j])
             PROVE  stage'[j] = "done"
  BY DEF OneAtATime
<1>1. id \in Fair /\ "Users" \in intents
  BY FairStays
<1>2. CASE Changes
  <2>1. PICK list \in Seq(Entry) : posts' = Append(posts, list)
    BY <1>2, ChangeSends
  <2>2. UNCHANGED stage
    BY <1>2 DEF Changes, Change, handlers
  <2>3. k \in Posts => k \in DOMAIN posts
    BY <2>2 DEF FriendsTypeOK
  <2>4. k \in Posts /\ DOMAIN posts' = 1..(Len(posts) + 1) /\ \A l \in DOMAIN posts : posts'[l] = posts[l]
    <3>1. Len(posts) < MaxPosts
      BY <1>2, ChangeSends
    <3>2. Len(posts') = Len(posts) + 1 /\ DOMAIN posts' = 1..(Len(posts) + 1)
          /\ \A l \in DOMAIN posts : posts'[l] = posts[l]
      BY <1>0, <2>1 DEF FriendsTypeOK
    <3> QED
      BY <1>0, <3>1, <3>2, FriendsAssumption DEF Posts
  <2>5. k \in DOMAIN posts /\ j \in DOMAIN posts
    BY <1>0, <2>3, <2>4
  <2> QED
    BY <1>1, <2>2, <2>4, <2>5 DEF OneAtATime
<1>3. CASE FriendsHandler
  <2>1. UNCHANGED posts
    BY <1>3, HandlersLeave
  <2>2. PICK h \in DOMAIN posts, s \in Stages : h \in Posts /\ Moves(h, s)
    BY <1>3, HandlersMove
  <2>3. j \in DOMAIN posts /\ j \in Posts /\ k \in DOMAIN posts /\ k \in Posts
    BY <1>0, <2>1, FriendsAssumption DEF Posts
  <2>4. /\ stage'[h] = s /\ \A l \in Posts \ {h} : stage'[l] = stage[l]
    BY <2>2 DEF Moves, FriendsTypeOK
  <2>5. CASE stage[k] # "unread"
    <3>1. stage[j] = "done"
      BY <1>1, <2>1, <2>3, <2>5 DEF OneAtATime
    <3> QED
      BY <2>2, <2>3, <2>4, <3>1 DEF Moves
  <2>6. CASE stage[k] = "unread"
    <3>1. h = k /\ stage[j] # "unread" /\ stage'[j] = stage[j]
      BY <2>2, <2>3, <2>4, <2>6 DEF Moves
    <3>2. id \notin Overlap(k)
      BY <1>1, <2>2, <2>6, <3>1 DEF Moves, Fair
    <3> QED
      BY <2>1, <3>1, <3>2 DEF Overlap, Unfinished, Named, Names
  <2> QED
    BY <2>5, <2>6
<1>4. CASE UNCHANGED <<befriending, intents>>
  BY <1>1, <1>4 DEF OneAtATime, befriending, steam, handlers
<1> QED
  BY <1>2, <1>3, <1>4 DEF FriendsStep

----------------------------------------------------------------------------
\* The handler of a list is at the entry of a user with whom no other handler
\* deals: the client holds the user as the lists before it say.
LEMMA TurnOfAUser ==
    ASSUME FriendsInv, "Users" \in intents,
           NEW k \in Posts, stage[k] \in {"entries", "friend", "invitee"}, k \in DOMAIN posts,
           at[k] \in DOMAIN posts[k], Here(k)[1] \in Fair
    PROVE  \E rel \in Relations :
             /\ HeldAs(Here(k)[1], rel) /\ Here(k)[2] \in Becomes(rel)
             /\ k = 1 => rel = "none"
             /\ k # 1 => stage[1] = "done"
             /\ \A j \in DOMAIN posts \ {k} : \A i \in DOMAIN posts[j] :
                    posts[j][i][1] = Here(k)[1] => (Processed(j, i) <=> j <= k)
<1> DEFINE id == Here(k)[1]
<1>1. /\ DOMAIN posts = 1..Len(posts) /\ Len(posts) \in Nat /\ 1 \in Posts /\ MaxPosts \in Nat
      /\ Here(k) = <<id, Here(k)[2]>> /\ id \in Names(posts[k])
  BY ListsTyped, FriendsAssumption DEF FriendsInv, ListsInv, Here, Names, Posts
<1>2. at \in [Posts -> Nat \ {0}]
  BY DEF FriendsInv, ListsInv, FriendsTypeOK
<1>3. PICK n \in 0..Len(posts), rel \in Relations : Knows(id, n, rel)
  BY DEF FriendsInv, ClientKnows
<1>4. n < k
  <2>1. ~Processed(k, at[k])
    BY <1>2 DEF Processed
  <2> QED
    BY <1>1, <1>3, <2>1 DEF Knows, UpTo, Here
<1>5. \A j \in 1..(k - 1) : j = 1 \/ id \in Names(posts[j]) => stage[j] = "done"
  BY <1>1 DEF FriendsInv, OneAtATime
<1>6. \A j \in (n + 1)..(k - 1) : id \notin Names(posts[j])
  BY <1>1, <1>3, <1>5 DEF Knows, UpTo, Names, Processed
<1>7. Says(posts, k - 1, id, rel)
  <2>1. n \in Nat /\ k - 1 \in Nat /\ n <= k - 1
    BY <1>1, <1>4
  <2> QED
    BY <1>3, <1>6, <2>1, SaysUntilNamed DEF Knows
<1>8. PICK old \in Relations : Says(posts, k - 1, id, old) /\ Here(k)[2] \in Becomes(old)
  BY DEF FriendsInv, ListsInv, ListsTellChanges, Here
<1>9. rel = old
  <2>1. k - 1 \in 0..Len(posts)
    BY <1>1
  <2> QED
    BY <1>7, <1>8, <2>1, SaysOneThing DEF FriendsInv, ListsInv
<1>10. k = 1 => rel = "none"
  BY <1>7 DEF Says
<1>11. k # 1 => stage[1] = "done"
  BY <1>1, <1>5
<1>12. ASSUME NEW j \in DOMAIN posts \ {k}, NEW i \in DOMAIN posts[j], posts[j][i][1] = id
       PROVE  Processed(j, i) <=> j <= k
  <2>1. id \in Names(posts[j]) /\ j \in Posts /\ i \in Nat \ {0}
    BY <1>1, <1>12, ListsTyped DEF Names, FriendsInv, ListsInv, Posts
  <2>2. CASE j < k
    BY <1>1, <1>5, <2>1, <2>2 DEF Processed
  <2>3. CASE k < j
    <3>1. stage[j] = "unread"
      BY <1>1, <2>1, <2>3 DEF FriendsInv, OneAtATime
    <3>2. at[j] = 1
      BY <2>1, <3>1 DEF FriendsInv, HandlersWait
    <3> QED
      BY <1>1, <2>1, <2>3, <3>1, <3>2 DEF Processed
  <2> QED
    BY <1>1, <2>2, <2>3
<1> HIDE DEF id
<1>13. /\ HeldAs(id, rel) /\ Here(k)[2] \in Becomes(rel)
       /\ k = 1 => rel = "none"
       /\ k # 1 => stage[1] = "done"
       /\ \A j \in DOMAIN posts \ {k} : \A i \in DOMAIN posts[j] :
              posts[j][i][1] = id => (Processed(j, i) <=> j <= k)
  BY <1>3, <1>8, <1>9, <1>10, <1>11, <1>12 DEF Knows
<1> QED
  BY <1>13 DEF id

\* The handler goes past the entry, and holds the user as it says.
LEMMA UserDealtWith ==
    ASSUME FriendsInv, "Users" \in intents, FriendsHandler,
           NEW k \in Posts, stage[k] \in {"entries", "friend", "invitee"}, k \in DOMAIN posts,
           at[k] \in DOMAIN posts[k], Here(k)[1] \in Fair,
           Moves(k, "entries"), at' = [at EXCEPT ![k] = @ + 1],
           NEW id, NEW rel, id = Here(k)[1], rel = Here(k)[2], HeldAs(id, rel)'
    PROVE  \E n \in 0..Len(posts'), r \in Relations : Knows(id, n, r)'
<1>1. posts' = posts /\ k \in 0..Len(posts) /\ k \in Nat /\ at[k] \in Nat \ {0}
  BY HandlersLeave, ListsTyped, FriendsAssumption DEF FriendsInv, ListsInv, FriendsTypeOK, Posts
<1>2. /\ posts[k][at[k]] = <<id, rel>> /\ rel \in Relations
      /\ \A i \in DOMAIN posts[k] : posts[k][i][1] = id => i = at[k]
  BY ListsTyped DEF FriendsInv, ListsInv, NamedOnce, Here
<1>3. Says(posts, k, id, rel)
  BY <1>1, <1>2, SaysOfAnEntry
<1>4. /\ at'[k] = at[k] + 1
      /\ \A j \in Posts \ {k} : at'[j] = at[j] /\ stage'[j] = stage[j]
  BY DEF Moves, FriendsInv, ListsInv, FriendsTypeOK
<1>5. \A j \in DOMAIN posts \ {k} : j \in Posts /\ \A i \in DOMAIN posts[j] :
          posts[j][i][1] = id => (Processed(j, i)' <=> j <= k)
  <2>1. \A j \in DOMAIN posts : j \in Posts
    BY ListsTyped, FriendsAssumption DEF FriendsInv, ListsInv, Posts
  <2> QED
    BY <1>4, <2>1, TurnOfAUser DEF Processed
<1>6. UpTo(k, id)'
  BY <1>1, <1>2, <1>4, <1>5 DEF UpTo, Processed
<1>7. Knows(id, k, rel)'
  BY <1>1, <1>3, <1>6 DEF Knows
<1> QED
  BY <1>1, <1>2, <1>7

\* The handler does not come past an entry of a user, nor changes what it holds the user as.
LEMMA UserLeftAlone ==
    ASSUME FriendsInv, "Users" \in intents, FriendsHandler, NEW id \in Fair,
           \A rel \in Relations : HeldAs(id, rel) => HeldAs(id, rel)',
           \A j \in DOMAIN posts : \A i \in DOMAIN posts[j] :
               posts[j][i][1] = id => (Processed(j, i)' <=> Processed(j, i))
    PROVE  \E n \in 0..Len(posts'), rel \in Relations : Knows(id, n, rel)'
<1>1. posts' = posts
  BY HandlersLeave
<1>2. PICK n \in 0..Len(posts), rel \in Relations : Knows(id, n, rel)
  BY DEF FriendsInv, ClientKnows
<1>3. Knows(id, n, rel)'
  BY <1>1, <1>2 DEF Knows, UpTo
<1> QED
  BY <1>1, <1>2, <1>3

\* What becomes of what has been processed.
LEMMA ProcessedStays ==
    ASSUME FriendsTypeOK, FriendsHandler, NEW id, NEW k \in DOMAIN posts, k \in Posts, NEW s, Moves(k, s),
           at' = at \/ Here(k)[1] # id,
           s = "done" => \A i \in DOMAIN posts[k] : posts[k][i][1] = id => i < at[k]
    PROVE  \A j \in DOMAIN posts : \A i \in DOMAIN posts[j] :
               posts[j][i][1] = id => (Processed(j, i)' <=> Processed(j, i))
<1>1. /\ at \in [Posts -> Nat \ {0}] /\ stage \in [Posts -> Stages]
      /\ \A j \in DOMAIN posts : j \in Posts
  BY ListsTyped, FriendsAssumption DEF FriendsTypeOK, Posts
<1>2. /\ stage'[k] = s /\ stage[k] # "done"
      /\ \A j \in Posts \ {k} : stage'[j] = stage[j] /\ at'[j] = at[j]
      /\ at'[k] = at[k] \/ (at'[k] = at[k] + 1 /\ s = "entries" /\ Here(k)[1] # id)
  BY <1>1 DEF Moves
<1>3. ASSUME NEW i \in DOMAIN posts[k], posts[k][i][1] = id
      PROVE  Processed(k, i)' <=> Processed(k, i)
  <2>1. i \in Nat /\ at[k] \in Nat
    BY <1>1, ListsTyped
  <2>2. at'[k] # at[k] => i # at[k]
    BY <1>2, <1>3 DEF Here
  <2> QED
    BY <1>2, <1>3, <2>1, <2>2 DEF Processed
<1>4. ASSUME NEW j \in DOMAIN posts \ {k}, NEW i PROVE Processed(j, i)' <=> Processed(j, i)
  BY <1>1, <1>2 DEF Processed
<1> QED
  BY <1>3, <1>4

LEMMA ClientKnowsStep == FriendsInv /\ FriendsStep => ClientKnows'
<1> SUFFICES ASSUME FriendsInv, FriendsStep, "Users" \in intents', NEW id \in Fair'
             PROVE  \E n \in 0..Len(posts'), rel \in Relations : Knows(id, n, rel)'
    BY DEF ClientKnows
<1>0. id \in Fair /\ "Users" \in intents /\ FriendsTypeOK
  BY FairStays DEF FriendsInv, ListsInv
<1>1. /\ DOMAIN posts = 1..Len(posts) /\ Len(posts) \in Nat /\ MaxPosts \in Nat /\ Posts = 1..MaxPosts
      /\ \A k \in DOMAIN posts : DOMAIN posts[k] = 1..Len(posts[k]) /\ Len(posts[k]) \in Nat
      /\ at \in [Posts -> Nat \ {0}] /\ stage \in [Posts -> Stages]
      /\ \A k \in Posts : stage[k] # "unread" => k \in DOMAIN posts
      /\ \A k \in Posts : running = k => stage[k] = "entries" /\ k \in DOMAIN posts
  BY <1>0, ListsTyped, FriendsAssumption DEF FriendsTypeOK, Posts
<1>2. CASE Changes
  <2>1. PICK list \in Seq(Entry) : posts' = Append(posts, list) /\ Len(posts) < MaxPosts
    BY <1>0, <1>2, ChangeSends
  <2>2. /\ Len(posts') = Len(posts) + 1 /\ DOMAIN posts' = 1..(Len(posts) + 1)
        /\ \A k \in DOMAIN posts : posts'[k] = posts[k]
    BY <1>0, <2>1 DEF FriendsTypeOK
  <2>3. UNCHANGED <<stage, at, collected, friends, invites>>
    BY <1>2 DEF Changes, Change, handlers
  <2>4. PICK n \in 0..Len(posts), rel \in Relations : Knows(id, n, rel)
    BY <1>0 DEF FriendsInv, ClientKnows
  <2>5. Says(posts', n, id, rel)
    <3>1. n \in Nat /\ \A k \in 1..n : posts[k] = posts'[k]
      <4>1. n \in Nat /\ n <= Len(posts)
        BY <1>1, <2>4
      <4>2. \A k \in 1..n : k \in DOMAIN posts
        BY <1>1, <4>1
      <4> QED
        BY <2>2, <4>1, <4>2
    <3> QED
      BY <2>4, <3>1, SaysStays DEF Knows
  <2>6. HeldAs(id, rel)'
    BY <2>3, <2>4 DEF Knows, HeldAs
  <2>7. ASSUME NEW i \in DOMAIN posts'[Len(posts) + 1] PROVE ~Processed(Len(posts) + 1, i)
    <3>1. Len(posts) + 1 \in Posts /\ Len(posts) + 1 \notin DOMAIN posts
      BY <1>1, <2>1
    <3>2. stage[Len(posts) + 1] = "unread" /\ at[Len(posts) + 1] = 1
      BY <1>1, <3>1 DEF FriendsInv, HandlersWait
    <3>3. posts'[Len(posts) + 1] \in Seq(Entry)
      BY <2>1, <2>2, <1>0 DEF FriendsTypeOK
    <3>4. i \in Nat \ {0}
      BY <3>3
    <3> QED
      BY <3>2, <3>4 DEF Processed
  <2>8. UpTo(n, id)'
    <3> SUFFICES ASSUME NEW k \in 1..(Len(posts) + 1), NEW i \in DOMAIN posts'[k], posts'[k][i][1] = id
                 PROVE  Processed(k, i) <=> k <= n
      BY <2>2, <2>3 DEF UpTo, Processed
    <3>1. CASE k \in DOMAIN posts
      BY <2>2, <2>4, <3>1 DEF Knows, UpTo
    <3>2. CASE k = Len(posts) + 1
      BY <1>1, <2>7, <3>2
    <3> QED
      BY <1>1, <3>1, <3>2
  <2> QED
    BY <1>1, <2>2, <2>5, <2>6, <2>8 DEF Knows
<1>3. ASSUME NEW k \in Posts, Begin(k)
      PROVE  \E n \in 0..Len(posts'), rel \in Relations : Knows(id, n, rel)'
  <2>1. FriendsHandler /\ Moves(k, "entries") /\ at' = at /\ k \in DOMAIN posts /\ stage[k] # "done"
    BY <1>0, <1>3, HandlerMoves DEF FriendsHandler, Begin
  <2>2. /\ UNCHANGED <<collected, friends, invites>>
        /\ stage'[1] = "done" <=> stage[1] = "done"
    BY <1>1, <1>3, <2>1 DEF Begin, Moves
  <2>3. \A rel \in Relations : HeldAs(id, rel) => HeldAs(id, rel)'
    BY <2>2 DEF HeldAs
  <2> QED
    BY <1>0, <1>3, <2>1, <2>3, ProcessedStays, UserLeftAlone
<1>4. ASSUME NEW k \in Posts, FriendsHandler, stage[k] \in {"entries", "friend", "invitee"},
             at[k] \in DOMAIN posts[k], Moves(k, "entries"), at' = [at EXCEPT ![k] = @ + 1],
             NEW rel, rel = Here(k)[2],
             Here(k)[1] = id => HeldAs(id, rel)',
             Here(k)[1] # id => \A old \in Relations : HeldAs(id, old) => HeldAs(id, old)'
      PROVE  \E n \in 0..Len(posts'), r \in Relations : Knows(id, n, r)'
  <2>1. k \in DOMAIN posts
    BY <1>1, <1>4
  <2>2. CASE Here(k)[1] = id
    BY <1>0, <1>4, <2>1, <2>2, UserDealtWith
  <2>3. CASE Here(k)[1] # id
    BY <1>0, <1>4, <2>1, <2>3, ProcessedStays, UserLeftAlone
  <2> QED
    BY <2>2, <2>3
<1>5. ASSUME NEW k \in Posts, stage[k] \in {"entries", "friend", "invitee"}, at[k] \in DOMAIN posts[k],
             Here(k)[1] = id
      PROVE  \E rel \in Relations :
                 /\ HeldAs(id, rel) /\ Here(k)[2] \in Becomes(rel)
                 /\ k = 1 => rel = "none"
                 /\ k # 1 => stage[1] = "done"
  <2>1. k \in DOMAIN posts
    BY <1>1, <1>5
  <2> QED
    BY <1>0, <1>5, <2>1, TurnOfAUser
<1>6. ASSUME NEW k \in Posts, EntryFriend(k)
      PROVE  \E n \in 0..Len(posts'), rel \in Relations : Knows(id, n, rel)'
  <2>1. /\ FriendsHandler /\ running = k /\ stage[k] = "entries" /\ k \in DOMAIN posts
        /\ at[k] \in DOMAIN posts[k] /\ Here(k)[2] = "friend"
    BY <1>1, <1>6 DEF FriendsHandler, EntryFriend, AtEntry
  <2>2. CASE Suspend(k, "friend") /\ UNCHANGED <<collected, friends, invites>>
    <3>1. at' = at /\ Moves(k, "friend") /\ (stage'[1] = "done" <=> stage[1] = "done")
      <4>1. stage'[k] = "friend" /\ at' = at
        BY <1>1, <2>2 DEF Suspend
      <4>2. ~Moves(k, "entries")
        BY <1>1, <4>1 DEF Moves
      <4>3. Moves(k, "friend")
        BY <1>0, <1>6, <4>2, HandlerMoves
      <4>4. k = 1 => stage[1] = "entries"
        BY <2>1
      <4> QED
        BY <1>1, <4>1, <4>3, <4>4 DEF Moves
    <3>2. \A rel \in Relations : HeldAs(id, rel) => HeldAs(id, rel)'
      BY <2>2, <3>1 DEF HeldAs
    <3> QED
      BY <1>0, <2>1, <3>1, <3>2, ProcessedStays, UserLeftAlone
  <2>3. CASE Advance(k)
    <3>1. stage' = stage /\ at' = [at EXCEPT ![k] = @ + 1] /\ Moves(k, "entries")
      BY <1>0, <1>1, <1>6, <2>1, <2>3, HandlerMoves DEF Advance, Moves
    <3>2. \/ /\ Here(k)[1] \in invites /\ collected' = collected
             /\ invites' = invites \ {Here(k)[1]} /\ friends' = friends \union {Here(k)[1]}
          \/ /\ Here(k)[1] \notin invites /\ k = 1
             /\ collected' = collected \union {Here(k)[1]}
             /\ UNCHANGED <<friends, invites>>
      BY <1>1, <1>6, <2>1, <2>3 DEF EntryFriend, Suspend, Advance
    <3>3. Here(k)[1] # id => \A rel \in Relations : HeldAs(id, rel) => HeldAs(id, rel)'
      BY <3>1, <3>2 DEF HeldAs
    <3>4. ASSUME Here(k)[1] = id PROVE HeldAs(id, "friend")'
      <4>1. PICK rel \in Relations : /\ HeldAs(id, rel) /\ "friend" \in Becomes(rel)
                                     /\ k = 1 => rel = "none"
                                     /\ k # 1 => stage[1] = "done"
        BY <1>5, <2>1, <3>4
      <4> QED
        BY <2>1, <3>1, <3>2, <3>4, <4>1 DEF HeldAs
    <3> QED
      BY <1>4, <2>1, <3>1, <3>3, <3>4
  <2> QED
    BY <1>6, <2>2, <2>3 DEF EntryFriend
<1>7. ASSUME NEW k \in Posts, EntryRequest(k) \/ EndOfList(k)
      PROVE  \E n \in 0..Len(posts'), rel \in Relations : Knows(id, n, rel)'
  <2>1. /\ FriendsHandler /\ running = k /\ stage[k] = "entries" /\ k \in DOMAIN posts
        /\ UNCHANGED <<at, collected, friends, invites>>
    BY <1>1, <1>7 DEF FriendsHandler, EntryRequest, EndOfList, AtEntry, Suspend
  <2>2. PICK s \in {"invitee", "users", "done"} :
          /\ Moves(k, s)
          /\ s = "done" => k # 1 /\ at[k] > Len(posts[k])
    BY <1>0, <1>1, <1>7, <2>1, HandlerMoves DEF EndOfList, Suspend, Moves
  <2>3. s = "done" => \A i \in DOMAIN posts[k] : posts[k][i][1] = id => i < at[k]
    <3>1. at[k] \in Nat /\ Len(posts[k]) \in Nat /\ DOMAIN posts[k] = 1..Len(posts[k])
      BY <1>1, <2>1
    <3> QED
      BY <2>2, <3>1
  <2>4. stage'[1] = "done" <=> stage[1] = "done"
    <3>1. stage' = [stage EXCEPT ![k] = s] /\ 1 \in Posts
      BY <1>1, <2>2, FriendsAssumption DEF Moves
    <3> QED
      BY <1>1, <2>1, <2>2, <3>1
  <2>5. \A rel \in Relations : HeldAs(id, rel) => HeldAs(id, rel)'
    BY <2>1, <2>4 DEF HeldAs
  <2> QED
    BY <1>0, <2>1, <2>2, <2>3, <2>5, ProcessedStays, UserLeftAlone
<1>8. ASSUME NEW k \in Posts, EntryNone(k)
      PROVE  \E n \in 0..Len(posts'), rel \in Relations : Knows(id, n, rel)'
  <2>1. /\ FriendsHandler /\ running = k /\ stage[k] = "entries" /\ k \in DOMAIN posts
        /\ at[k] \in DOMAIN posts[k] /\ Here(k)[2] = "none" /\ collected' = collected
        /\ invites' = invites \ {Here(k)[1]}
        /\ friends' = IF Here(k)[1] \in invites THEN friends ELSE friends \ {Here(k)[1]}
    BY <1>1, <1>8 DEF FriendsHandler, EntryNone, AtEntry
  <2>2. ASSUME Here(k)[1] = id
        PROVE  id \in invites \union friends /\ (stage' = stage => HeldAs(id, "none")')
    <3>1. PICK rel \in Relations : /\ HeldAs(id, rel) /\ "none" \in Becomes(rel)
                                   /\ k = 1 => rel = "none"
                                   /\ k # 1 => stage[1] = "done"
      BY <1>5, <2>1, <2>2
    <3>2. rel # "none" /\ k # 1
      BY <3>1 DEF Becomes
    <3> QED
      BY <2>1, <2>2, <3>1, <3>2 DEF HeldAs, Relations
  <2>3. CASE Here(k)[1] \in invites \union friends
    <3>1. stage' = stage /\ at' = [at EXCEPT ![k] = @ + 1] /\ Moves(k, "entries")
      BY <1>0, <1>1, <1>8, <2>1, <2>3, HandlerMoves DEF EntryNone, Advance, Moves
    <3>2. Here(k)[1] # id => \A rel \in Relations : HeldAs(id, rel) => HeldAs(id, rel)'
      BY <2>1, <3>1 DEF HeldAs
    <3> QED
      BY <1>4, <2>1, <2>2, <3>1, <3>2
  <2>4. CASE Here(k)[1] \notin invites \union friends
    <3>1. /\ Suspend(k, "done") /\ at' = at
          /\ skipped' = skipped \union {posts[k][i][1] : i \in (at[k] + 1)..Len(posts[k])}
      BY <1>8, <2>4 DEF EntryNone, Suspend
    <3>2. Here(k)[1] # id /\ Moves(k, "done")
      BY <1>0, <1>1, <1>8, <2>1, <2>2, <2>4, <3>1, HandlerMoves DEF Suspend, Moves
    <3>3. ASSUME NEW i \in DOMAIN posts[k], posts[k][i][1] = id PROVE i < at[k]
      <4>1. i \notin (at[k] + 1)..Len(posts[k])
        BY <3>1, <3>3 DEF Fair
      <4>2. i # at[k]
        BY <3>2, <3>3 DEF Here
      <4> QED
        BY <1>1, <2>1, <4>1, <4>2
    <3>4. \A rel \in Relations : HeldAs(id, rel) => HeldAs(id, rel)'
      <4>1. friends' = friends /\ invites' = invites /\ collected' = collected
        BY <2>1, <2>4
      <4>2. k # 1
        <5>1. PICK rel \in Relations : Says(posts, k - 1, Here(k)[1], rel) /\ "none" \in Becomes(rel)
          BY <1>0, <2>1 DEF FriendsInv, ListsInv, ListsTellChanges, Here
        <5>2. rel # "none"
          BY <5>1 DEF Becomes
        <5> QED
          BY <5>1, <5>2 DEF Says
      <4>3. stage' = [stage EXCEPT ![k] = "done"]
        BY <3>1 DEF Suspend
      <4> QED
        BY <1>1, <4>1, <4>2, <4>3 DEF HeldAs
    <3> QED
      BY <1>0, <2>1, <3>1, <3>2, <3>3, <3>4, ProcessedStays, UserLeftAlone
  <2> QED
    BY <2>3, <2>4
<1>9. ASSUME NEW k \in Posts, FriendFetched(k)
      PROVE  \E n \in 0..Len(posts'), rel \in Relations : Knows(id, n, rel)'
  <2>1. /\ FriendsHandler /\ stage[k] = "friend" /\ at[k] \in DOMAIN posts[k]
        /\ Moves(k, "entries") /\ at' = [at EXCEPT ![k] = @ + 1]
        /\ k # 1 /\ Here(k)[2] = "friend"
        /\ friends' = friends \union {Here(k)[1]} /\ UNCHANGED <<collected, invites>>
    BY <1>0, <1>9, HandlerMoves DEF FriendsHandler, FriendFetched, Resume, FriendsTypeOK, FriendsInv, HandlersWait
  <2>2. stage'[1] = stage[1]
    BY <1>1, <2>1 DEF Moves
  <2>3. Here(k)[1] # id => \A rel \in Relations : HeldAs(id, rel) => HeldAs(id, rel)'
    BY <2>1, <2>2 DEF HeldAs
  <2>4. ASSUME Here(k)[1] = id PROVE HeldAs(id, "friend")'
    <3>1. stage[1] = "done"
      BY <1>5, <2>1, <2>4
    <3>2. id \notin invites
      BY <1>0, <2>1, <2>4 DEF FriendsInv, FetchedUninvited
    <3> QED
      BY <2>1, <2>2, <2>4, <3>1, <3>2 DEF HeldAs
  <2> QED
    BY <1>4, <2>1, <2>3, <2>4
<1>10. ASSUME NEW k \in Posts, InviteeFetched(k)
       PROVE  \E n \in 0..Len(posts'), rel \in Relations : Knows(id, n, rel)'
  <2>1. /\ FriendsHandler /\ stage[k] = "invitee" /\ at[k] \in DOMAIN posts[k]
        /\ Moves(k, "entries") /\ at' = [at EXCEPT ![k] = @ + 1] /\ Here(k)[2] = "request"
        /\ invites' = invites \union {Here(k)[1]} /\ UNCHANGED <<collected, friends>>
    BY <1>0, <1>10, HandlerMoves DEF FriendsHandler, InviteeFetched, Resume, FriendsTypeOK, FriendsInv, HandlersWait
  <2>2. stage'[1] = "done" <=> stage[1] = "done"
    BY <1>1, <2>1 DEF Moves
  <2>3. Here(k)[1] # id => \A rel \in Relations : HeldAs(id, rel) => HeldAs(id, rel)'
    BY <2>1, <2>2 DEF HeldAs
  <2>4. ASSUME Here(k)[1] = id PROVE HeldAs(id, "request")'
    <3>1. PICK rel \in Relations : HeldAs(id, rel) /\ "request" \in Becomes(rel)
      BY <1>5, <2>1, <2>4
    <3>2. rel = "none"
      BY <3>1 DEF Becomes, Relations
    <3> QED
      BY <2>1, <2>2, <2>4, <3>1, <3>2 DEF HeldAs
  <2> QED
    BY <1>4, <2>1, <2>3, <2>4
<1>11. ASSUME Loaded PROVE \E n \in 0..Len(posts'), rel \in Relations : Knows(id, n, rel)'
  <2>1. 1 \in Posts /\ stage[1] = "users" /\ at[1] > Len(posts[1]) /\ 1 \in DOMAIN posts
    BY <1>1, <1>11, FriendsAssumption DEF Loaded, FriendsInv, HandlersWait
  <2>2. FriendsHandler /\ Moves(1, "done") /\ at' = at /\ friends' = collected /\ UNCHANGED <<collected, invites>>
    BY <1>0, <1>11, <2>1, HandlerMoves DEF FriendsHandler, Loaded, Suspend
  <2>3. \A rel \in Relations : HeldAs(id, rel) => HeldAs(id, rel)'
    BY <1>1, <2>1, <2>2 DEF HeldAs, Moves
  <2>4. \A i \in DOMAIN posts[1] : i < at[1]
    BY <1>1, <2>1
  <2> QED
    BY <1>0, <2>1, <2>2, <2>3, <2>4, ProcessedStays, UserLeftAlone
<1>12. CASE FriendsHandler
  BY <1>3, <1>6, <1>7, <1>8, <1>9, <1>10, <1>11, <1>12 DEF FriendsHandler
<1>13. CASE UNCHANGED <<befriending, intents>>
  <2>1. PICK n \in 0..Len(posts), rel \in Relations : Knows(id, n, rel)
    BY <1>0 DEF FriendsInv, ClientKnows
  <2>2. Knows(id, n, rel)'
    BY <1>13, <2>1 DEF Knows, HeldAs, UpTo, Processed, befriending, steam, handlers
  <2> QED
    BY <1>13, <2>1, <2>2 DEF befriending, steam
<1> QED
  BY <1>2, <1>12, <1>13 DEF FriendsStep

\* Two handlers do not both fetch a user with whom they deal one at a time.
LEMMA FetchedUninvitedStep == FriendsInv /\ FriendsStep => FetchedUninvited'
<1> SUFFICES ASSUME FriendsInv, FriendsStep, "Users" \in intents', NEW k \in Posts,
                    stage'[k] = "friend", Here(k)'[1] \in Fair'
             PROVE  Here(k)'[1] \notin invites'
    BY DEF FetchedUninvited
<1>0. "Users" \in intents /\ FriendsTypeOK /\ Fair' \subseteq Fair
  BY FairStays DEF FriendsInv, ListsInv
<1>1. /\ DOMAIN posts = 1..Len(posts) /\ Posts = 1..MaxPosts /\ MaxPosts \in Nat
      /\ at \in [Posts -> Nat \ {0}] /\ stage \in [Posts -> Stages]
      /\ \A h \in Posts : stage[h] # "unread" => h \in DOMAIN posts
      /\ \A h \in Posts : stage[h] \in {"friend", "invitee"} => at[h] \in DOMAIN posts[h]
      /\ \A h \in Posts : running = h => stage[h] = "entries"
  BY <1>0, ListsTyped, FriendsAssumption DEF FriendsTypeOK, Posts
<1>2. stage[k] = "friend" /\ Here(k)[1] \in Fair => Here(k)[1] \notin invites
  BY <1>0 DEF FriendsInv, FetchedUninvited
<1>3. CASE Changes
  <2>1. PICK list \in Seq(Entry) : posts' = Append(posts, list)
    BY <1>0, <1>3, ChangeSends
  <2>2. UNCHANGED <<stage, at, invites>>
    BY <1>3 DEF Changes, Change, handlers
  <2>3. k \in DOMAIN posts /\ posts'[k] = posts[k]
    BY <1>0, <1>1, <2>1, <2>2 DEF FriendsTypeOK
  <2> QED
    BY <1>0, <1>2, <2>2, <2>3 DEF Here
<1>4. CASE FriendsHandler
  <2>1. posts' = posts
    BY <1>4, HandlersLeave
  <2>2. PICK h \in DOMAIN posts, s \in Stages : h \in Posts /\ Moves(h, s)
    BY <1>0, <1>4, HandlersMove
  <2>3. stage' = [stage EXCEPT ![h] = s] /\ \A j \in Posts \ {h} : at'[j] = at[j]
    BY <1>1, <2>2 DEF Moves
  <2>4. CASE stage[k] # "friend"
    <3>1. \A j \in Posts : /\ Begin(j) \/ EntryRequest(j) \/ EntryNone(j) => stage'[k] # "friend"
                           /\ EndOfList(j) \/ FriendFetched(j) \/ InviteeFetched(j) => stage'[k] # "friend"
      BY <1>1, <2>4 DEF Begin, EntryRequest, EntryNone, EndOfList, FriendFetched, InviteeFetched,
                        Advance, Suspend, Resume
    <3>2. ~Loaded
      BY <1>1, <2>4 DEF Loaded, Suspend
    <3>3. PICK j \in Posts : EntryFriend(j)
      BY <1>4, <3>1, <3>2 DEF FriendsHandler
    <3>4. j = k /\ Suspend(k, "friend")
      BY <1>1, <2>4, <3>3 DEF EntryFriend, Advance, Suspend
    <3> QED
      BY <1>1, <2>1, <2>4, <3>3, <3>4 DEF EntryFriend, Advance, Suspend, Here
  <2>5. CASE stage[k] = "friend"
    <3>1. Here(k)' = Here(k)
      <4>1. at'[k] = at[k]
        BY <1>1, <2>2, <2>3 DEF Moves
      <4> QED
        BY <2>1, <4>1 DEF Here
    <3>2. k \in DOMAIN posts /\ at[k] \in DOMAIN posts[k] /\ Here(k)[1] \in Names(posts[k])
      BY <1>1, <2>5 DEF Here, Names
    <3>3. ASSUME NEW j \in Posts, InviteeFetched(j) PROVE Here(j)[1] # Here(k)[1]
      <4>1. stage[j] = "invitee" /\ j \in DOMAIN posts /\ Here(j)[1] \in Names(posts[j])
        BY <1>1, <3>3 DEF InviteeFetched, Resume, Here, Names
      <4>2. j # k /\ (j < k \/ k < j) /\ j \in 1..Len(posts) /\ k \in 1..Len(posts)
        BY <1>1, <2>5, <3>2, <4>1
      <4>3. SUFFICES ASSUME Here(j)[1] = Here(k)[1] PROVE FALSE
        OBVIOUS
      <4>4. Here(k)[1] \in Fair
        BY <1>0, <3>1
      <4>5. k < j => stage[k] = "done"
        BY <1>0, <3>2, <4>1, <4>2, <4>3, <4>4 DEF FriendsInv, OneAtATime
      <4>6. j < k => stage[j] = "done"
        BY <1>0, <2>5, <3>2, <4>1, <4>2, <4>3, <4>4 DEF FriendsInv, OneAtATime
      <4> QED
        BY <2>5, <4>1, <4>2, <4>5, <4>6
    <3>4. \A id \in invites' \ invites : \E j \in Posts : InviteeFetched(j) /\ id = Here(j)[1]
      BY <1>4 DEF FriendsHandler, Begin, EntryFriend, EntryRequest, EntryNone, EndOfList, FriendFetched,
                  InviteeFetched, Loaded
    <3> QED
      BY <1>0, <1>2, <2>5, <3>1, <3>3, <3>4
  <2> QED
    BY <2>4, <2>5
<1>5. CASE UNCHANGED <<befriending, intents>>
  BY <1>0, <1>2, <1>5 DEF befriending, steam, handlers, Here
<1> QED
  BY <1>3, <1>4, <1>5 DEF FriendsStep

\* A removal finds the user with whom no other handler deals.
LEMMA RemovalFindsTheUser ==
    ASSUME FriendsInv, "Users" \in intents, NEW k \in Posts, AtEntry(k, "none"), Here(k)[1] \in Fair
    PROVE  Here(k)[1] \in invites \union friends
<1>1. stage[k] = "entries" /\ k \in DOMAIN posts /\ at[k] \in DOMAIN posts[k] /\ Here(k)[2] = "none"
  BY DEF AtEntry, FriendsInv, ListsInv, FriendsTypeOK
<1>2. PICK rel \in Relations : /\ HeldAs(Here(k)[1], rel) /\ "none" \in Becomes(rel)
                               /\ k = 1 => rel = "none"
                               /\ k # 1 => stage[1] = "done"
  BY <1>1, TurnOfAUser
<1>3. rel # "none" /\ k # 1
  BY <1>2 DEF Becomes
<1> QED
  BY <1>2, <1>3 DEF HeldAs, Relations

LEMMA GivesUpStep == FriendsInv /\ FriendsStep => GivesUpWhenCrossed'
<1> SUFFICES ASSUME FriendsInv, FriendsStep, "Users" \in intents', NEW k \in DOMAIN posts',
                    stage'[k] = "done", at'[k] \in DOMAIN posts'[k]
             PROVE  Here(k)'[1] \in crossed' \union skipped'
    BY DEF GivesUpWhenCrossed
<1>0. "Users" \in intents /\ FriendsTypeOK /\ HandlersWait /\ Fair' \subseteq Fair /\ FriendsTypeOK'
  BY FairStays, FriendsTypesStep DEF FriendsInv, ListsInv
<1>1. /\ DOMAIN posts = 1..Len(posts) /\ Len(posts) \in Posts /\ Posts = 1..MaxPosts /\ MaxPosts \in Nat
      /\ DOMAIN posts' = 1..Len(posts') /\ Len(posts') \in Posts
      /\ at \in [Posts -> Nat \ {0}] /\ stage \in [Posts -> Stages]
      /\ \A h \in Posts : stage[h] # "unread" => h \in DOMAIN posts
      /\ \A h \in Posts : running = h => stage[h] = "entries"
  BY <1>0, ListsTyped, FriendsAssumption DEF FriendsTypeOK, Posts
<1>2. k \in Posts /\ Here(k)'[1] \in Ids
  <2>1. k \in Posts /\ posts' \in Seq(Seq(Entry))
    BY <1>0, <1>1 DEF FriendsTypeOK
  <2>2. posts'[k] \in Seq(Entry)
    BY <2>1
  <2>3. posts'[k][at'[k]] \in Entry
    BY <2>2
  <2> QED
    BY <2>1, <2>3 DEF Here, Entry
<1>3. stage[k] = "done" /\ at[k] \in DOMAIN posts[k] => Here(k)[1] \in crossed \union skipped
  BY <1>0, <1>1, <1>2 DEF FriendsInv, GivesUpWhenCrossed
<1>4. crossed \union skipped \subseteq Ids /\ Ids \ (crossed' \union skipped') \subseteq Ids \ (crossed \union skipped)
  BY <1>0 DEF Fair, FriendsTypeOK
<1>5. CASE Changes
  <2>1. PICK list \in Seq(Entry) : posts' = Append(posts, list)
    BY <1>0, <1>5, ChangeSends
  <2>2. UNCHANGED <<stage, at>>
    BY <1>5 DEF Changes, Change, handlers
  <2>3. k \in DOMAIN posts /\ posts'[k] = posts[k]
    BY <1>0, <1>1, <1>2, <2>1, <2>2 DEF FriendsTypeOK
  <2> QED
    BY <1>2, <1>3, <1>4, <2>2, <2>3 DEF Here
<1>6. CASE FriendsHandler
  <2>1. posts' = posts
    BY <1>6, HandlersLeave
  <2>2. CASE stage[k] = "done" /\ at'[k] = at[k]
    BY <1>2, <1>3, <1>4, <2>1, <2>2 DEF Here
  <2>3. PICK h \in DOMAIN posts, s \in Stages : h \in Posts /\ Moves(h, s)
    BY <1>0, <1>6, HandlersMove
  <2>4. stage[k] # "done" => h = k /\ s = "done"
    BY <1>1, <1>2, <2>3 DEF Moves
  <2>5. stage[k] = "done" => at'[k] = at[k]
    BY <1>1, <1>2, <2>3 DEF Moves
  <2>6. CASE stage[k] # "done"
    <3>1. EntryNone(k)
      <4>1. \A j \in Posts : Begin(j) \/ EntryFriend(j) \/ EntryRequest(j) \/ FriendFetched(j) \/ InviteeFetched(j)
                            => stage'[k] # "done"
        BY <1>0, <1>1, <1>2, <2>6 DEF Begin, EntryFriend, EntryRequest, FriendFetched, InviteeFetched,
                                      Advance, Suspend, Resume
      <4>2. ASSUME NEW j \in Posts, EndOfList(j) PROVE FALSE
        <5>1. j = k /\ at'[k] = at[k] /\ at[k] > Len(posts[k])
          BY <1>1, <1>2, <2>6, <4>2 DEF EndOfList, Suspend
        <5>2. at[k] \in Nat /\ posts[k] \in Seq(Entry)
          BY <1>0, <1>1, <1>2, <2>1 DEF FriendsTypeOK
        <5> QED
          BY <2>1, <5>1, <5>2
      <4>3. ASSUME Loaded PROVE FALSE
        <5>1. 1 = k /\ at'[k] = at[k] /\ at[k] > Len(posts[k])
          BY <1>0, <1>1, <1>2, <2>6, <4>3 DEF Loaded, Suspend, HandlersWait
        <5>2. at[k] \in Nat /\ posts[k] \in Seq(Entry)
          BY <1>0, <1>1, <1>2, <2>1 DEF FriendsTypeOK
        <5> QED
          BY <2>1, <5>1, <5>2
      <4>4. PICK j \in Posts : EntryNone(j)
        BY <1>6, <4>1, <4>2, <4>3 DEF FriendsHandler
      <4>5. j = k
        BY <1>1, <1>2, <2>6, <4>4 DEF EntryNone, Advance, Suspend
      <4> QED
        BY <4>4, <4>5
    <3>2. at'[k] = at[k] /\ Here(k)[1] \notin invites \union friends
      BY <2>6, <3>1 DEF EntryNone, Advance, Suspend
    <3> QED
      BY <1>0, <1>2, <1>4, <2>1, <3>1, <3>2, RemovalFindsTheUser DEF EntryNone, Fair, Here
  <2> QED
    BY <2>2, <2>5, <2>6
<1>7. CASE UNCHANGED <<befriending, intents>>
  BY <1>2, <1>3, <1>7 DEF befriending, steam, handlers, history, Here
<1> QED
  BY <1>5, <1>6, <1>7 DEF FriendsStep

LEMMA FriendsInvInit == FriendsInit => FriendsInv
<1> SUFFICES ASSUME FriendsInit PROVE FriendsInv
    OBVIOUS
<1>1. ListsInv
  BY ListsInit
<1>2. /\ \A k \in Posts : stage[k] = "unread" /\ at[k] = 1
      /\ collected = {} /\ friends = {} /\ invites = {} /\ crossed = {} /\ skipped = {}
      /\ DOMAIN posts = {1} /\ Len(posts) = 1 /\ 1 \in Posts /\ Posts = 1..MaxPosts /\ MaxPosts \in Nat
  BY <1>1, FullList, ListsTyped, FriendsAssumption DEF FriendsInit, ListsInv, Posts
<1>3. HandlersWait
  BY <1>2 DEF HandlersWait
<1>4. OneAtATime /\ FetchedUninvited /\ GivesUpWhenCrossed
  BY <1>2 DEF OneAtATime, FetchedUninvited, GivesUpWhenCrossed
<1>5. ASSUME NEW id \in Fair PROVE Knows(id, 0, "none")
  <2>1. \A i \in DOMAIN posts[1] : i \in Nat \ {0}
    BY <1>1, <1>2, ListsTyped DEF ListsInv
  <2>2. UpTo(0, id)
    BY <1>2, <2>1 DEF UpTo, Processed
  <2> QED
    BY <1>2, <2>2 DEF Knows, Says, HeldAs
<1>6. ClientKnows
  BY <1>2, <1>5 DEF ClientKnows, Relations
<1> QED
  BY <1>1, <1>3, <1>4, <1>6 DEF FriendsInv

LEMMA FriendsInvStep == FriendsInv /\ FriendsStep => FriendsInv'
BY ListsStep, HandlersWaitStep, OneAtATimeStep, ClientKnowsStep, FetchedUninvitedStep, GivesUpStep
   DEF FriendsInv, ListsInv

LEMMA FriendsInvAgrees == FriendsInv => FriendsAgree
<1> SUFFICES ASSUME FriendsInv, "Users" \in intents, \A k \in DOMAIN posts : stage[k] = "done",
                    NEW id \in Ids \ (crossed \union skipped)
             PROVE  (id \in friends <=> relation[id] = "friend") /\ (id \in invites <=> relation[id] = "request")
    BY DEF FriendsAgree
<1>1. FriendsTypeOK /\ NamedOnce /\ id \in Fair
  BY DEF FriendsInv, ListsInv, Fair
<1>2. DOMAIN posts = 1..Len(posts) /\ Len(posts) \in Nat /\ 1 \in DOMAIN posts
  BY <1>1, ListsTyped DEF Posts
<1>3. PICK n \in 0..Len(posts), rel \in Relations : Knows(id, n, rel)
  BY <1>1 DEF FriendsInv, ClientKnows
<1>4. \A j \in (n + 1)..Len(posts) : id \notin Names(posts[j])
  BY <1>2, <1>3 DEF Knows, UpTo, Names, Processed
<1>5. Says(posts, Len(posts), id, rel)
  BY <1>2, <1>3, <1>4, SaysUntilNamed DEF Knows
<1>6. rel = relation[id]
  BY <1>1, <1>2, <1>5, SaysOneThing DEF FriendsInv, ListsInv, SteamTells
<1> QED
  BY <1>2, <1>3, <1>6 DEF Knows, HeldAs

----------------------------------------------------------------------------
\* The friends keep their types, whatever else goes on.
THEOREM FriendsTyped == FriendsSpec => []FriendsTypeOK
<1>1. FriendsAlone => FriendsTypeOK
  BY FriendsTypesInit DEF FriendsAlone
<1>2. FriendsTypeOK /\ [FriendsNext]_<<logon, befriending>> => FriendsTypeOK'
  BY FriendsTypesStep, StepAlone
<1> QED
  BY <1>1, <1>2, PTL DEF FriendsSpec

LEMMA FriendsInvAlone == FriendsSpec => []FriendsInv
<1>1. FriendsAlone => FriendsInv
  BY FriendsInvInit DEF FriendsAlone
<1>2. FriendsInv /\ [FriendsNext]_<<logon, befriending>> => FriendsInv'
  BY FriendsInvStep, StepAlone
<1> QED
  BY <1>1, <1>2, PTL DEF FriendsSpec

LEMMA FriendsInvAtStartup == Spec => []FriendsInv
<1>1. Init => FriendsInv
  BY FriendsInvInit DEF Init
<1>2. FriendsInv /\ [Next]_vars => FriendsInv'
  BY FriendsInvStep, StepOfStartup
<1> QED
  BY <1>1, <1>2, PTL DEF Spec

\* When the handlers of all lists are done, the client's friends and invites
\* are those in Steam, but for users with whom two handlers dealt at a time
\* and those whom a handler left out.
THEOREM FriendsAreAgreed == FriendsSpec => []FriendsAgree
BY FriendsInvAlone, FriendsInvAgrees, PTL

THEOREM FriendsAreAgreedAtStartup == Spec => []FriendsAgree
BY FriendsInvAtStartup, FriendsInvAgrees, PTL

\* A handler gives up only at a removal of a user with whom two handlers dealt
\* at a time or whom one left out.
THEOREM OnlyCrossedGiveUp == FriendsSpec => []GivesUpWhenCrossed
<1>1. FriendsInv => GivesUpWhenCrossed
  BY DEF FriendsInv
<1> QED
  BY <1>1, FriendsInvAlone, PTL

THEOREM OnlyCrossedGiveUpAtStartup == Spec => []GivesUpWhenCrossed
<1>1. FriendsInv => GivesUpWhenCrossed
  BY DEF FriendsInv
<1> QED
  BY <1>1, FriendsInvAtStartup, PTL

----------------------------------------------------------------------------
(* All of it *)

LEMMA TypesInit == Init => TypeOK
<1>1. LogonInit => LogonTypeOK
  BY DEF LogonInit, LogonTypeOK
<1>2. Init => extra \in 0..MaxEvents /\ ready = "friends" /\ FriendsInit /\ LogonInit
  BY StartupAssumption DEF Init
<1> QED
  BY <1>1, <1>2, LicensesTypesInit, FriendsTypesInit DEF TypeOK

LEMMA LogonStep == LogonTypeOK /\ [Next]_vars => LogonTypeOK'
<1> SUFFICES ASSUME LogonTypeOK, [Next]_vars PROVE LogonTypeOK'
    OBVIOUS
<1>1. \/ UNCHANGED logon
      \/ LoginCompletes
      \/ Raise
  <2>1. CASE LicensesHandler
    BY <2>1 DEF LicensesHandler, Licensing, LicenseHandler, FetchOwners, Store
  <2>2. ASSUME NEW c \in Calls, Answered(c) \/ Called(c) \/ Licensing(Cancel(c)) PROVE UNCHANGED logon
    BY <2>2 DEF Answered, Called, Licensing, Grant, Answer, Fail, Cancel, LicenseCall, Redeem, Hold,
                Return, Unwind
  <2>3. CASE Outside
    BY <2>3 DEF Outside, Changes, Change, SendAgain, Ask
  <2>4. CASE FriendsHandlers
    BY <2>4 DEF FriendsHandlers, FriendsHandler, Begin, EntryFriend, EntryRequest, EntryNone,
                EndOfList, FriendFetched, InviteeFetched, Loaded
  <2>5. CASE FriendsReady \/ LicensesReady \/ UNCHANGED vars
    BY <2>5 DEF FriendsReady, LicensesReady, vars
  <2> QED
    BY <2>1, <2>2, <2>3, <2>4, <2>5 DEF Next
<1> QED
  BY <1>1 DEF LogonTypeOK, LoginCompletes, Raise, logon

LEMMA ExtraStep == TypeOK /\ [Next]_vars => extra' \in 0..MaxEvents
<1> SUFFICES ASSUME TypeOK, [Next]_vars PROVE extra' \in 0..MaxEvents
    OBVIOUS
<1>1. extra \in 0..MaxEvents /\ MaxEvents \in Nat
  BY StartupAssumption DEF TypeOK
<1>2. CASE Outside
  <2>1. Cardinality({c \in Calls : call[c] # "idle"}) \in Nat
    BY LicensesAssumption, FS_Subset, FS_CardinalityType
  <2>2. Len(posts) \in Nat \ {0}
    BY ListsTyped, FriendsAssumption DEF TypeOK, Posts
  <2>3. extra < MaxEvents
    BY <1>1, <1>2, <2>1, <2>2 DEF Outside, Events
  <2>4. extra' = extra \/ extra' = extra + 1
    BY <1>2 DEF Outside
  <2> QED
    BY <1>1, <2>3, <2>4
<1>3. CASE ~Outside
  BY <1>1, <1>3 DEF Next, FriendsHandlers, LicensesHandler, Answered, Called, Licensing, FriendsReady,
                    LicensesReady, vars
<1> QED
  BY <1>2, <1>3

LEMMA ReadyStep == TypeOK /\ [Next]_vars => ready' \in {"friends", "licenses", "ready"}
BY DEF TypeOK, Next, Outside, FriendsHandlers, LicensesHandler, Answered, Called, Licensing, FriendsReady,
       LicensesReady, vars

\* While the client gets ready every variable keeps its type.
THEOREM Types == Spec => []TypeOK
<1>1. TypeOK /\ [Next]_vars => TypeOK'
  BY LogonStep, LicensesTypesStep, FriendsTypesStep, StepOfStartup, ExtraStep, ReadyStep DEF TypeOK
<1> QED
  BY <1>1, TypesInit, PTL DEF Spec
=============================================================================
