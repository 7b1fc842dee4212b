------------------------------ MODULE Licenses ------------------------------
(***************************************************************************)
(* Licenses: hold_licenses, handle_licenses and request_free_licenses      *)
(* (state.py), and Client.redeem_package (client.py).                      *)
(*                                                                         *)
(* A call that asks for a license takes a lock, asks, and waits for the    *)
(* list of licenses in which Steam tells of it: redeem_package for a       *)
(* future that the handler settles, request_free_licenses for an event     *)
(* that it cleared and that the handler of any list sets.                  *)
(*                                                                         *)
(* Abstractions.  A list names all of the account's packages.  The owners  *)
(* of the licenses, which the handler fetches, take time and nothing else. *)
(* The product info that request_free_licenses ends with is left out, and  *)
(* the waiters of the lock are let in in any order.                        *)
(***************************************************************************)
EXTENDS Integers, FiniteSets, Sequences, Logon

CONSTANTS Packages,
          Redeems,   \* calls of redeem_package
          Frees,     \* calls of request_free_licenses
          PackageOf, \* the package each asks for
          NoCall,
          MaxLists   \* bound: lists of licenses

Calls == Redeems \union Frees

ASSUME LicensesAssumption ==
    /\ Redeems \intersect Frees = {} /\ IsFiniteSet(Calls)
    /\ NoCall \notin Calls
    /\ PackageOf \in [Calls -> Packages]

VARIABLES owned,    \* the packages of the account
          lists,    \* the lists Steam has sent
          handler,  \* where the handler of each is
          licenses, \* licenses
          handled,  \* handled_licenses
          holder,   \* who has _license_lock
          call,     \* where each call is
          fut,      \* the future of each redeem_package
          waited,   \* licenses_being_waited_for
          unheard,  \* history: the lists not handled when a call cleared the event
          again     \* history: calls that asked for what was owned

account == <<owned, lists>>
past == <<unheard, again>>
licensing == <<account, handler, licenses, handled, holder, call, fut, waited, past>>

CallSteps == {"idle", "queued", "asking", "granted", "waiting", "unwinding",
              "returned", "failed"}

LicensesTypeOK ==
    /\ owned \subseteq Packages
    /\ lists \in Seq(SUBSET Packages) /\ Len(lists) <= MaxLists
    /\ handler \in [1..MaxLists -> {"none", "users", "done"}]
    /\ \A k \in 1..MaxLists : handler[k] # "none" => k <= Len(lists)
    /\ licenses \subseteq Packages
    /\ handled \in BOOLEAN
    /\ holder \in Calls \union {NoCall}
    /\ call \in [Calls -> CallSteps]
    /\ \A c \in Calls : holder = c <=> call[c] \in {"asking", "granted", "waiting", "unwinding"}
    /\ fut \in [Redeems -> {"none", "pending", "result", "cancelled"}]
    /\ waited \in [Packages -> Redeems \union {NoCall}]
    /\ unheard \in [Frees -> SUBSET (1..MaxLists)]
    /\ again \subseteq Calls

LicensesInit ==
    /\ owned \in SUBSET Packages
    /\ lists = <<owned>>
    /\ handler = [k \in 1..MaxLists |-> "none"]
    /\ licenses = {}
    /\ handled = FALSE
    /\ holder = NoCall
    /\ call = [c \in Calls |-> "idle"]
    /\ fut = [c \in Redeems |-> "none"]
    /\ waited = [p \in Packages |-> NoCall]
    /\ unheard = [c \in Frees |-> {}]
    /\ again = {}

----------------------------------------------------------------------------
(* Steam *)

SendList(packages) ==
    /\ Len(lists) < MaxLists
    /\ lists' = Append(lists, packages)

\* A license comes with a list; asking for one that is owned changes nothing.
Grant(c) ==
    /\ call[c] = "asking"
    /\ call' = [call EXCEPT ![c] = "granted"]
    /\ owned' = owned \union {PackageOf[c]}
    /\ IF PackageOf[c] \in owned
       THEN again' = again \union {c} /\ UNCHANGED lists
       ELSE SendList(owned') /\ UNCHANGED again
    /\ UNCHANGED <<logon, handler, licenses, handled, holder, fut, waited, unheard>>

\* The account changes elsewhere.
SendAgain ==
    /\ SendList(owned)
    /\ UNCHANGED <<logon, owned, handler, licenses, handled, holder, call, fut, waited, past>>

----------------------------------------------------------------------------
(* handle_licenses, one task for each list *)

\* From login_complete to the fetch of the owners; handlers start in order.
FetchOwners(k) ==
    /\ login
    /\ k \in DOMAIN lists
    /\ handler[k] = "none"
    /\ \A j \in 1..(k - 1) : handler[j] # "none"
    /\ handler' = [handler EXCEPT ![k] = "users"]
    /\ UNCHANGED <<logon, account, licenses, handled, holder, call, fut, waited, past>>

Waiting(k) == {c \in Redeems : \E p \in lists[k] : waited[p] = c}

\* Bug a mutant checks: only who asked first is told.
StoreUntold(k) ==
    /\ handler[k] = "users"
    /\ handler' = [handler EXCEPT ![k] = "done"]
    /\ licenses' = licenses \union lists[k]
    /\ handled' = TRUE
    /\ UNCHANGED <<logon, account, holder, call, fut, waited, past>>

\* set_result raises for a future that has a result or was cancelled.
Store(k) ==
    /\ handler[k] = "users"
    /\ IF \A c \in Waiting(k) : fut[c] = "pending"
       THEN /\ handler' = [handler EXCEPT ![k] = "done"]
            /\ licenses' = licenses \union lists[k]
            /\ handled' = TRUE
            /\ fut' = [c \in Redeems |-> IF c \in Waiting(k) THEN "result" ELSE fut[c]]
            /\ UNCHANGED logon
       ELSE Raise /\ UNCHANGED <<handler, licenses, handled, fut>>
    /\ UNCHANGED <<account, holder, call, waited, past>>

----------------------------------------------------------------------------
(* The calls *)

To(c, from, to) == call[c] = from /\ call' = [call EXCEPT ![c] = to]

Ask(c) ==
    /\ To(c, "idle", "queued")
    /\ UNCHANGED <<logon, account, handler, licenses, handled, holder, fut, waited, past>>

\* redeem_package up to its request.
Redeem(c) ==
    /\ c \in Redeems /\ holder = NoCall
    /\ To(c, "queued", "asking")
    /\ holder' = c
    /\ fut' = [fut EXCEPT ![c] = "pending"]
    /\ waited' = [waited EXCEPT ![PackageOf[c]] = c]
    /\ UNCHANGED <<logon, account, handler, licenses, handled, past>>

\* Bug a mutant checks: the event is not cleared.
HoldSet(c) ==
    /\ c \in Frees /\ holder = NoCall
    /\ To(c, "queued", "asking")
    /\ holder' = c
    /\ unheard' = [unheard EXCEPT ![c] = {k \in 1..MaxLists : handler[k] # "done"}]
    /\ UNCHANGED <<logon, account, handler, licenses, handled, fut, waited, again>>

\* hold_licenses up to its yield, and the request in its body.
Hold(c) ==
    /\ c \in Frees /\ holder = NoCall
    /\ To(c, "queued", "asking")
    /\ holder' = c
    /\ handled' = FALSE
    /\ unheard' = [unheard EXCEPT ![c] = {k \in 1..MaxLists : handler[k] # "done"}]
    /\ UNCHANGED <<logon, account, handler, licenses, fut, waited, again>>

Answer(c) ==
    /\ To(c, "granted", "waiting")
    /\ UNCHANGED <<logon, account, handler, licenses, handled, holder, fut, waited, past>>

\* The future of a call that ends is dropped from the weak dict with it.
Drop(c) == [p \in Packages |-> IF waited[p] = c THEN NoCall ELSE waited[p]]

\* Bug a mutant checks: a request that failed keeps the lock.
FailLocked(c) ==
    /\ call[c] \in {"asking", "granted"}
    /\ call' = [call EXCEPT ![c] = "failed"]
    /\ waited' = Drop(c)
    /\ UNCHANGED <<logon, account, handler, licenses, handled, holder, fut, past>>

\* The request fails: for request_free_licenses the event stays cleared.
Fail(c) ==
    /\ call[c] \in {"asking", "granted"}
    /\ call' = [call EXCEPT ![c] = "failed"]
    /\ holder' = NoCall
    /\ waited' = Drop(c)
    /\ UNCHANGED <<logon, account, handler, licenses, handled, fut, past>>

\* Bug a mutant checks: the future is still found.
ReturnKeeping(c) ==
    /\ To(c, "waiting", "returned")
    /\ \/ c \in Redeems /\ fut[c] = "result"
       \/ c \in Frees /\ handled
    /\ holder' = NoCall
    /\ UNCHANGED <<logon, account, handler, licenses, handled, fut, waited, past>>

Return(c) ==
    /\ To(c, "waiting", "returned")
    /\ \/ c \in Redeems /\ fut[c] = "result"
       \/ c \in Frees /\ handled
    /\ holder' = NoCall
    /\ waited' = Drop(c)
    /\ UNCHANGED <<logon, account, handler, licenses, handled, fut, past>>

\* A timeout around redeem_package; the call unwinds in a later turn.
Cancel(c) ==
    /\ c \in Redeems /\ fut[c] = "pending"
    /\ To(c, "waiting", "unwinding")
    /\ fut' = [fut EXCEPT ![c] = "cancelled"]
    /\ UNCHANGED <<logon, account, handler, licenses, handled, holder, waited, past>>

Unwind(c) ==
    /\ To(c, "unwinding", "failed")
    /\ holder' = NoCall
    /\ waited' = Drop(c)
    /\ UNCHANGED <<logon, account, handler, licenses, handled, fut, past>>

LicenseHandler(k) == FetchOwners(k) \/ Store(k)

LicenseCall(c) ==
    Redeem(c) \/ Hold(c) \/ Answer(c) \/ Return(c) \/ Unwind(c)
=============================================================================
