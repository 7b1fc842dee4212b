------------------------- MODULE ConfirmationCodes --------------------------
(***************************************************************************)
(* ConnectionState._get_confirmation_code (state.py): the codes that       *)
(* authorise a request to Steam's mobile confirmations.  A code is a       *)
(* function of a tag and of the second it is made in, and Steam takes it   *)
(* once, so a lock per tag is held from the making of a code to the next   *)
(* whole second.                                                           *)
(*                                                                         *)
(* Time.  A second has Ticks ticks of Steam's clock; a timer fires at its  *)
(* tick or later.  The clock's offset does not change in a session.        *)
(***************************************************************************)
EXTENDS Integers

CONSTANTS Tags,  \* what codes are for
          Ticks  \* bound: how finely a second is divided

ASSUME TicksAssumption == Ticks \in Nat \ {0}

VARIABLES tick,   \* of the current second
          locked, \* the tags whose lock is held
          timer,  \* ticks to go until call_later releases the lock, Off if it is not armed
          made    \* how many codes were made for each tag in the current second

codeVars == <<tick, locked, timer, made>>

Off == -1

CodesTypeOK ==
    /\ tick \in 0 .. Ticks - 1
    /\ locked \subseteq Tags
    /\ timer \in [Tags -> Off .. Ticks]
    /\ made \in [Tags -> Nat]

CodesInit ==
    /\ tick \in 0 .. Ticks - 1
    /\ locked = {}
    /\ timer = [tag \in Tags |-> Off]
    /\ made = [tag \in Tags |-> 0]

\* A bug a mutant checks: "finally: lock.release()".
GetCodeUnlocked(tag) ==
    /\ tag \notin locked
    /\ made' = [made EXCEPT ![tag] = @ + 1]
    /\ UNCHANGED <<tick, locked, timer>>

\* The lock is acquired, the code made, and the release scheduled, in one go.
GetCode(tag) ==
    /\ tag \notin locked
    /\ locked' = locked \union {tag}
    /\ timer' = [timer EXCEPT ![tag] = Ticks - tick]
    /\ made' = [made EXCEPT ![tag] = @ + 1]
    /\ UNCHANGED tick

\* The timer's callback.
Release(tag) ==
    /\ timer[tag] = 0
    /\ locked' = locked \ {tag}
    /\ timer' = [timer EXCEPT ![tag] = Off]
    /\ UNCHANGED <<tick, made>>

\* Time passes.
Tick ==
    /\ tick' = IF tick = Ticks - 1 THEN 0 ELSE tick + 1
    /\ timer' = [tag \in Tags |-> IF timer[tag] > 0 THEN timer[tag] - 1 ELSE timer[tag]]
    /\ made' = IF tick' = 0 THEN [tag \in Tags |-> 0] ELSE made
    /\ UNCHANGED locked

----------------------------------------------------------------------------
(* No two codes for a tag are alike: none is made in the second of an      *)
(* earlier one, whenever in the second they are asked for.                 *)
CodesDiffer == \A tag \in Tags : made[tag] <= 1
=============================================================================
