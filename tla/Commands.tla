------------------------------ MODULE Commands ------------------------------
(***************************************************************************)
(* A message's way through a bot with one command: Client.dispatch,        *)
(* Bot.on_message, process_commands, get_context and invoke                *)
(* (ext/commands/bot.py), and Command.invoke with its checks, cooldown and *)
(* hooks (ext/commands/commands.py).                                       *)
(*                                                                         *)
(* Each message is handled by a task of its own.  On its way it dispatches *)
(* events, which settle the futures of wait_for, and asks the cooldown     *)
(* that the command shares between its calls.                              *)
(*                                                                         *)
(* Abstractions.  What makes a message a command, a check fail or a        *)
(* callback raise is free.  Parsing, the hooks and the callback are one    *)
(* step: each may raise or be cancelled, and nothing reads how far they    *)
(* are.  The handlers of the events are left out.                          *)
(***************************************************************************)
EXTENDS Events, Cooldown

VARIABLE stage \* where the task of each message is

vars == <<events, cooldown, stage>>

Stages == {"new", "scheduled", "checking", "calling", "ended"}

\* Every variable keeps its type.
TypeOK ==
    /\ EventsTypeOK
    /\ CooldownTypeOK
    /\ stage \in [Calls -> Stages]

Init ==
    /\ EventsInit
    /\ CooldownInit
    /\ stage = [c \in Calls |-> "new"]

Goes(c, from, to) == stage[c] = from /\ stage' = [stage EXCEPT ![c] = to]

----------------------------------------------------------------------------
(* Bot.on_message, process_commands and invoke *)

\* dispatch("message", ...) schedules on_message.
Receive(c) ==
    /\ Goes(c, "new", "scheduled")
    /\ Dispatch("message")
    /\ UNCHANGED cooldown

\* The client's own message, or no prefix.
Ignore(c) ==
    /\ Goes(c, "scheduled", "ended")
    /\ UNCHANGED <<events, cooldown>>

NotFound(c) ==
    /\ Goes(c, "scheduled", "ended")
    /\ Dispatch("command_error")
    /\ UNCHANGED cooldown

Invoke(c) ==
    /\ Goes(c, "scheduled", "checking")
    /\ Dispatch("command")
    /\ UNCHANGED cooldown

----------------------------------------------------------------------------
(* Command.invoke, and what Bot.invoke dispatches after it *)

\* The hooks of the "finally" return: the command's outcome is dispatched.
End(failed) == Dispatch(IF failed THEN "command_error" ELSE "command_completion")

\* The command is disabled, or a check says no or raises.
CheckFails(c) ==
    /\ Goes(c, "checking", "ended")
    /\ End(TRUE)
    /\ UNCHANGED cooldown

\* The checks pass, and the cooldown is asked in the same turn.
AskCooldown(c) ==
    /\ Ask(c)
    /\ IF verdict'[c] = "passed"
       THEN Goes(c, "checking", "calling") /\ UNCHANGED events
       ELSE Goes(c, "checking", "ended") /\ End(TRUE)

\* The callback returns, or raises as parsing and the hooks may.
CallEnds(c) ==
    /\ Goes(c, "calling", "ended")
    /\ \E failed \in BOOLEAN : End(failed)
    /\ UNCHANGED cooldown

\* "except asyncio.CancelledError: return": Bot.invoke does not hear of it,
\* unless a hook of the "finally" raises.
Cancel(c) ==
    /\ stage[c] \in {"checking", "calling"}
    /\ Goes(c, stage[c], "ended")
    /\ \E failed \in BOOLEAN : End(failed)
    /\ UNCHANGED cooldown

\* Cancelled in a hook of the "finally": no event follows.
CancelAfterHook(c) ==
    /\ stage[c] \in {"checking", "calling"}
    /\ Goes(c, stage[c], "ended")
    /\ UNCHANGED <<events, cooldown>>

Task(c) ==
    \/ Ignore(c) \/ NotFound(c) \/ Invoke(c)
    \/ CheckFails(c) \/ AskCooldown(c)
    \/ CallEnds(c) \/ Cancel(c) \/ CancelAfterHook(c)

Next ==
    \/ \E c \in Calls : Receive(c) \/ Task(c)
    \/ EventsNext /\ UNCHANGED <<cooldown, stage>>
    \/ Pass /\ UNCHANGED <<events, stage>>

Spec == Init /\ [][Next]_vars

----------------------------------------------------------------------------
Attempts(b) == {c \in Calls : BucketOf[c] = b /\ at[c] >= 0}

\* The other calls of its bucket in the last Per seconds.
Recent(c) == {d \in Attempts(BucketOf[c]) \ {c} : at[d] <= at[c] /\ at[d] + Per > at[c]}

(* A call is refused for one of two reasons, and for no other: Rate calls  *)
(* of its own bucket were executed in the last Per seconds, which is what  *)
(* the documentation of cooldown() says; or fewer were, and refused ones   *)
(* make up the number.  Another bucket's calls, and those that should have *)
(* been forgotten, never count, though their sleep be late.                *)
RefusalIsCounted ==
    \A c \in Calls : verdict[c] = "refused" =>
        \/ Cardinality({d \in Recent(c) : verdict[d] = "passed"}) >= Rate
        \/ Cardinality(Recent(c)) >= Rate /\ \E d \in Recent(c) : verdict[d] = "refused"

\* What the recording tasks have not done yet, for a bucket.
Behind(b) ==
    \/ \E c \in recording : BucketOf[c] = b
    \/ \E c \in sleeping : BucketOf[c] = b /\ clock >= due[c]
    \/ \E c, d \in Calls : c # d /\ at[c] = at[d] /\ at[c] >= 0

(* The rate is kept wherever the tasks have caught up: a call that passes  *)
(* when none of its bucket is to be recorded or is overdue, and no two     *)
(* calls read one time, has fewer than Rate calls in the Per seconds       *)
(* before it.  (Where they have not, more calls pass.)                     *)
RateIsKept ==
    [][\A c \in Calls :
         verdict[c] = "none" /\ verdict'[c] = "passed" /\ ~Behind(BucketOf[c])
         => Cardinality({d \in Attempts(BucketOf[c]) : at[d] + Per > clock}) < Rate]_vars
=============================================================================
