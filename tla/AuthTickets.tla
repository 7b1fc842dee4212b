---------------------------- MODULE AuthTickets -----------------------------
(***************************************************************************)
(* Authentication tickets: PartialApp.create_authentication_ticket         *)
(* (app.py), and what its block enters and leaves in ConnectionState:      *)
(* temporarily_play, activate_ and deactivate_auth_session_tickets,        *)
(* send_auth_list and handle_ticket_auth_complete (state.py), with         *)
(* SteamWebSocket.change_presence (gateway.py).                            *)
(*                                                                         *)
(* Several tasks are in such blocks at once, for the same app or for       *)
(* others.  They share the list of apps the client plays, the dict of      *)
(* active tickets, keyed by app and user, and the sequence number of the   *)
(* lists of tickets that are sent to Steam.                                *)
(*                                                                         *)
(* Abstractions.  All tickets are the client user's own.  A list of apps   *)
(* is a set.  What a ticket is made of is left out, as is _auth_seq_them,  *)
(* which is only sent back.  The connection stays up.  acked, rejected,    *)
(* mixed and met are history variables.                                    *)
(***************************************************************************)
EXTENDS Integers

CONSTANTS Apps,
          Blocks,    \* the uses of create_authentication_ticket
          AppOf,     \* the app of each of them
          NoTicket   \* the key is not in _active_auth_tickets

ASSUME AppOfAssumption == AppOf \in [Blocks -> Apps]
ASSUME NoTicketAssumption == NoTicket \notin Blocks

VARIABLES configured, \* the apps the client was created with
          apps,       \* ConnectionState._apps
          played,     \* the apps of the last CMsgClientGamesPlayed
          block,      \* where each block is
          skipped,    \* the blocks that found their app among _apps
          oldApps,    \* old_apps of each block
          active,     \* _active_auth_tickets: the block whose ticket an app has
          listed,     \* the tickets of the last CMsgClientAuthList
          seqMe,      \* _auth_seq_me
          sentSeq,    \* the message_sequence of each block's list
          inFlight,   \* the blocks whose list Steam has not acknowledged
          acked,      \* those whose list it has
          rejected,   \* those whose ticket it turned down while it was active
          mixed,      \* those whose list crossed with another's
          met         \* those that ran while another ran

presence == <<configured, apps, played, skipped, oldApps, met>>
lists == <<listed, seqMe, sentSeq, inFlight, acked, mixed>>
ticketVars == <<block, active, rejected, presence, lists>>

Stages == {"out", "asking", "waiting", "resolved", "inside", "done"}

TicketsTypeOK ==
    /\ configured \subseteq Apps
    /\ apps \subseteq Apps
    /\ played \subseteq Apps
    /\ block \in [Blocks -> Stages]
    /\ skipped \subseteq Blocks
    /\ oldApps \in [Blocks -> SUBSET Apps]
    /\ active \in [Apps -> Blocks \union {NoTicket}]
    /\ listed \subseteq Blocks
    /\ seqMe \in Nat
    /\ sentSeq \in [Blocks -> Nat]
    /\ inFlight \subseteq Blocks
    /\ acked \subseteq Blocks
    /\ rejected \subseteq Blocks
    /\ mixed \subseteq Blocks
    /\ met \subseteq Blocks

TicketsInit ==
    /\ configured \in SUBSET Apps
    /\ apps = configured
    /\ played = configured
    /\ block = [b \in Blocks |-> "out"]
    /\ skipped = {}
    /\ oldApps = [b \in Blocks |-> {}]
    /\ active = [a \in Apps |-> NoTicket]
    /\ listed = {}
    /\ seqMe = 0
    /\ sentSeq = [b \in Blocks |-> 0]
    /\ inFlight = {}
    /\ acked = {}
    /\ rejected = {}
    /\ mixed = {}
    /\ met = {}

At(stages) == {b \in Blocks : block[b] \in stages}
Running == At({"asking", "waiting", "resolved", "inside"})

----------------------------------------------------------------------------
(* temporarily_play *)

\* "self._state._apps = apps or self._state._apps": no apps, no assignment.
ChangePresence(new) ==
    /\ apps' = IF new = {} THEN apps ELSE new
    /\ played' = new

\* __aenter__: nothing is sent if the app is among _apps already.
Enter(b) ==
    /\ block[b] = "out"
    /\ block' = [block EXCEPT ![b] = "asking"]
    /\ oldApps' = [oldApps EXCEPT ![b] = apps]
    /\ IF AppOf[b] \in apps
       THEN skipped' = skipped \union {b} /\ UNCHANGED <<apps, played>>
       ELSE ChangePresence(apps \union {AppOf[b]}) /\ UNCHANGED skipped
    /\ met' = IF Running = {} THEN met ELSE met \union Running \union {b}
    /\ UNCHANGED <<configured, active, rejected, lists>>

\* A bug a mutant checks: no "finally".
LeaveAlone(b) ==
    /\ block' = [block EXCEPT ![b] = "done"]
    /\ UNCHANGED presence

\* __aexit__: the apps found on entry are played again.
StopPlaying(b) ==
    /\ block' = [block EXCEPT ![b] = "done"]
    /\ IF b \in skipped THEN UNCHANGED <<apps, played>> ELSE ChangePresence(oldApps[b])
    /\ UNCHANGED <<configured, skipped, oldApps, met>>

----------------------------------------------------------------------------
(* send_auth_list *)

Tickets(entries) == {entries[a] : a \in Apps} \ {NoTicket}

\* The lists that may still be acknowledged, or whose caller has yet to act on it.
Exchanging == inFlight \union At({"waiting", "resolved"})

\* Everything up to the await of the acknowledgement.
SendAuthList(b, number) ==
    /\ listed' = Tickets(active')
    /\ sentSeq' = [sentSeq EXCEPT ![b] = number]
    /\ inFlight' = inFlight \union {b}
    /\ mixed' = IF Exchanging = {} THEN mixed ELSE mixed \union Exchanging \union {b}
    /\ UNCHANGED <<seqMe, acked>>

\* A bug a mutant checks: message_sequence is not one more than the last.
ActivateStale(b) ==
    /\ block[b] = "asking"
    /\ block' = [block EXCEPT ![b] = "waiting"]
    /\ active' = [active EXCEPT ![AppOf[b]] = b]
    /\ SendAuthList(b, seqMe)
    /\ UNCHANGED <<rejected, presence>>

\* The ownership ticket has come and the ticket is made; activate().
Activate(b) ==
    /\ block[b] = "asking"
    /\ block' = [block EXCEPT ![b] = "waiting"]
    /\ active' = [active EXCEPT ![AppOf[b]] = b]
    /\ SendAuthList(b, seqMe + 1)
    /\ UNCHANGED <<rejected, presence>>

\* Steam refuses the ownership ticket, no connect token is left, or the
\* ticket is not valid: the block is not entered.
MakingFails(b) ==
    /\ block[b] = "asking"
    /\ StopPlaying(b)
    /\ UNCHANGED <<active, rejected, lists>>

\* CMsgClientAuthListAck.  Each listener compares its number not with the one
\* it sent but with the one after the current _auth_seq_me.
Acknowledge(b) ==
    /\ b \in inFlight
    /\ inFlight' = inFlight \ {b}
    /\ acked' = acked \union {b}
    /\ block' = [d \in Blocks |-> IF block[d] = "waiting" /\ sentSeq[b] = seqMe + 1
                                  THEN "resolved" ELSE block[d]]
    /\ UNCHANGED <<active, rejected, presence, listed, seqMe, sentSeq, mixed>>

\* The task resumes in send_auth_list and enters the block.
Resume(b) ==
    /\ block[b] = "resolved"
    /\ block' = [block EXCEPT ![b] = "inside"]
    /\ seqMe' = seqMe + 1
    /\ UNCHANGED <<active, rejected, presence, listed, sentSeq, inFlight, acked, mixed>>

----------------------------------------------------------------------------

\* A bug a mutant checks: every ticket is deactivated.
DeactivateAll(a) == active' = [x \in Apps |-> NoTicket]

\* "del self._active_auth_tickets[...]", whoever's ticket is there; Steam is
\* not told, as the ticket is the client's own.
Deactivate(a) == active' = [active EXCEPT ![a] = NoTicket]

\* The block is left.
Exit(b) ==
    /\ block[b] = "inside"
    /\ Deactivate(AppOf[b])
    /\ StopPlaying(b)
    /\ UNCHANGED <<rejected, lists>>

\* The task is cancelled while it asks for the ownership ticket, or while it
\* activates: then "finally" deactivates.
Cancel(b) ==
    /\ \/ block[b] = "asking" /\ UNCHANGED active
       \/ block[b] \in {"waiting", "resolved"} /\ Deactivate(AppOf[b])
    /\ StopPlaying(b)
    /\ UNCHANGED <<rejected, lists>>

\* CMsgClientTicketAuthComplete with anything but OK, for a ticket that is
\* active; for another it is ignored.
Reject(b) ==
    /\ b \in listed
    /\ active[AppOf[b]] = b
    /\ Deactivate(AppOf[b])
    /\ rejected' = rejected \union {b}
    /\ UNCHANGED <<block, presence, lists>>

----------------------------------------------------------------------------
TicketsNext ==
    \E b \in Blocks :
        \/ Enter(b) \/ Activate(b) \/ MakingFails(b)
        \/ Acknowledge(b) \/ Resume(b)
        \/ Exit(b) \/ Cancel(b) \/ Reject(b)

(* Steam acknowledges every list, and the event loop runs what is ready.   *)
TicketsFairness == \A b \in Blocks : WF_ticketVars(Acknowledge(b)) /\ WF_ticketVars(Resume(b))

TicketsSpec == TicketsInit /\ [][TicketsNext]_ticketVars /\ TicketsFairness

----------------------------------------------------------------------------
(* A block is entered when Steam has acknowledged the list with its ticket *)
(* and not because of another's acknowledgement, unless lists crossed.     *)
EnteredWhenListed == \A b \in Blocks : block[b] = "inside" => b \in acked \union mixed

(* Whoever waits for an acknowledgement gets it, whatever came before, but *)
(* for lists that crossed: there the check, which reads _auth_seq_me when  *)
(* the answer is there, may look for a number that never comes.            *)
ActivationReturns ==
    \A b \in Blocks : block[b] = "waiting" ~> block[b] # "waiting" \/ b \in mixed

\* The blocks that got as far as a ticket, and those after.
Activated == At({"waiting", "resolved", "inside", "done"})

(* Inside a block its ticket is active, unless Steam turned it down or     *)
(* another block for the same app replaced or deactivated it.              *)
OnlyRivalsDeactivate ==
    \A b \in At({"inside"}) :
        \/ active[AppOf[b]] = b
        \/ b \in rejected
        \/ \E d \in Activated \ {b} : AppOf[d] = AppOf[b]

(* A client that was created with apps to play, and whose blocks do not    *)
(* overlap, plays a block's app throughout the block, and exactly the apps *)
(* it was created with when none runs.                                     *)
PresenceRestored ==
    configured # {} /\ met = {} =>
        /\ \A b \in Running : AppOf[b] \in played
        /\ Running = {} => apps = configured /\ played = configured
=============================================================================
