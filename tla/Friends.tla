------------------------------ MODULE Friends -------------------------------
(***************************************************************************)
(* process_friends (state.py): what the lists of friends that Steam sends  *)
(* do to the client's friends and invites.                                 *)
(*                                                                         *)
(* Steam sends one full list after the logon, and then a list of what has  *)
(* changed.  The handler of each list is a task that goes through its      *)
(* entries and suspends at those for which it fetches a user, and at the   *)
(* end of a full list.  Handlers start in order and interleave after that. *)
(*                                                                         *)
(* Abstractions.  Entries that are clans are left out, and so are fetches  *)
(* that fail.  A user that is cached is a fetch that takes no time.  The   *)
(* steps of a handler between two suspensions are taken one by one, and    *)
(* nothing else of the client runs between them: see `running'.            *)
(***************************************************************************)
EXTENDS Integers, FiniteSets, SequencesExt, Logon

CONSTANTS Ids,     \* users with whom the client has to do
          MaxPosts \* bound: lists of friends

ASSUME FriendsAssumption == MaxPosts \in Nat \ {0} /\ IsFiniteSet(Ids)

VARIABLES relation, \* what each is to the client, in Steam
          posts,    \* the lists Steam has sent; the first is the full one
          stage,    \* where the handler of each is
          at,       \* the entry it is at
          collected, \* client_user_friends of the full list
          running,  \* the handler that runs, or 0
          friends,  \* user._friends
          invites,  \* invites
          handledFriends, \* handled_friends
          crossed,  \* history: in two lists at once, or in one that came during the full one
          skipped   \* history: in the rest of a list that a handler gave up

steam == <<relation, posts>>
handlers == <<stage, at, collected, running>>
history == <<crossed, skipped>>
befriending == <<steam, handlers, friends, invites, handledFriends, history>>

Posts == 1..MaxPosts
Relations == {"none", "request", "friend"}
Entry == Ids \X Relations
Stages == {"unread", "entries", "friend", "invitee", "users", "done"}

FriendsTypeOK ==
    /\ relation \in [Ids -> Relations]
    /\ posts \in Seq(Seq(Entry)) /\ Len(posts) \in Posts
    /\ stage \in [Posts -> Stages]
    /\ at \in [Posts -> Nat \ {0}]
    /\ \A k \in Posts : stage[k] # "unread" => k \in DOMAIN posts
    /\ \A k \in Posts : stage[k] \in {"friend", "invitee"} => at[k] \in DOMAIN posts[k]
    /\ running \in Posts \union {0}
    /\ \A k \in Posts : running = k <=> stage[k] = "entries"
    /\ collected \subseteq Ids
    /\ friends \union invites \union crossed \union skipped \subseteq Ids
    /\ handledFriends \in BOOLEAN

FriendsInit ==
    /\ relation \in [Ids -> Relations]
    /\ LET order == SetToSeq({id \in Ids : relation[id] # "none"}) IN
           posts = << [i \in DOMAIN order |-> <<order[i], relation[order[i]]>>] >>
    /\ stage = [k \in Posts |-> "unread"]
    /\ at = [k \in Posts |-> 1]
    /\ collected = {}
    /\ running = 0
    /\ friends = {} /\ invites = {}
    /\ handledFriends = FALSE
    /\ crossed = {} /\ skipped = {}

----------------------------------------------------------------------------
(* Steam *)

Becomes(old) == CASE old = "none" -> {"request", "friend"}
                  [] old = "request" -> {"friend", "none"}
                  [] old = "friend" -> {"none"}

\* Some users change what they are to the client; one list tells of them.
Change(order) ==
    /\ Len(posts) < MaxPosts
    /\ \E new \in [ToSet(order) -> Relations] :
           /\ \A id \in ToSet(order) : new[id] \in Becomes(relation[id])
           /\ relation' = [id \in Ids |-> IF id \in ToSet(order) THEN new[id] ELSE relation[id]]
           /\ posts' = Append(posts, [i \in DOMAIN order |-> <<order[i], new[order[i]]>>])
    /\ UNCHANGED <<logon, handlers, friends, invites, handledFriends, history>>

----------------------------------------------------------------------------
(* process_friends *)

Named(k) == {posts[k][i][1] : i \in DOMAIN posts[k]}
Unfinished(k) == stage[k] \notin {"unread", "done"}
Overlap(k) == {id \in Named(k) : \E j \in 1..(k - 1) :
                   Unfinished(j) /\ (j = 1 \/ id \in Named(j))}

\* From login_complete to the first entry; without the intent, nothing.
Begin(k) ==
    /\ login /\ running = 0
    /\ k \in DOMAIN posts /\ stage[k] = "unread"
    /\ \A j \in 1..(k - 1) : stage[j] # "unread"
    /\ IF "Users" \in intents
       THEN /\ stage' = [stage EXCEPT ![k] = "entries"]
            /\ running' = k
            /\ crossed' = crossed \union Overlap(k)
       ELSE stage' = [stage EXCEPT ![k] = "done"] /\ UNCHANGED <<running, crossed>>
    /\ UNCHANGED <<logon, steam, at, collected, friends, invites, handledFriends, skipped>>

Here(k) == posts[k][at[k]]
AtEntry(k, rel) ==
    /\ running = k
    /\ at[k] \in DOMAIN posts[k]
    /\ Here(k)[2] = rel
Advance(k) == at' = [at EXCEPT ![k] = @ + 1] /\ UNCHANGED <<stage, running>>
Suspend(k, why) == stage' = [stage EXCEPT ![k] = why] /\ running' = 0 /\ UNCHANGED at
Resume(k, why) ==
    /\ running = 0 /\ stage[k] = why
    /\ stage' = [stage EXCEPT ![k] = "entries"]
    /\ running' = k
    /\ at' = [at EXCEPT ![k] = @ + 1]

\* A friend: of an invite that is held, of the full list, or to be fetched.
EntryFriend(k) ==
    /\ AtEntry(k, "friend")
    /\ LET id == Here(k)[1] IN
       \/ /\ id \in invites
          /\ invites' = invites \ {id}
          /\ friends' = friends \union {id}
          /\ Advance(k) /\ UNCHANGED collected
       \/ /\ id \notin invites /\ k = 1
          /\ collected' = collected \union {id}
          /\ Advance(k) /\ UNCHANGED <<friends, invites>>
       \/ /\ id \notin invites /\ k # 1
          /\ Suspend(k, "friend") /\ UNCHANGED <<collected, friends, invites>>
    /\ UNCHANGED <<logon, steam, handledFriends, history>>

\* Bug a mutant checks: a friend that was fetched is not kept.
FriendForgotten(k) ==
    /\ Resume(k, "friend")
    /\ UNCHANGED <<logon, steam, collected, friends, invites, handledFriends, history>>

FriendFetched(k) ==
    /\ Resume(k, "friend")
    /\ friends' = friends \union {Here(k)[1]}
    /\ UNCHANGED <<logon, steam, collected, invites, handledFriends, history>>

EntryRequest(k) ==
    /\ AtEntry(k, "request")
    /\ Suspend(k, "invitee")
    /\ UNCHANGED <<logon, steam, collected, friends, invites, handledFriends, history>>

InviteeFetched(k) ==
    /\ Resume(k, "invitee")
    /\ invites' = invites \union {Here(k)[1]}
    /\ UNCHANGED <<logon, steam, collected, friends, handledFriends, history>>

\* A removal; the handler gives up at one that it knows nothing of.
EntryNone(k) ==
    /\ AtEntry(k, "none")
    /\ LET id == Here(k)[1] IN
       /\ invites' = invites \ {id}
       /\ friends' = IF id \in invites THEN friends ELSE friends \ {id}
       /\ IF id \in invites \union friends
          THEN Advance(k) /\ UNCHANGED skipped
          ELSE /\ Suspend(k, "done")
               /\ skipped' = skipped \union {posts[k][i][1] : i \in (at[k] + 1)..Len(posts[k])}
    /\ UNCHANGED <<logon, steam, collected, handledFriends, crossed>>

\* The end of a list; a full one fetches its friends.
EndOfList(k) ==
    /\ running = k /\ at[k] > Len(posts[k])
    /\ Suspend(k, IF k = 1 THEN "users" ELSE "done")
    /\ UNCHANGED <<logon, steam, collected, friends, invites, handledFriends, history>>

\* Bug a mutant checks: the fetched friends are dropped.
LoadedNothing ==
    /\ running = 0 /\ stage[1] = "users"
    /\ Suspend(1, "done")
    /\ handledFriends' = TRUE
    /\ UNCHANGED <<logon, steam, collected, friends, invites, history>>

\* Bug a mutant checks: nobody is told that the friends are there.
LoadedUnset ==
    /\ running = 0 /\ stage[1] = "users"
    /\ Suspend(1, "done")
    /\ friends' = collected
    /\ UNCHANGED <<logon, steam, collected, invites, handledFriends, history>>

Loaded ==
    /\ running = 0 /\ stage[1] = "users"
    /\ Suspend(1, "done")
    /\ friends' = collected
    /\ handledFriends' = TRUE
    /\ UNCHANGED <<logon, steam, collected, invites, history>>

FriendsHandler ==
    \/ \E k \in Posts : \/ Begin(k)
                        \/ EntryFriend(k) \/ EntryRequest(k) \/ EntryNone(k) \/ EndOfList(k)
                        \/ FriendFetched(k) \/ InviteeFetched(k)
    \/ Loaded

Changes == \E order \in SetToAllKPermutations(Ids) \ {<<>>} : Change(order)

FriendsNext ==
    \/ LoginCompletes /\ UNCHANGED befriending
    \/ Changes
    \/ FriendsHandler

FriendsAlone == LogonInit /\ FriendsInit

FriendsSpec == FriendsAlone /\ [][FriendsNext]_<<logon, befriending>>

----------------------------------------------------------------------------

\* When every list has been gone through, the friends and invites that the
\* client holds are the ones in Steam, but for users that two handlers dealt
\* with at a time and the ones that a handler left out when it gave up.
FriendsAgree ==
    (/\ "Users" \in intents
     /\ \A k \in DOMAIN posts : stage[k] = "done")
    => \A id \in Ids \ (crossed \union skipped) :
           /\ id \in friends <=> relation[id] = "friend"
           /\ id \in invites <=> relation[id] = "request"

\* A handler gives up, and leaves out the rest of its list, only at a removal
\* that is dealt with beside another list that names the user or the full one.
GivesUpWhenCrossed ==
    \A k \in DOMAIN posts :
        (stage[k] = "done" /\ at[k] \in DOMAIN posts[k] /\ "Users" \in intents)
            => Here(k)[1] \in crossed \union skipped

=============================================================================
