-------------------------------- MODULE Chat --------------------------------
(***************************************************************************)
(* The members of one chat group, a group or a clan (chat.py, group.py,    *)
(* clan.py), and the handlers of its messages (state.py).                  *)
(*                                                                         *)
(* The group is filled from Steam's answer with the records of its         *)
(* members.  A record becomes a member when the user is cached and         *)
(* somebody asks for it; chunk() makes members of all records and then     *)
(* deletes the attribute that held them.  Handlers are tasks: one that     *)
(* raises ends the session.                                                *)
(*                                                                         *)
(* Abstractions.  The client's own membership, ranks, roles, channels and  *)
(* the invites themselves are left out; a message, a reaction and a change *)
(* of rank are all something that asks for a member.  So is the path of    *)
(* Clan.chunk that fetches views of the list of members, and               *)
(* auto_chunk_chat_groups, with which _maybe_chunk reads the records that  *)
(* chunk() has just deleted and no group is ever stored.  What Steam sends *)
(* arrives in its order: who writes is a member, who is invited is not.  A *)
(* cached user stays cached.  A user does not join again while an earlier  *)
(* joining of the same user is handled.                                    *)
(***************************************************************************)
EXTENDS Integers, SequencesExt

CONSTANTS Users, Chunks, \* calls of chunk()
          Nobody,
          MaxEvents      \* bound: comings, goings, messages and questions

ASSUME ChatAssumption ==
    /\ Nobody \notin Users
    /\ IsFiniteSet(Users)
    /\ {"absent", "none"} \intersect Users = {}
    /\ MaxEvents \in Nat

VARIABLES kind,    \* a group or a clan
          truth,   \* its members, in Steam
          phase,   \* of the cached object: asked for, filled, stored
          members, \* _members: whose record each was made from, "none" for None
          partial, \* the keys of _partial_members, in order
          deleted, \* chunked: _partial_members is deleted
          cached,  \* the users that are cached
          joining, \* _add_member fetches them
          chunk,   \* where each call of chunk() is
          ids,     \* the records it has begun with
          pos,     \* the one it is at
          lost,    \* the user for whom a handler raised
          happened,
          astray,    \* history: see MembersAgree
          guests,    \* history: who was invited, and has not joined since
          disturbed  \* history: a chunk() during which the records changed

object == <<kind, phase>>
chunking == <<chunk, ids, pos>>
history == <<astray, guests, disturbed>>
chatVars == <<object, truth, members, partial, deleted, cached, joining, chunking, lost, happened, history>>

ChatTypeOK ==
    /\ kind \in {"group", "clan"}
    /\ phase \in {"asked", "filled", "stored"}
    /\ truth \union cached \union joining \union astray \union guests \subseteq Users
    /\ members \in [Users -> Users \union {"absent", "none"}]
    /\ partial \in Seq(Users) /\ IsInjective(partial)
    /\ deleted \in BOOLEAN
    /\ chunk \in [Chunks -> {"idle", "waiting", "returned", "failed"}]
    /\ ids \in [Chunks -> Seq(Users)]
    /\ pos \in [Chunks -> Nat]
    /\ \A c \in Chunks : chunk[c] = "waiting" => pos[c] \in DOMAIN ids[c]
    /\ lost \in Users \union {Nobody}
    /\ happened \in 0..MaxEvents
    /\ disturbed \subseteq Chunks

ChatInit ==
    /\ kind \in {"group", "clan"}
    /\ truth \in SUBSET Users
    /\ cached \in SUBSET Users
    /\ phase = "asked"
    /\ members = [u \in Users |-> "absent"]
    /\ partial = <<>>
    /\ deleted = FALSE
    /\ joining = {}
    /\ chunk = [c \in Chunks |-> "idle"]
    /\ ids = [c \in Chunks |-> <<>>]
    /\ pos = [c \in Chunks |-> 1]
    /\ lost = Nobody
    /\ happened = 0
    /\ astray = {} /\ guests = {} /\ disturbed = {}

Event == happened < MaxEvents /\ lost = Nobody /\ happened' = happened + 1

Waiting == {c \in Chunks : chunk[c] = "waiting"}

\* The records that the group holds, kept or changed.
Records(new) ==
    /\ partial' = new
    /\ disturbed' = IF new = partial THEN disturbed ELSE disturbed \union Waiting

----------------------------------------------------------------------------
(* _from_proto *)

\* Steam's answer to set_chat_group_active; one that fails is passed over.
Fill ==
    /\ phase = "asked"
    /\ phase' = IF kind = "clan" THEN "filled" ELSE "stored"
    /\ \/ partial' \in SetToSeqs(truth) /\ UNCHANGED astray
       \/ partial' = <<>> /\ astray' = Users
    /\ UNCHANGED <<kind, truth, members, deleted, cached, joining, chunking, lost, happened, guests, disturbed>>

\* A clan loads its page before it is stored.
Store ==
    /\ phase = "filled"
    /\ phase' = "stored"
    /\ UNCHANGED <<kind, truth, members, partial, deleted, cached, joining, chunking, lost, happened, history>>

\* A member comes or goes before: handle_chat_member_update knows no such group.
Unheard(u) ==
    /\ Event
    /\ phase # "stored"
    /\ truth' = IF u \in truth THEN truth \ {u} ELSE truth \union {u}
    /\ astray' = IF phase = "filled" THEN astray \union {u} ELSE astray
    /\ UNCHANGED <<object, members, partial, deleted, cached, joining, chunking, lost, guests, disturbed>>

----------------------------------------------------------------------------
(* _maybe_member, _get_partial_member, _remove_member *)

\* The keys but for one.
Without(keys, u) ==
    IF u \in ToSet(keys) THEN RemoveAt(keys, CHOOSE i \in DOMAIN keys : keys[i] = u) ELSE keys

IsMember(u) == members[u] \in Users

\* A member is made of the record, which is popped.
Promotes(u) == ~IsMember(u) /\ u \in cached /\ ~deleted /\ u \in ToSet(partial)
\* Bug a mutant checks: a record is made up for who has one.
MakesUpTwice(u) == ~IsMember(u) /\ u \notin cached /\ ~deleted /\ kind = "clan"

\* A clan makes up a record.
MakesUp(u) == ~IsMember(u) /\ u \notin cached /\ ~deleted /\ u \notin ToSet(partial) /\ kind = "clan"
Finds(u) == \/ IsMember(u)
            \/ Promotes(u)
            \/ MakesUp(u)
            \/ u \notin cached /\ ~deleted /\ u \in ToSet(partial)

\* The records after it.
Kept(u) == CASE Promotes(u) -> Without(partial, u)
             [] MakesUp(u) -> Append(partial, u)
             [] OTHER -> partial

MaybeMember(u) ==
    /\ members' = IF Promotes(u) THEN [members EXCEPT ![u] = u] ELSE members
    /\ Records(Kept(u))

----------------------------------------------------------------------------
(* Handlers of messages *)

\* handle_chat_message, _reaction and handle_chat_member_update.
Speak(u) ==
    /\ Event
    /\ phase = "stored" /\ u \in truth
    /\ MaybeMember(u)
    /\ lost' = IF Finds(u) THEN lost ELSE u
    /\ UNCHANGED <<object, truth, deleted, cached, joining, chunking, astray, guests>>

\* handle_chat_server_message: member a has invited u.  After the author, u is
\* looked up in the records alone; a clan makes up the one that is not there.
Invited(a, u) ==
    /\ Event
    /\ phase = "stored" /\ a \in truth /\ u \notin truth
    /\ members' = IF Promotes(a) THEN [members EXCEPT ![a] = a] ELSE members
    /\ LET missing == u \notin ToSet(partial)
           raises == deleted \/ (missing /\ kind = "group")
       IN IF ~Finds(a)
          THEN lost' = a /\ Records(Kept(a)) /\ UNCHANGED guests
          ELSE /\ lost' = IF raises THEN u ELSE lost
               /\ Records(IF missing /\ ~raises THEN Append(Kept(a), u) ELSE Kept(a))
               /\ guests' = guests \union {u}
    /\ UNCHANGED <<object, truth, deleted, cached, joining, chunking, astray>>

\* The program asks for an owner, an officer, a mention: anyone.
Look(u) ==
    /\ Event
    /\ phase = "stored"
    /\ MaybeMember(u)
    /\ astray' = IF u \in truth THEN astray ELSE astray \union {u}
    /\ UNCHANGED <<object, truth, deleted, cached, joining, chunking, lost, guests>>

Join(u) ==
    /\ Event
    /\ phase = "stored" /\ u \notin truth \union joining
    /\ truth' = truth \union {u}
    /\ IF u \in cached
       THEN members' = [members EXCEPT ![u] = u] /\ UNCHANGED joining
       ELSE joining' = joining \union {u} /\ UNCHANGED members
    /\ guests' = guests \ {u}
    /\ UNCHANGED <<object, partial, deleted, cached, chunking, lost, astray, disturbed>>

\* _add_member has fetched the user.
Joined(u) ==
    /\ u \in joining /\ lost = Nobody
    /\ joining' = joining \ {u}
    /\ cached' = cached \union {u}
    /\ members' = [members EXCEPT ![u] = u]
    /\ UNCHANGED <<object, truth, partial, deleted, chunking, lost, happened, history>>

\* Bug a mutant checks: the member goes and the record stays.
LeaveRecord(u) ==
    /\ Event
    /\ phase = "stored" /\ u \in truth
    /\ truth' = truth \ {u}
    /\ members' = [members EXCEPT ![u] = "absent"]
    /\ UNCHANGED <<object, partial, deleted, cached, joining, chunking, lost, history>>

\* Bug a mutant checks: the record goes before who leaves is looked up.
LeaveUnknown(u) ==
    /\ Event
    /\ phase = "stored" /\ u \in truth
    /\ truth' = truth \ {u}
    /\ members' = [members EXCEPT ![u] = "absent"]
    /\ lost' = IF (members[u] # "absent" \/ kind = "clan") /\ ~deleted THEN lost ELSE u
    /\ Records(IF deleted THEN partial ELSE Without(partial, u))
    /\ UNCHANGED <<object, deleted, cached, joining, chunking, astray, guests>>

\* Who leaves is popped from the members, or else looked up; and in the end
\* popped from the records, which are there only before a chunk().
Leave(u) ==
    /\ Event
    /\ phase = "stored" /\ u \in truth
    /\ truth' = truth \ {u}
    /\ members' = [members EXCEPT ![u] = "absent"]
    /\ LET known == members[u] # "absent" \/ u \in ToSet(partial) \/ kind = "clan"
       IN lost' = IF known /\ ~deleted THEN lost ELSE u
    /\ Records(IF deleted THEN partial ELSE Without(partial, u))
    /\ astray' = IF u \in joining \/ Waiting # {} THEN astray \union {u} ELSE astray
    /\ UNCHANGED <<object, deleted, cached, joining, chunking, guests>>

----------------------------------------------------------------------------
(* chunk() *)

To(c, where) == chunk' = [chunk EXCEPT ![c] = where]

\* The members made of the records seq[i] for users[i], i in I.
Made(mem, users, seq, I) ==
    [u \in Users |-> IF \E i \in I : users[i] = u
                     THEN LET i == CHOOSE i \in I : users[i] = u IN seq[i] ELSE mem[u]]

\* super().chunk(): the records go; a second time they are not there.
Finish(c) ==
    IF deleted
    THEN To(c, "failed") /\ UNCHANGED <<deleted, disturbed>>
    ELSE To(c, "returned") /\ deleted' = TRUE
         /\ disturbed' = disturbed \union (Waiting \ {c})

Blank == [u \in Users |-> IF u \in ToSet(partial) THEN "none" ELSE "absent"]

\* The first of the records from i on whose user is not cached.
Stop(seq, i) ==
    LET stops == {j \in i..Len(seq) : seq[j] \notin cached}
    IN IF stops = {} THEN Len(seq) + 1 ELSE CHOOSE j \in stops : \A k \in stops : j <= k

\* Chunked already; or from the start to the first user who is not cached.
Chunk(c) ==
    /\ phase = "stored" /\ lost = Nobody
    /\ chunk[c] = "idle"
    /\ IF deleted
       THEN To(c, "returned") /\ UNCHANGED <<members, deleted, ids, pos, astray, disturbed>>
       ELSE LET stop == Stop(partial, 1) IN
            /\ ids' = [ids EXCEPT ![c] = partial]
            /\ pos' = [pos EXCEPT ![c] = stop]
            /\ astray' = astray \union {u \in truth : u \notin ToSet(partial) \union joining}
            /\ IF stop > Len(partial)
               THEN /\ members' = Made(Blank, partial, partial, DOMAIN partial)
                    /\ Finish(c)
               ELSE /\ members' = IF kind = "clan" THEN Blank
                                  ELSE Made(Blank, partial, partial, 1..(stop - 1))
                    /\ To(c, "waiting")
                    /\ disturbed' = IF Waiting = {} THEN disturbed
                                    ELSE disturbed \union Waiting \union {c}
                    /\ UNCHANGED deleted
    /\ UNCHANGED <<object, truth, partial, cached, joining, lost, happened, guests>>

\* Bug a mutant checks: the same user is looked up again.
GroupStays(c) ==
    /\ kind = "group" /\ chunk[c] = "waiting" /\ lost = Nobody
    /\ ids[c][pos[c]] \in cached
    /\ members' = [members EXCEPT ![ids[c][pos[c]]] = @]
    /\ UNCHANGED <<object, truth, partial, deleted, cached, joining, chunking, lost, happened, history>>

\* Group.chunk finds the user it waits for; the iteration raises if records
\* were popped meanwhile.
GroupGoesOn(c) ==
    /\ kind = "group" /\ chunk[c] = "waiting" /\ lost = Nobody
    /\ ids[c][pos[c]] \in cached
    /\ LET stop == IF Len(partial) # Len(ids[c]) THEN pos[c] + 1 ELSE Stop(ids[c], pos[c])
       IN /\ members' = Made(members, ids[c], ids[c], pos[c]..(stop - 1))
          /\ pos' = [pos EXCEPT ![c] = stop]
          /\ IF Len(partial) # Len(ids[c])
             THEN To(c, "failed") /\ UNCHANGED <<deleted, disturbed>>
             ELSE IF stop > Len(ids[c]) THEN Finish(c)
             ELSE UNCHANGED <<chunk, deleted, disturbed>>
    /\ UNCHANGED <<object, truth, partial, cached, joining, ids, lost, happened, astray, guests>>

\* Bug a mutant checks: the users are fetched and not used.
ClanForgets(c) ==
    /\ kind = "clan" /\ chunk[c] = "waiting" /\ lost = Nobody
    /\ cached' = cached \union ToSet(ids[c])
    /\ Finish(c)
    /\ UNCHANGED <<object, truth, members, partial, joining, ids, pos, lost, happened, astray, guests>>

\* Clan.chunk has all users, and pairs them with the records there are now.
ClanGoesOn(c) ==
    /\ kind = "clan" /\ chunk[c] = "waiting" /\ lost = Nobody
    /\ cached' = cached \union ToSet(ids[c])
    /\ members' = IF deleted THEN members
                  ELSE Made(members, ids[c], partial, DOMAIN ids[c] \intersect DOMAIN partial)
    /\ Finish(c)
    /\ UNCHANGED <<object, truth, partial, joining, ids, pos, lost, happened, astray, guests>>

\* Some other request caches a user.
Cache(u) ==
    /\ u \notin cached
    /\ cached' = cached \union {u}
    /\ UNCHANGED <<object, truth, members, partial, deleted, joining, chunking, lost, happened, history>>

----------------------------------------------------------------------------

ChunkStep(c) == GroupGoesOn(c) \/ ClanGoesOn(c)

ChatNext ==
    \/ Fill \/ Store
    \/ \E u \in Users : \/ Unheard(u) \/ Speak(u) \/ Look(u) \/ Cache(u)
                        \/ Join(u) \/ Joined(u) \/ Leave(u)
                        \/ \E a \in Users : Invited(a, u)
    \/ \E c \in Chunks : Chunk(c) \/ ChunkStep(c)

\* Steam answers, and the event loop comes to every task that can go on.
ChatFairness ==
    /\ WF_chatVars(Fill) /\ WF_chatVars(Store)
    /\ \A u \in Users : WF_chatVars(Joined(u))
    /\ \A c \in Chunks : WF_chatVars(ChunkStep(c))

ChatSpec == ChatInit /\ [][ChatNext]_chatVars /\ ChatFairness

----------------------------------------------------------------------------

\* What the client holds of the members is what there is in Steam, but for
\* users who changed while the group was loading, who left while they were
\* fetched or a chunk() ran, for whom a program asked when they were no
\* members, whom a chunk() dropped because they had no record any more, and
\* who were invited and have not joined, of whom a clan makes up a record.
MembersAgree ==
    (phase = "stored" /\ lost = Nobody) =>
        \A u \in Users \ (astray \union joining \union guests) :
            u \in truth <=> members[u] # "absent" \/ (~deleted /\ u \in ToSet(partial))

\* A session is lost over a user only when the group was chunked before, the
\* user is being fetched, the client has the user wrong, or the user was
\* invited to a group.
LostAfterChunk ==
    lost # Nobody => deleted \/ lost \in joining \union astray \/ (kind = "group" /\ lost \in guests)

\* After a chunk() during which no record was changed and no other chunk() ran,
\* the members are all there, each made from the user's own record.
ChunkIsWhole ==
    (deleted /\ disturbed = {} /\ lost = Nobody) =>
        \A u \in truth \ (astray \union joining) : members[u] = u

\* A chunk() ends, but for one of a group that holds somebody who is not cached.
ChunkEnds ==
    \A c \in Chunks : (chunk[c] = "waiting") ~>
        \/ chunk[c] # "waiting"
        \/ lost # Nobody
        \/ kind = "group" /\ \E i \in DOMAIN ids[c] : ids[c][i] \notin cached

\* What chat.py:780 says of chunk(), "Get a list of all members in the group.",
\* for the members that the client has when it is called.
ChunkHasAll ==
    [][\A c \in Chunks : chunk[c] # "returned" /\ chunk'[c] = "returned"
           => \A u \in truth : IsMember(u) => members'[u] # "absent"]_chatVars
=============================================================================
