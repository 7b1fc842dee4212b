# A verification project for steam.py

steam.py is an asynchronous client for Steam: one process, one asyncio event loop, one web
socket to a connection manager (CM), a pool of HTTP connections, and a thread per socket that
sends heartbeats. This directory holds TLA+ models of the parts in which tasks, threads and
Steam interact, the TLC configurations that check them on small instances, and proofs, checked
by TLAPS, of what holds of them for every instance.

Nothing here runs in parallel but the keep-alive threads: a coroutine runs from one `await` to
the next without interruption. So an action of a model is what happens between two awaits, and
the interleavings are those of the pieces, of the cancellation of tasks, and of Steam's answers.

## 1. Inventory

| Component | State | Operations | What it calls, and who calls it |
|---|---|---|---|
| Requests and jobs (`gateway.py`) | job id counter, listeners (future + check) | `send_um_and_wait`, `send_proto_and_wait`, `receive` | everything that asks the CM something; `receive` walks the listeners for each message |
| Connection lifecycle (`client.py`, `gateway.py`, `state.py`) | `Client.ws`, the cached `ConnectionState.ws`, sockets, keep-alive threads, `_closed`, events | `login`, `close`, `handle_close`, `poll_event`, `KeepAliveHandler.run`, `dispatch_ready` | the user's task, any task that sends, the threads |
| Call-once flights (`utils.py`) | `being_called`, futures, a lock | `call_once(wait=True)` | `http.login`, `get_api_key`, `access_token`, `cs_servers` |
| Trade offers (`state.py`, `abc.py`, `trade.py`) | `_trades`, `_trades_to_watch`, `trade_queue` | `send`, `wait_for_trade`, `poll_trades`, `_process_trades` | user tasks, notifications; one polling task |
| Mobile confirmations (`state.py`, `trade.py`, `guard.py`) | `confirmation_queue`, locks per tag | `confirm`, `poll_confirmations`, `_get_confirmation_code` | user tasks, `send`; one polling task |
| Authentication tickets (`app.py`, `state.py`, `gateway.py`) | `_apps`, `_active_auth_tickets`, the list's sequence | `create_authentication_ticket`, `temporarily_play`, `send_auth_list`, `handle_ticket_auth_complete` | user tasks, Steam's refusals |
| Licenses (`state.py`, `client.py`) | `licenses`, a lock, an event, futures by package | `handle_licenses`, `redeem_package`, `request_free_licenses` | user tasks, Steam's lists, `dispatch_ready` |
| Client events (`client.py`) | listeners by event, event tasks | `dispatch`, `wait_for` | every handler; user tasks |
| HTTP (`http.py`) | session, cookies, API key | `request` with retries, one method per endpoint | nearly everything |
| Friends, users, invites (`state.py`) | weak user cache, friends, invites | `process_friends`, `parse_persona_state_update`, `fetch_users` | Steam's messages |
| Chat groups, clans, messages (`state.py`, `chat.py`, `clan.py`) | caches of groups, members, roles, messages | message and group handlers | Steam's messages |
| Notifications, comments (`state.py`) | processed comment ids | `handle_notifications`, `handle_comments` | Steam's messages |
| Game coordinators (`_gc/`) | GC listeners, `backpacks`, `_gc_connected` | `parse_gc_message`, `fetch_backpack`, `wait_for_item` | `ext/tf2`, `ext/csgo` |
| Team Fortress 2 (`ext/tf2/`) | `backpack`, schema, account data | item messages, `update_backpack`, `restart_tf2`, `craft` | GC messages, user tasks |
| Counter-Strike (`ext/csgo/`) | as above | matches, inspection, storage units | GC messages, user tasks |
| Commands (`ext/commands/`) | commands, cogs, extensions, cooldown queues | `invoke`, checks, hooks, `Cooldown`, converters | `on_message` |
| The rest | data classes, ids, manifests, enumerations, generated protobufs | conversions, one request each | user tasks |

What is hard in them:

* **Interleavings of coroutines.** State is read before an await and used after it: the cached
  socket, the list of apps `temporarily_play` restores, the answer a poll works through. Tasks
  share dicts keyed by something two of them can have in common (a trade, an app).
* **Cancellation.** A timeout or a task group cancels a coroutine wherever it waits, and with it
  the future it awaits, which others may await or settle (`Queue.__iadd__`, `call_once`).
* **Ordering.** Steam answers in any order; an answer made before an event may arrive after it.
* **Loops that stop by themselves.** `poll_trades` and `poll_confirmations` run once at a time
  and end on a condition that is not "nobody waits".
* **Caches beside incremental messages.** Friends, members of a group and the items of a backpack
  are each filled by an answer, kept up to date by messages, and changed by tasks that fetch users
  or inventories in between.
* **Waiting for what need not come.** Events and futures are set by handlers of messages that Steam
  has no reason to send: a license that is owned already, a Game Coordinator that never went away.
* **Failures half-way.** Any handler that raises ends the session; any attempt to log in may be
  dropped by its timeout while its socket and its thread go on.

`PROJECT.json` lists each of these at its line, with the properties that watch it.

## 2. Modules

| Module | Models | Checked by | Proved in |
|---|---|---|---|
| `Jobs` | requests and answers on a socket | `MCJobs` | `JobsProofs` |
| `Session` | login, close, keep-alive threads | `MCSession` | `SessionProofs` |
| `SingleFlight` | what `call_once` promises | as a property of `CallOnce` | |
| `CallOnce` | `call_once(wait=True)` | `MCCallOnce` | `CallOnceProofs` |
| `TradePolling` | sending, polling and awaiting trades | `MCTradePolling` | `TradePollingProofs` |
| `ConfirmationCodes` | one code per tag and second | through `Confirmations` | `ConfirmationsProofs` |
| `Confirmations` | `confirm()` and the polling of confirmations; composes `ConfirmationCodes` with it | `MCConfirmations` | `ConfirmationsProofs` |
| `AuthTickets` | authentication tickets and the apps played | `MCAuthTickets` | `GamesProofs` |
| `Events` | `Client.wait_for` and `dispatch` | through `Commands` | `MessagesProofs` |
| `Cooldown` | who is refused, and the tasks that record and forget calls | through `Commands` | `MessagesProofs` |
| `Commands` | a message's way through a bot; composes `Events` and `Cooldown` with it | `MCCommands` | `MessagesProofs` |
| `Backpack` | the TF2 backpack, the Game Coordinator's messages and their tasks | `MCBackpack` | `GamesProofs` |
| `Logon` | what the handlers of the first messages share | through `Startup` | |
| `Friends` | the lists of friends | `MCFriends`, and through `Startup` | `StartupProofs` |
| `Licenses` | the lists of licenses, and who waits for them | through `Startup` | `StartupProofs` |
| `Startup` | from the logon to "ready"; composes `Logon`, `Friends` and `Licenses` | `MCStartup` | `StartupProofs` |
| `Chat` | the members of a chat group | `MCChat` | `MessagesProofs` |

Each module begins with what it leaves out. In all of them a variable that the code keeps is
named after it (`currentJobId` for `_current_job_id`, `watch` for `_trades_to_watch`), a variable
that says where a task is stands for the coroutine's suspension point (`pc`, `main`, `send`,
`task`, `block`), and the ones called history variables exist only to state a property. The
operators marked "a bug a mutant checks" are wrong versions of the definition that follows them;
nothing uses them, they show that the properties notice.

### Jobs

`Request` is everything `send_um_and_wait` does before it first suspends: take an id, register
the listener, write. `Dispatch` is the synchronous walk of `receive()`. Unified requests register
for one message type, the others (`emsg=None`) see every message; both compare `job_id_target`
with their id, which wraps at 10000 (`Modulus`). The server answers in any order, an answer may be
unparsable or lost to a handler's exception (`Discard`), messages that answer nothing arrive
(`Push`), callers are cancelled while they send or wait, and the socket goes away.

### Session

`login()` is one task (`main`) that goes through connect, handshake, logon, the requests that
follow, and polling; `close()` is another (`closer`); each socket has a connection and perhaps a
thread. `clientWs` and `stateWs` are the two ways to the socket, the second cached for good by its
first read. `HandleClose` is synchronous and is part of every action whose code calls it. An
exception that leaves a task group is a group, which `except RAISED_EXCEPTIONS` does not catch:
`ThroughTaskGroup` keeps that difference. Left out: the guard prompts of `fetch_refresh_token`,
anonymous login, the order of the list of CMs, and authentication tickets that are active when
`close()` is called (its `deactivate_auth_session_tickets()` then fails its own assertion).

### CallOnce and SingleFlight

The first caller leads a flight; a caller that comes during it follows, holding the lock while it
awaits the flight's future; later ones queue for the lock. Each may be cancelled in any of these
places. `SingleFlight` is the promise in terms of callers only: one run at a time, and a caller is
answered by a run that ended after it called. The refinement mapping takes `inside`, `leading`,
`owed` and `answered` from the places of the callers and from which flights have ended.

### TradePolling

Steam's view of a trade (`steam`), the client's (`known`), what is watched, what is queued, and
the polling task (`poll`). `Answer` is the moment Steam makes its list, which may leave trades
that ended out because the request asks for active ones; `ProcessReceived`, `ProcessSent` and
`QueueSent` are the pieces of `fill_trades` between its awaits, and `AnswerRaises` is a failure
other than a 429, which ends the task group and so the session. `asked` is the task that
`wait_for_trade` starts and that has yet to run. `FetchTrade` and `FetchProcessed` are the two ends
of a `fetch_trade` beside the loop: it processes one trade as the loop does (`Process`), stops
watching it when its state changed, and queues nothing. `taken` and `omitted` remember, for the
properties, whose sender's trade it stopped watching and which an answer left out.

### ConfirmationCodes and Confirmations

A code is a tag and a second, and Steam takes each once: `_get_confirmation_code` locks the tag,
and a timer releases the lock at the next second. `Confirmations` uses it for the list ("list")
and for the request that confirms ("allow"), with two calls of `confirm()` that may be for one
trade, a polling task, Steam and the user's phone.

### AuthTickets

A block is a use of `create_authentication_ticket`. `Enter` and `StopPlaying` are the two ends of
`temporarily_play`, `ChangePresence` keeps `apps or self._state._apps` as it is written, and
`Acknowledge` evaluates the check of *every* listener with the sequence number of that moment.

### Events, Cooldown and Commands

`Events` has the walk of `dispatch` over the list of an event's listeners: a check accepts, refuses
or raises, a future that a timeout cancelled is only removed by a later walk, and the places noted
on the way are deleted afterwards, the last first (`Deleted`). `Cooldown` has a clock that never
goes back, `Ask` (`__call__`, which schedules the task that records the call and looks the earlier
ones up at once), `Record` and `Expire` (the two halves of that task) and `Tick`. A call that is
refused is recorded like one that passes. `Commands` takes a message through `dispatch`,
`process_commands`, `get_context`, `invoke`, the checks, the cooldown, the callback and the events
that follow, one task per message, each of which may be cancelled. Every event of it is a walk of
`Events`, every cooldown an `Ask` of `Cooldown`.

### Backpack

The GC sends messages in order (`sent`), the client handles them in order (`handled`), and those
that name items start a task each (`step`). `service` is what the inventory service knows, which
may be behind `owned`. `Look` is a task from the moment the client is ready to its first request or
its end; `Return` is everything between an answer and the next suspension: it makes a backpack or
updates one in place, and merges, fetches again or restarts TF2. Backpack objects are named by the
task that made them, as two tasks may hold different ones (`ref`, `current`). `Destroy` works on
the current one, whichever tasks are under way. `LockFree` is the lock of the app's inventory.

### Logon, Friends, Licenses and Startup

`Friends` goes through the entries of a list with one action per kind of entry; a handler suspends
where it fetches a user, and `running` keeps others from running in between. The full list collects
its friends and replaces the client's with them at the end (`Loaded`). `Licenses` has the handler
of a list in its two pieces, before and after the owners are fetched (`FetchOwners`, `Store`), and
the calls: they queue for the lock, clear the event or leave a future, ask, wait, return, fail, time
out and unwind. `Startup` puts both, the logon and `dispatch_ready` on one event loop: a handler
that raises ends the session for all of them.

### Chat

One group or clan as a cached object that is filled and stored, its members and the records it has
of them. `Join`, `Leave`, `Speak`, `Invited` and `Look` are the handlers and lookups, `Joined` is the
end of `_add_member`, which fetches the user. `Invited` is a server message: after its author, the
invitee is looked up in the records alone, where a group raises and a clan makes a record up; `guests`
remembers the invitees who have not joined since. `Chunk` starts a call of `chunk()`: a group waits for each
user in turn to be cached (`GroupGoesOn`), a clan fetches all of them and pairs them with the
records of that moment (`ClanGoesOn`); either deletes the records at its end.

## 3. Runs

All of them are exhaustive. `friends` uses symmetry (of the users) and so does `commands` (of the
waiters, and of the messages of one bucket); they check invariants and an action property only.

| Run | Instance | Result |
|---|---|---|
| `jobs` | 3 calls (2 unified), modulus 3, 3 ids | no error |
| `session` | 2 sockets, 2 logins | no error |
| `call_once` | 3 callers, 5 calls | no error |
| `trades` | 2 sent trades, `fetch_trade` of one | no error |
| `confirmations` | 2 calls for one of 2 trades, 2 ticks a second | no error |
| `tickets` | 3 blocks, 2 of them for one of 2 apps | no error |
| `commands` | 3 messages of one bucket and 1 of another, 3 waiters, 1 call per 2 ticks, 3 ticks | no error |
| `backpack` | 3 items, 4 messages | no error |
| `friends` | 2 users, a full list and 3 later ones | no error |
| `startup` | 1 user with 2 lists; 1 redeemed and 1 free package, 3 lists of licenses | no error |
| `chat` | 3 users, 2 calls of `chunk()`, 2 events | no error |
| `chat_chunk` | same | `ChunkHasAll` is violated |

What the passing runs show, and why their bounds are enough:

* `jobs`: a future that nobody settled is listed (`NoLostWaiter`) and gets its own answer, or one
  that is a full turn of the counter away (`Correlated`); a call whose answer is processed returns
  (`AnsweredEventually`). With modulus 3 there are two ids, so the third request reuses the first
  one's while it may still be unanswered or unsettled: the turn the code takes after 9999 requests.
  Three calls are needed for it, and are enough for a message that settles one, removes a cancelled
  one and leaves a third. `SendUm` uses ids that nobody waits for.
* `session`: a session that polls its own socket is watched by a running thread (`SessionIsWatched`),
  which notices silence (`SilenceIsNoticed`); `close()` is final (`NoSessionAfterClose`), ends
  `login()` and the threads (`CloseEndsLogin`, `CloseEndsThreads`), wherever it overtakes it. Two
  sockets give a second attempt after a dropped, refused or lost one while the first one's thread
  and `dispatch_ready` task are still there; two logins give the use of state left over from the
  first. A third socket only repeats the relation between a newest and an older one.
* `call_once`: callers see what `SingleFlight` promises (`SharesFlights`), and a call returns unless
  the leader it follows was cancelled (`EveryCallReturns`). It needs a leader, a follower that holds
  the lock, and a caller that queues behind it; five calls let each come back after another's flight
  ended, failed or was cancelled.
* `trades`: a waiting sender is polled for (`WaiterIsPolledFor`) and is not passed over
  (`NoLostWaiter`); `send()` returns, whatever becomes of the trade, unless an answer left it out while
  its sender waited, `fetch_trade` took its change, or the session ended (`SendReturns`); and a
  confirmation is noticed (`ConfirmationIsNoticed`). Two senders, one of whose trades may be processed
  while the other waits, was cancelled, or is about to start. One of the trades is fetched; one call
  of `fetch_trade` at a time is enough, as it only takes one trade out of what is watched. A received
  trade has no waiter, and whether one is watched matters to no waiter either.
* `confirmations`: no code is used twice (`CodesDiffer`), nobody waits for what is in the queue
  (`NoLostWaiter`), only a rival call makes `confirm()` raise (`OnlyRivalsRaise`), and what a list
  names while somebody asks is found (`AskedForIsFound`). Two calls for the same trade compete for
  one future and one queue entry; a second trade that nobody confirms keeps the queue non-empty.
  Two ticks per second are enough for codes that are asked for early and late in a second.
* `tickets`: `OnlyRivalsDeactivate`, `PresenceRestored`, `ActivationReturns`. Two blocks for one app
  and one for another overlap, nest or follow each other, in a client created with any set of apps.
* `commands`: who is refused is refused for calls of its own bucket and period: as many as the
  documentation says were executed, or fewer and refused ones that make up the number
  (`RefusalIsCounted`); the rate is kept where the recording tasks have caught up (`RateIsKept`); and a
  waiter whose future is pending is listed (`NoDeafWaiter`). With a rate of 1 and three messages of a
  bucket, the third may be refused when the first is forgotten and only the refused second is left;
  the fourth is in another bucket. Three ticks take a call past the end of the first one's `per`, with
  its task late or not. Three waiters in one list let a walk delete two places, for a timeout and an
  accepting check, before, after or around one that stays.
* `backpack`: an item that was removed comes back only from an inventory that was made too early
  (`RemovedStaysRemoved`), one the client was told of stays (`ReceivedIsHeld`), and tasks end or wait
  for a welcome that need not come (`TasksEnd`). The first two messages load the backpack; two more
  let an item be added or changed and another, or the same one, be removed, while two tasks fetch.
* `friends`: after all handlers the client agrees with Steam but for users whose handlers crossed
  and for the rest of a list given up (`FriendsAgree`), and a list is given up only for a crossed
  removal (`GivesUpWhenCrossed`). Two users are what one list needs to have a rest, three later
  lists let a user become a friend, go, and come back while the full list is handled.
* `startup`: the session is lost only to a license somebody had been waiting for (`LostToALicense`),
  `request_free_licenses` returns with its license but for a list taken for another (`FreeIsHeld`),
  the client gets ready but for the cases named (`ReadyEventually`), and the lock is passed on
  (`LockPasses`). A redeemer and a free request compete for the lock; three lists are the first, one
  that tells of a license, and one on its own that comes between them.
* `chat`: the client's members are those in Steam but for the named races and for the invitees a clan
  made records of (`MembersAgree`), a handler raises only after a chunk, for such a user or for an
  invitee of a group (`LostAfterChunk`), an undisturbed chunk is
  right (`ChunkIsWhole`) and ends unless a user is never cached (`ChunkEnds`). Three users are a
  member with a record, one made already, and one who comes or goes; two events of each call's time
  suffice to disturb it, and a third was tried for the invariants without a difference.

`ResultsAreFinal` and `NoSettledListener` (`Jobs`), `CalledOnce`, `NeverStale`, `OnlyFollowersCancel`
and `OnlyDroppedFlightsStrand` (`CallOnce`), `EnteredWhenListed` (`AuthTickets`), `OneRequest`
(`Backpack`) and the types of most modules have no run of their own:
their theorems say more.

### Fairness

* Steps of the event loop (a task whose future is done resumes, a timer's callback runs, a lock's
  next owner gets it) are weakly fair: asyncio runs what is ready. In `Confirmations` time passes.
* What Steam does is fair only where a property says something of a Steam that answers: requests
  in `Jobs`, `TradePolling`, `AuthTickets` are answered (weakly fair); in `Confirmations` the
  answer is strongly fair, because a 429 sends the loop back to the code and disables it again and
  again.
* In `Session`, `login()` as a whole is weakly fair because its timeout bounds it, the threads are
  because they are threads, and the peer may always stop answering.
* In `Backpack` messages are handled, tasks run, requests are answered (or refused) and the service
  catches up; a task's turn at the lock is strongly fair because `asyncio.Lock` is first in, first
  out. The GC need not send anything, a welcome included.
* In `Startup` Steam answers what it is asked and the login completes; in `Chat` it fills the group,
  and fetched users and calls of `chunk()` go on. That others cache a user is not fair, and
  `ChunkEnds` says what depends on it. `Commands` and `Friends` are checked for safety only.
* Never fair: calling, cancelling, closing, failing, offering or settling anything.

### Disagreements

`chat_chunk`: `chunk()` is documented as "Get a list of all members in the group." (`chat.py:780`).
It begins with the records that are left, and those of members who wrote or were looked up are gone,
as are members who joined later: they are not in the list it returns nor in the group any more.

Others were seen while the models were written. They have no run: where a model reaches one, the
property it would break names it as an exception; the rest can be read off the lines given.

* A connection lost inside `async with self.ws` leaves it as an `ExceptionGroup`, so the clause that
  dispatches `on_disconnect` and retries does not catch it (`client.py:508`). For the same reason a
  session that is lost ends `login()`, where the documentation of `on_ready` (`client.py:1493`)
  speaks of a session that is resumed.
* After a retry or a second `login()`, requests and polling go to the socket that was cached first
  (`state.py:267`, `client.py:447`).
* `dispatch_ready` starts before the logon is sent, so an event set by an earlier login lets
  `on_ready` be dispatched before this one's logon is answered.
* `close()` with an active ticket calls `deactivate_auth_session_tickets()` without tickets, which
  fails its own assertion (`state.py:2168`).
* A trade is not watched after its first change of state, also when that was its confirmation
  (`state.py:1747`). `send()` (`abc.py:371`) puts the trade as it was sent into `_trades` in place of
  an object that a poll, running meanwhile, has cached and queued, and returns with the old one.
* A `fetch_trade` that hears of a trade's change before the polling does takes it out of what is
  watched (`state.py:1747`) and tells nobody: the loop may stop, and a `send()` that waits for the trade
  stays where it is. It also watches a trade without starting to poll. And a trade that ends before
  any answer names it may be in none, as the request asks for active ones: `send()` waits for ever.
* The records of a chat group are asked for a user who has been invited and is no member
  (`state.py:1448`): in a `Group` the `KeyError` ends the session (`group.py:54`); a `Clan` makes a
  record up (`clan.py:509`), and counts the invitee among its members from then on. The early return
  before it, `self.intents & Intents.Users & Intents.Chat > 0` (`state.py:1432`), never happens: no
  flag is in both.
* `confirm()` waits for ever when a list lacks its confirmation and leaves the queue empty
  (`state.py:1860`), where `trade.py:564` documents an error.
* A client created without apps does not play the app of its second ticket block (`gateway.py:865`),
  and a block that is left while another runs stops the other's app.
* `restart_tf2` plays apps that are played already, which sends nothing: the welcome it waits for
  need not come (`ext/tf2/state.py:157`). A refused inventory is a `WSException`, which
  `except HTTPException` lets through to the task group (`ext/tf2/state.py:101`).
* `craft()` takes a response that was late for another call; `fetch_backpack` stores under the `App`
  object while the `backpack` property reads by id, so Counter-Strike's is always `None`.
* With `auto_chunk_chat_groups`, `_maybe_chunk` reads the records that `chunk()` has just deleted and
  ends the session; after any `chunk()`, so does a member who leaves (`chat.py:603`). `Clan.chunk`
  pairs users with the records of a later moment (`clan.py:469`).
* With the intent of chat groups and without the one of users, `dispatch_ready` waits for ever
  (`gateway.py:416`). Redeeming an owned license keeps the lock (`client.py:820`); a request that
  fails in `hold_licenses` leaves its event cleared (`state.py:2057`).
* Two cooldown checks in one turn of the loop both pass. A refused call is recorded like one that
  passed (`cooldown.py:134`) and counts towards later refusals, so whoever keeps trying is not let
  through until a pause of the whole period; the documentation of `cooldown()` counts "the amount of
  times a command can be executed" (`commands.py:979`) and says that its example "can only be invoked
  a user every ten seconds" (`commands.py:997`). `RefusalIsCounted` keeps the two cases apart.
* A cancelled command dispatches `command_completion` (`commands.py:363`), unless it was in a hook,
  where the event is documented as one of a command "completed without error" (`bot.py:620`).
* Past `max_comments`, the processed comment ids forget an arbitrary one (`state.py:2399`). A
  heartbeat scheduled just before the loop closes is retried for ever (`gateway.py:246`).

## 4. Proofs

Checked by tlapm with Z3, Zenon and LS4, for every value of the constants under the named
assumptions (`...Assumption`), which say no more than that bounds are numbers, maps have their
domains, the "none" values are not elements, and the sets that are counted or enumerated are finite
(`Ids` of friends, `Calls` of commands and of licenses, `Users` of a chat). Each proof module states
an inductive invariant (`IndInv`, or one name per part: `FriendsInv`, `TicketsInv`, `CommandsInv`,
`ChatInv`), proves it in one lemma per action or part of the state, and derives the theorems. Three
modules hold more than one part; the parts of `GamesProofs` and of `MessagesProofs` share no state.

Every invariant of the passing runs is a theorem here, and so are the action properties
`NoSessionAfterClose` and `RateIsKept` and the refinement `SharesFlights`.

* `JobsProofs`: types, `NoSettledListener`, `NoLostWaiter`, `Correlated`, `ResultsAreFinal`.
  `Correlated` is not inductive: whose answer an id fetches depends on how far the counter has
  moved. `Tracks` says of every id a caller or the server holds how far behind the counter it is,
  modulo a turn; `Paired` follows from it for each new id, and says that a caller and an
  unanswered request with the same id are the same or a turn apart.
* `SessionProofs`: types, `SessionIsWatched`, `NoSessionAfterClose`. `Watched` starts at the end
  of the logon, before the session; `Finished` says that `http.close()` left no socket of this
  login usable; `Numbered` relates the two sockets and the order in which they were opened.
* `CallOnceProofs`: types, `CalledOnce`, `NeverStale`, `OnlyFollowersCancel`,
  `OnlyDroppedFlightsStrand`, and that `CallOnce` implements `SingleFlight` (`SharesFlights`). `Led` ties
  `being_called` to the one leader, of the last flight; `Settled` says what a flight's future can
  be; `Timely` relates a caller's flight to when it called; `Dropped` says that a flight whose leader
  was cancelled has no result and is not the one being called. The
  refinement proof maps each step to a step of the promise or a stutter.
* `TradePollingProofs`: types, `WaiterIsPolledFor`, `NoLostWaiter`. `Awaited`: a trade that is
  waited for is watched, or the answer under way has it, or `fetch_trade` took its change; so the loop
  cannot stop before its sender is resolved, but for the last.
* `ConfirmationsProofs`: types, `CodesDiffer`, `NoLostWaiter`, `OnlyRivalsRaise`. `Guarded`: a
  code made in this second holds its lock until the second ends. `Own`: a future is kept under its
  own trade. `Supplied`: whoever was resolved has a queue entry, or a rival took it. The codes'
  half and the queue's half are proved apart, as each step concerns one of them.
* `GamesProofs`, `Backpack`: types, `OneRequest`, `ReceivedIsHeld`, `RemovedStaysRemoved`. For the
  third, `Known` says that the service knows every item that was received or is in some backpack and
  is not gone, so that no later answer lacks it, and `Fresh` that an answer under way has it as well;
  one request at a time keeps an older answer from replacing a newer one. The last is a second
  invariant, `RemovalInv`: an item that is held and not owned is `Excused`: its removal is still to
  be handled (`Pending`), or was handled while the service or an answer still had it. `Told` says the
  same of every item that the service or an answer has and the client does not own.
* `GamesProofs`, `AuthTickets`: types, `EnteredWhenListed`, `OnlyRivalsDeactivate`,
  `PresenceRestored`, from `Crossing` (two exchanges at once are known to have crossed), `Holding`
  (the third property from the activation on) and `Nesting` (blocks that do not overlap restore what
  they found).
* `StartupProofs`, `Licenses` in `Startup`: types, `LostToALicense`, `FreeIsHeld`. A step of `Startup`
  is a step of `Licenses` in a session that is not lost, or leaves the licenses and the session as
  they are (`StepOfLicenses`). `FutureOfACall` says what a redeemer's future can be at each of its
  places, `WaitedAreHolding` that a future is kept only under the package of the lock's holder.
  `EventIsOfALateList` and `ReturnedAreServed`: when the event is set after a call cleared it, a list
  that was not handled by then did it.
* `StartupProofs`, `Friends`: types, `FriendsAgree` and `GivesUpWhenCrossed`, for the module alone and
  again at startup, where a lost session stops its handlers; with them the types of `Startup` as a
  whole. `ListsInv` is about Steam: the lists up to the last one say of every user what Steam has, and
  each entry tells of a change from what the lists before it say (`Says`). `ClientKnows` relates the
  client to it: a user on whom handlers never crossed is held as the first n lists say, for some n,
  and just the entries of these lists that name the user were processed. So the next entry finds what
  it changes, a removal in particular finds a friend or an invite, and when all lists are done with
  n is their number. It needs that handlers start in order and wait where they fetch
  (`HandlersWait`), that the earlier lists naming such a user are done with when a later one is
  handled (`OneAtATime`), and that a friend who is being fetched is no invite (`FetchedUninvited`).
* `MessagesProofs`, `Commands` with `Events` and `Cooldown`: types, `RefusalIsCounted`, `RateIsKept`,
  `NoDeafWaiter`. `CooldownInv` says whose each entry of the queue is, and until
  when each call has one unless another call of that tick took its place. A refused call then has an
  injection from the entries of its bucket into earlier calls; of a call that passes, the recent calls
  of the bucket inject into the entries, unless a recording task is behind. `AskedOnce`: a
  message asks the cooldown in one step (`Moved` states what each step of a message does). For
  `NoDeafWaiter`, `DeletedIs`: in a list that loses some of its places, what was elsewhere moves to its
  rank among what stays, an injection of as many places as there are, so all of it is still there.
* `MessagesProofs`, `Chat`: types, `MembersAgree`, `LostAfterChunk`, `ChunkIsWhole`.
  `NewcomersBelong`: whoever a task is about to make a member, one that fetches the user or a chunk
  that holds the record, is in the group or excepted by the property. `GuestsOutside`:
  whoever was invited and has not joined is not in the group, so the records a clan makes up are those
  of the exception. `NobodyMissing`: while a chunk
  runs every user of the group has a place in `_members`, so deleting the records at its end loses
  nobody. `OwnRecords`: an empty place has its record until a chunk deletes them. `Undisturbed`: a
  chunk that nobody disturbed goes through the very records there are, and filled the places before
  the one it is at.

Only model-checked is liveness (TLAPS does not handle fairness and `ENABLED` here):
`AnsweredEventually`, `SilenceIsNoticed`, `CloseEndsLogin`, `CloseEndsThreads`, `EveryCallReturns`,
`SendReturns`, `ConfirmationIsNoticed`, `AskedForIsFound`, `ActivationReturns`, `TasksEnd`,
`ReadyEventually`, `LockPasses`, `ChunkEnds`.

## 5. Not modelled, and why

* HTTP retries (`http.py`): each request sleeps and asks again by itself; what requests share, the
  login and the API key, is `CallOnce`.
* Notifications and comments: one request and one event each.
* Crafting, schema and account updates of Team Fortress 2, and Counter-Strike: listeners of requests
  to the GC, which are the walk of `Jobs` once more, and conversions.
* Channels, roles, ranks, reactions and the message cache of chat groups; presence updates and the
  user cache: each is one handler that replaces one object, without a suspension in between.
* Cogs and extensions, help, argument converters, currency, ids and invite codes: sequential code
  and pure conversions, which examples in the tests cover.
* Manifests and depots (decryption and I/O), models and media (data classes), the requests of apps,
  packages and the store (one request and one conversion each).
* Generated protobufs, enumerations and wire types: declarations without behaviour, and a large part
  of the repository's lines.

What is left of the plan: the guard prompts of `fetch_refresh_token` before the logon, and the cache
of messages against edits and deletions. To prove: the safety parts of the arguments for liveness,
such as what a task of `Backpack` or a call of `chunk()` that does not end is waiting for.
