# A formal model of OctoChat

OctoChat is an end-to-end encrypted chat: an Expo app (`apps/mobile`, also the web client and the
content of the Electron shell `apps/desktop`), a headless SDK (`packages/sdk`) and a thin server
(`apps/server`) around the external Starfish sync server. Rooms are append-only logs; spaces,
registries and profiles are merge documents of the external sync library. This directory holds
TLA+ modules translated from that code, the TLC configurations that check them, and proofs checked
by TLAPS.

## 1. Inventory

What each part keeps, what changes it, what makes it hard, and what would make it correct. The
last column says where it stands here.

| Part | State | Operations | Hard because | Correct means | Here |
|---|---|---|---|---|---|
| Offline outbox (`outbox.ts`, `outbox-context.tsx`, `use-room-send.ts`, sdk `outbox/`) | queue of one account in memory, one persisted queue per account, running/rerun flags of the drain | enqueue, claim, remove, recordFailure, retry, hydrate, clear; drain and its triggers; `sendText` | the drain and the composer await requests while the account, the network and the queue change; responses are lost; the app dies | nothing lost, nothing stuck, sent under its author, sent once when nothing fails | `Outbox`, `DurableQueue` + proofs |
| Room log (`use-room.ts`, sdk `stream-log.ts`, `message-view.ts`) | the store a screen shows, the cursor's checkpoint, the persisted log | open, seed, paint, pull, merge, persist, append, optimistic echo, roll back | pulls overlap with sends, with sweeps of other screens and with closing | no message lost behind the checkpoint, no ghost bubble | `RoomLog` + proofs |
| Live sync (`use-room-live-sync.ts`, `room-events-bus.ts`, sdk `events.shared.ts`) | the active room's pull, the stream's health | focus, change event, poll, stream up and down | events are lost, pulls fail | an open room sooner or later shows everything | `RoomLog` |
| Connectivity (`connectivity*.ts`) | one flag, a debounce timer | stream and request outcomes | the flag is only a guess | no decision that loses a message rests on it | a free variable of `Outbox` |
| Session and vault (`session-context.tsx`) | vault, session, operation lock, a dozen module caches | boot, sign in, add, switch, log out, unlock, sign out | every operation is a chain of awaits that can fail or be overtaken | no account lost from the vault, session and vault agree, no cache of another account | `Session` + proofs |
| Automations (sdk `automations/`, app `lib/automations/`) | registry meta (`lastRunAt`, `lastFetchHash`, `lastError`), leader lock, scheduler tasks | tick, command, patch, acquire, release, reconcile | several instances and devices work on snapshots of one registry | one runner, no repost of unchanged content, a mishap costs one early run or one repost, no missed schedule, tasks as the index wants them | `Commands`, `Automation`, `AutomationWatched`, `Tasks`, `Schedule` + proofs |
| Unread (`unread-context.tsx`, sdk `reads.ts`, `dm-unread.ts`) | counts, read marks, their copies on the device and in the account | event, mark read, load, reconcile, prune, seed | events race focus, loads, and marks from other devices | a badge neither hides nor invents a message | `Unread` + proofs |
| Revocations (`revocation-store.ts`) | lists in force, lists in the file | accept, persist, boot | the process dies around the rename, the file may be unreadable | what reached the file stays enforced | `Revocation` + proofs |
| Event streams (`events.ts`; the role enricher is a library's) | one connection per caller, its topics | connect, check each space, open, disconnect | membership and revocations change between the checks | a stream is what its caller may read, not more and not less | `LiveEvents` + proofs |
| Webhooks (`webhook.ts`, sdk `webhooks.ts`) | registry document, room logs | create, remove, post, publish | registry read before token check, append and publish; owners edit from several devices | no edit lost, no post after a revocation, no event without its message | `Webhooks` + proofs |
| Directory (`projections.ts`, sdk `explore-spaces.ts`) | list document of public spaces | two projections, one reader | two documents feed one entry, in any order | listed exactly while something is public | `Directory` + proofs |
| Rooms of a space (`rooms-registry-context.tsx`, sdk `batch-space.ts`) | entry in memory, read in flight, copy on the device | ensure, refresh, prefetch, fall back | shared and batched reads fail, are dropped, or outlive their account | a good list is never replaced by less | `RoomsRegistry` + proofs |
| Direct messages (sdk `starfish/dm*`) | mapping, list of spaces, inbox, per person | create by two channels, reconcile, accept, heal | both sides may start at once, and each works on an older copy | one room per pair | `Dms` + proofs |
| Desk (sdk `desk/`, `requests-context.tsx`) | inbox, nodes, grants, lists of several devices | submit, accept, decline, reconcile, claim | several writes, any may fail; two devices may act at once | one node per request, none unanswered | `Desk` + proofs |
| Autosave (`use-autosave.ts`, sdk `autosave.ts`) | draft, timer, what was committed | type, tick, blur, unmount | the three fire after one another | each text committed once, the last one always | `Autosave` + proofs |
| Message view (sdk `format/message-view.ts`, `messaging/reactions.ts`) | the log | tap, edit, delete, pin; fold by row and by index | clocks of the writers order the events, anybody can write any, two folds for one view | both folds agree and let each one decide only on what is his own, a tap does what it shows | `MessageView` + proofs |
| Desktop updater (`apps/desktop/src/updater.ts`, `constants.ts`) | downloaded bundles, a pointer, the session's bundle | launch, check, download, promote, point, prune | any step fails or dies, what is published changes | what is served is whole, an announced update is applied | `Updater` + proofs |
| Spaces rail, members, caches and throttles (`spaces-context.tsx`, `node-access-cache.ts`, `reconcile-throttle.ts`, ...) | lists and in-flight maps | refresh, share, clear | an answer that arrives after the clear | nothing of another account is cached | not modelled |
| Pairing, push, app lock, AI, UI, cryptography | - | - | platform or library calls | - | not modelled, see section 11 |

How they interact: `sendText` calls the room's `send` and, on failure, the outbox's `enqueue`; the
flusher appends through the SDK, reports reachability and asks the open room to pull through the
events bus; the stream's callback asks the open room to pull or bumps a counter; the session
provider replaces the account under all of them, and each one notices in its own effect.

They meet in these places: the revocation store decides who may open an event stream (`LiveEvents`
extends `Revocation`); the stream feeds the open room (`RoomLog`) and the counts (`Unread`); the
session decides whose queue the outbox holds (`Outbox` sees its succession of accounts) and whose
counts and rooms are loaded (`Unread` and `RoomsRegistry` have it as sign-ins and changes of account);
the leader lock and the registry's runner decide which instance ticks (`Commands`, `Automation`).

## 2. Plan and order

1. `Outbox`, `DurableQueue`, its refinement and proofs.
2. `RoomLog` and its proofs, for messages.
3. `Commands` and `Automation`: who runs an automated room, and what a run does; `Schedule`: when.
4. `Session`: account operations as chains of awaits, with the caches they reset.
5. `Unread`, `RoomsRegistry`, `Autosave`: the caches and documents behind the screens.
6. `Revocation`, `LiveEvents`, `Webhooks`, `Directory`: the server.
7. `Dms` and `Desk`: protocols between accounts.

8. `Tasks`, beside `Automation`; `Updater`; `MessageView`.

All of these are done. What is left, by what it would add: the spaces rail and the node-access
cache, whose answers may outlive a session; device pairing; `Session` composed with `Outbox` in place
of its free `SetSession`; threads and the merging of unsent messages; the month shards of the DM inbox.

## 3. The outbox

`Outbox` models every operation of the store, of the flusher and of the composer's fallback. One
action is one turn of JavaScript: from an event or a settled promise to the next await. The key-value
backends that ship (MMKV on native, localStorage on the web) answer within the turn, so `hydrate`
happens in the turn of the effect that calls it.

| Variable | Code |
|---|---|
| `session`, `owner` | `sessionRef.current`; `outboxStore.userId` |
| `items`, `kv` | `outboxStore.items`; the persisted queues |
| `online` | `getOnline()`, which flips at any moment |
| `live`, `author` | the local state of a `sendText` call; the session it captured |
| `drain`, `rerun` | the locals of the running `drain()`; `rerunRef.current` |
| `log` | the server's log: how often each message was appended under each account |

`SetSession` is any account operation of `session-context.tsx`; `ClearOnSignOut` and
`HydrateOnSignIn` are the provider's effects; `SendOnline`, `SendOffline`, `LiveCommit`, `LiveAck`,
`LiveFail` are `sendText`; `Tick`, `GoOnline` are the triggers; `DrainCommit`, `DrainAck`,
`DrainFail` are the outcomes of `sendQueued`; `Retry` is the tap on a failed bubble; `Crash` is the
death of the app.

Abstractions: the order of the queue is left open; attempts saturate at `MaxAttempts` and counts in
the log at 2; every message is composed once (ids are random); the user acts only on a screen whose
account has settled. A request that never settles is not modelled: the flusher would wait for it.

`OutboxWatched` adds `calm`, the history of whether anything has happened that may send a message twice: an
acknowledgement lost, with its response or with the app, or an account that changes while the drain runs. As
long as nothing of the kind has, `SentOnceWhileCalm` holds, through any number of other deaths, refusals and
changes of account.

`DurableQueue` is what the headers of the two files promise: each account owes a set of messages,
and a message leaves it only when the server has taken it under that account.

Two statements of the comments do not hold, and a run of its own shows each: `outbox_wrong_identity` (the account
changes while a live send is awaited, and its fallback entry joins the new account's queue) and
`outbox_sent_twice` (switch away and back while the drain awaits). The constants `SwitchMidSend` and
`SwitchMidDrain` isolate them.

## 4. The room log

`RoomLog` is one room on one device: the screen and its store, the cursor of the external library
(modelled from how `use-room.ts` uses it: pulls run one at a time, `getItems()` is what it holds,
`pull()` returns what is new), the persisted log shared with the sweeps of `foldRoomCached`, the
event stream, the poll, the live send with its optimistic echo, and the outbox reduced to what
`DurableQueue` says of it. The server's log is a sequence of message ids, so a checkpoint is a
position. Reactions, edits, deletions and pins ride the same log without an echo and add nothing to
these properties; decryption failures (skipped elements) and the rebuild of a cursor on a mounted
screen are left out.

`HistoryLive` says what the external `getDecryptedItems()` returns when the cursor moves while it
decrypts: what the cursor holds when it resolves, or when it was called. The code is right about
`HeldIsShown` in the first case only: `use-room.ts:212` replaces the store's content.

`room_missed` shows that an open room can stay without a message while the stream is up.

## 5. Automations

An automated room is a room with a bot that lives in the app. `Commands` and `Automation` model two
sides of it, which share only the registry's choice of a runner.

`Commands`: app instances (tabs) of one device share its identity and its Web Locks. A room screen
below another one of its stack stays mounted, so a tab can show a room twice. `OpenRoom`,
`LeaveRoom` are the effects of `useIsAutomationLeader`, with `acquire` and `release` counting the
screens of a tab; `Grant` is the callback of the lock request; `CloseTab` is the death of a tab;
`Receive`, `Grant` and `Refresh` are what runs a watcher's effect (store, `active`, room), and
`Dispatch` is `dispatch()`, as part of the turn that triggers it; `Elect` is the settings sheet of any
device. Timestamps of commands are their order, and a mount's baseline is the number of commands
then written; `Receive` delivers in any order, or not at all.

| Variable | Code |
|---|---|
| `queue`, `leader` | the browser's lock queue; `Entry.leader` of each tab |
| `depth` | `Entry.refs`, the screens of the room mounted in a tab |
| `since`, `processed`, `store` | `baselineRef`, `processedRef`, the conversation store, per screen |
| `elected`, `known` | `runOnDeviceId` and `enabled` in the registry; in a tab's cache |
| `ticks` | calls of `runAutomationTick` in progress |

`commands_twice` shows that the lock does not keep two tabs from answering a command: what the leader
has answered is unprocessed for the tab that takes over.

`Automation`: one tick per device and one each of the "Run now" button and of commands, in
the stages of `runAutomationTick`: read the room (`StartScheduled`, `StartOther`), fetch (`Fetched`,
`Answered`), post (`Posted`, `PostFails`), tell the room of a failure (`Told`, `NotTold`), write the
outcome back (`Written`, `WriteLost`). A content stands for its hash. Times are ages that saturate at
the cadence `Every`, which is all that the due gate asks of them; every patch carries the time its tick
started. `disturbed` is a history variable: it is set where the dedup may stop being reliable (two ticks
overlap; a record is lost; the app dies between post and record; a response is lost) and cleared
when a content is posted and recorded by a tick that is alone. The properties hold
outside that; what the code does inside is part of the model (a repost, and a room that keeps an older
content when the record of the newest one was lost and the feed is back at the recorded one).

`AutomationWatched` adds an account of what the mishaps cost, for overlaps are no exception: the app ticks on each
device, on the button and on commands, with nothing between them but the registry. `ran` is how long ago the
latest run started, whether recorded or not; `front` is the tick that started last, `ahead` that the schedule
started it less than `Every` after `ran`. A tick that starts before the one at the front has ended, and a run
whose record is lost, are a credit of `early`, because they leave, or may leave, a `lastRunAt` that is too old; a
run of a tick that is `ahead` is a debit, and a record of the latest run made while nothing else is in progress
settles the account, so that no credit is kept for later. `again` does the same for posts: two ticks that may
post at once, a post whose response is lost and a post without its record are credits, a scheduled
post of what the room was given last is a debit. `AheadOncePerMishap` and `RepostOncePerMishap` say that neither account is
ever overdrawn: the schedule may run ahead of its cadence, and a content may come twice, but once for each
mishap and never by themselves. Leaving out any one of the credits makes TLC find a debit without it. A failed run is tried again
at the next wake, as `isDueForScheduledTick` has it, and is no early run.

`Schedule` is the arithmetic of `nextScheduledRunAt`, for intervals, daily, weekly and cron cadences, on
a calendar whose units are constants; `Run` and `updateAutomatedRoom` change the last run and the schedule as
the orchestrator does. `FiresNext` compares it with the set of instants a cadence names, which is
computed from nothing the code computes. The week has seven days and the epoch is a Thursday, as in
the code; the day of the month and the month of a cron expression are not supported by the code.
`ScheduleConstantsOK` says what the times of a schedule may be, which are those the pickers offer
(`IntervalPicker.tsx:118-132`), and that a cron expression is searched for a week at least (`schedule.ts` searches 366 days).

`Tasks` is what wakes the application for those runs: one task of the operating system for each
automated room of this device. `syncAutomationTasks` and `cancelAllAutomationTasks` are operations in one queue
(`opQueue`), modelled await by await: `SpacesRead`, `Cancelled`, `Scheduled`, and where each may fail.
`EffectRuns` is the cleanup of one session and the effect of the next, `AfterFirstFrame` the deferred
synchronisation, `SheetWrites`, `SheetSyncs` and `SheetFails` the screens that edit automations,
`EditedElsewhere` other devices. `unseen` are the rooms that others have changed since the last reading, `inDoubt`
says that the last operation failed or synchronised for an account no longer in use. Two consequences of the
code that the model has: a sheet synchronises with the session it was rendered with, so that a save that
outlives its session gives the former account's tasks to the device until the next synchronisation; and a
space whose index cannot be read inside the batch counts as one without rooms, so that its tasks are cancelled,
while a failure of the whole batch leaves them untouched (`conductor-init.ts:229`).

## 6. The server

`Revocation` is `createFileRevocationStore`: `acceptList` takes a list into force, keeps it for
serialization and writes the file, all in one turn; `DiesPersisting` is a death before the rename,
`Boot` replays the file, `BootUnreadable` is a file that does not parse. `owed` is what was in force
at the last successful write.

`LiveEvents` is the authenticated stream over that store. `Connect` authenticates and cuts the
candidates at the cap, `CheckSpace` is one await of the enricher, in any
order with writes of the access records, `OpenUpstream` opens the gateway with the topics found. With no topics the
gateway would stream everything, hence the placeholder topic; `Delivered` is the external gateway's
filter. The enricher that `index.ts:106` wires is `createSpacesRoleEnricher` of a library; `space-role.ts`, which it
replaced, is not modelled. Assumed of it (`Grants`, `Enricher`) is what the comments at `index.ts:96` and
`index.ts:100` say: the roles follow the access record at the moment of the call, and who asks for a space without
a record is a member. Of a record that cannot be read nothing is assumed: the answer may be yes, no or an
exception, which ends the request, since `events.ts:186` has no handler. Such spaces are noted in
`blind`, and the property says nothing of them but that they leave the others alone.

`Webhooks` has owners' edits (read, decide, push with the hash of what was read) and posts
(read the registry, hash the token, append, publish). `late` marks a request that began after its webhook was
removed. The posts are independent of each other, so one is enough.

`Directory` has the two projections, each one step with the write that triggers it, and `Listed`, the
client's filter. An entry goes away with the last public room, and comes back without a name when
a room is opened again, because the name is projected by the other document only, until that is
written; `DirectoryExact` is about being listed.

## 7. The account and what hangs on it

`Session`. Every operation is a chain of stages; a stage is what happens between two awaits.

| Variable | Code |
|---|---|
| `disk`, `vault` | the stored vault; `vaultRef.current` |
| `session`, `status`, `opRef` | the states and the reference of the same names |
| `chain` | the locals of the operations in progress: what they read, will write, and for whom |
| `caches` | the accounts that the module caches have something of |

`StartsOp`, `signIn`, `unlock`, `fullSignOut` and the `Boot` actions begin a chain; `Built`, `Opened`,
`Restored`, `Written`, `Reset`, `Committed`, `Hydrated`, `Cleared`, `SignedOut` go on; `Fails`,
`HydrateFails` and `AppDies` end it early. Adding, switching and logging out take `opRef`; boot, unlock, sign-in
and the full sign-out do not, and what protects them is what the screen offers: one user, who taps what is on
the screen in front (`InFront`, `AccountSwitcher.tsx:45-51`, `you.tsx:157-168`, `unlock.tsx:21-24`).
The properties name their provisos: `torn` (operations without `opRef` overlapped, or filling the caches
failed behind a written vault) and `strays` (what a boot's background filling brought for an account no longer
in use). Inside them the code does what the model does, among it: a sign-in on a locked device
replaces the vault of all its accounts; a full sign-out that overlaps a switch can be followed by
the switch's write of the vault; forgetting a vault during its unlock ends in a session without a vault.

`Unread` is one account and one screen. A count is kept as whether it is above zero, a mark as the
number of messages it covers. `Event` is the callback of the change stream, `markRoomRead` and
`LeaveScreen` the screen, `Loads` and `LoadDone` the load of counts and marks from the device,
`Reconciled` and `hydrateReads` the marks of other devices, `Pruned` the removal of conversations
whose spaces were left, `SeedDone` the heads of direct messages. `stale` marks a count that a load or an event
brought back for what had been read by then. The seeding of a direct message counts one's own reply made on
another device as unread, and a direct message accepted within 15 s of the last sweep is not seeded; the
first is in the model, the second is not.

`RoomsRegistry` is one space. `Begin` (by `ensure`, `refresh` or `Prefetch`), `CopyRead`, `Answered`, `ReadFails`,
`Fallback` are the stages of a read; a read belongs to the account that began it and outlives it. Two things
take a good list away in spite of the comment at `rooms-registry-context.tsx:201-203`: an index that fails to
be read inside a batch, which comes back as an empty one (`AnsweredEmpty`), and a read that outlives its
session and whose `finally` deletes the new account's read in flight. `KeepsLastGood` is claimed outside
these (`mishap`).

`Autosave` is the hook `useAutosave`: `onChangeText`, `Tick`, `Blur`, `Unmount`, all through `commit`
and `shouldCommit`. A consequence worth knowing: once a tick has committed a text, the final flush of it
is skipped, so that a caller cannot rely on a final commit of every text.

`Updater` is the desktop shell from a launch to the next. `GotManifest`, `Downloaded`, `Promoted`, `PointerWritten`
and `Announced` are the stretches of `runCheck` between the points where it may fail (`UpdateCheckFails`) or the
process end (`Stop`); `checkForUpdates` starts a check when none is in flight; a bundle is whole, in part
(without some files, with its `index.html`) or none. `taken` are the versions that a pruning has removed, wholly
or in part. Without that proviso `ServesWhole` does not hold, in two ways worth knowing. The
pruning takes the directory of the session as well, when the session runs from a download
(`updater.ts:124` keeps only the new version; the protocol handler reads its files from there), although "the running session
is never disrupted" (`updater.ts:11`). And a removal that fails midway is not harmless (`updater.ts:128`) when it
leaves the `index.html`: if that version is published again, it passes for staged (`constants.ts:73`) and is served.

`MessageView` is the log of reactions, edits and pins with the taps of `use-room.ts`, and both ways of
folding it, `toDisplayMessage` for a row and `buildMessageIndex` for a list. A tap works on what its screen has loaded, a
prefix of the log, with any clock, which stands for a slow screen, a second device and a tap whose echo
has not come back. `crossed` are the users and messages with a reaction made in ignorance of an own
one or stamped before it: then the number of additions less removals, which decides the next tap, may be other
than what the set shows, and it takes one tap more to remove a reaction or to add one. The stable sort by clock is written
with ranks: an event comes after as many of its list as are not after it. The folds are recursive functions on the positions
of the sorted list, as the loops of the code go through them.

## 8. Between accounts

`Dms` is two people. A creation lists, maps and delivers its space in the order of its channel
(`ListFirst`, `MapThen`, `DeliverLast` through a shared space; `DeliverFirst`, `ListThen`, `MapLast` through an
inbox); `reconcileDmInbox` reads the registry once and then scans the channels, skipping or accepting each invite
by `dmWinner`; `healDmMap` maps a listed space. `Stops` is any failure or death. Writes of one
registry document are retried on conflict by the library and are one step. `dm_split` shows that the
two may settle in different rooms though nothing failed, when somebody's creation overlaps his
own reconcile; `SameRoomInTurn` is what holds, with creations of both sides overlapping in any order.
After a failure between delivery and mapping they may also part; the model has it, and no property
claims the contrary.

`Desk` is one request: `submitNodeRequest` and `recordOutgoingRequest`, then the owner's devices, each with
a worker for the hand and one for the reconcile (`accept`, `decline`, `reconcileTicketRequests`,
`ConfigRead`, `NodeCreated`, `Granted`, `rejectResourceRequest`, `setRequestDeclined`), and the requester's
`claimGrantedNodes` and `claimRejectedRequests`. The owner's list is a snapshot (`listPending`, `ListApplied`).
`slips` records what takes the two promises away: works that cross (by hand and in the reconcile, or from a list
out of date) make two nodes in spite of `intake.ts:12-13`, and one that fails between node and grant leaves the
request with a node nobody was told of. A request declined before the space's mode became automatic is
accepted by the next reconcile, which does not look at the declined ones.

## 9. Runs

| Run | Instance | Shows |
|---|---|---|
| `outbox` | 2 accounts, 2 messages, 2 attempts; lost responses, deaths, switches in mid-drain | types, no orphaned `sending`, nothing dropped, right identity, sent once before the first such storm, no dropped trigger, refinement of `DurableQueue` |
| `outbox_live` | 1 attempt, with fairness | every queued message is sent |
| `outbox_wrong_identity` | switch in mid-send | violation of `FlushedAsAuthor` |
| `outbox_sent_twice` | switch in mid-drain | violation of `SentOnce` |
| `room` | 1 own and 1 foreign message, log of 3 | nothing lost behind the checkpoint, no ghosts, the poll shows everything |
| `room_missed` | the same | violation of `ShownByEvents` |
| `commands` | 2 tabs of a device, one with 2 screens, 1 command, 3 lock requests; with fairness | one leader, no screen answers twice, a hand-off loses no command |
| `commands_twice` | 2 tabs with 1 screen each | violation of `AnsweredOnce` |
| `automation` | 2 devices, 2 contents, 1 error, 2 ticks at a time, a credit of 2 mishaps; beside it 2 accounts, 2 rooms, 2 cadences, 3 operations queued | no repost while nothing is disturbed; each mishap costs one early run and one repost at most; the tasks follow the index |
| `automation_live` | the same room, 1 tick at a time, with fairness | the room catches up with a feed at rest |
| `components` | see below | the properties of sections 6 to 8 and of `Schedule` |
| `dm_split` | 2 people, 1 space each | violation of `SameRoom` |

`MCComponents` puts the components that share no state side by side. Its variable `part` says which
of them moves in a behaviour, so that the run explores the sum of their states and not the product:
each part is explored from its own initial states to the end, exactly as it would be in a run of its own. `MCAutomationTasks`
does the same with an automated room, watched, and the tasks of a device; the two devices are symmetric, and so are the two
contents, which is sound because nothing orders them and the run checks invariants only. `MCOutboxWatched`
adds a history variable to the outbox, whether a lost response or a change of account under a drain has happened.

| Part | Instance |
|---|---|
| `revocation` | 2 issuers, 2 generations |
| `events` | 1 caller, 3 spaces, cap 2; only a list of the caller's own, because a stream only asks whether there is one |
| `webhooks` | 3 webhooks, cap 2, 2 devices, 1 post |
| `directory` | 1 space, 2 names, 2 rooms |
| `session` | 2 accounts, 2 operations at a time |
| `unread` | a room and a direct message, 2 messages each |
| `dms` | 1 space of each of the two |
| `rooms` | 2 accounts, 2 versions of the list, 2 reads at a time |
| `schedule` | minutes of 2 ms, hours of 2 minutes, days of 3 hours, 2 weeks, 8 days of cron search; every daily and interval cadence, weekly ones of 3 weekdays and cron expressions with every kind of field |
| `autosave` | a blank and two other texts, with and without commits of blank ones |
| `desk` | 1 request, 1 device of the owner with its hand and its reconcile, 2 nodes |
| `updater` | 3 releases, one of them the installer's |
| `view` | 2 users with a message each, 3 events of one kind, clocks of 3 values |

Why the bounds are enough: two accounts are needed for a switch and a third one acts like the
second; a drain handles one entry at a time and the reducers map entries independently; two attempts
distinguish the first failure, the last one and one past it. A log of 3 with two messages gives a
duplicate append, a message before and after the checkpoint, and one behind it. Watchers treat
commands independently of each other, so that one command is enough; two tabs and a reference count
of two give every hand-off, and a third request leaves a dropped one in the middle of the queue. With two
contents the feed can change and come back; a third tick adds nothing that two overlapping ones do not
disturb already, and a credit of two (`MaxMishaps`) is one spent while another is left. In `automation_live` ticks follow each other, because overlaps only matter to
its property as one more disturbance.

In `components`: two issuers tell a list from another's; three spaces and a cap of two give a cut, and
likewise three webhooks; two devices give every overlap of two edits, and a third one finds only what one of the
two left. Two operations give every overlap of a guarded with an unguarded one, and a third account acts like
the second. A message read, one unread and one in between need two. Two people are all a direct message
has; a second space of one person is refused as long as one is mapped. Two reads give every race of
one that outlives its session. A worker for the hand and one for the reconcile cross in every way two
devices do. The calendar is small, but has minutes that a last run falls into the middle of, a week's
end and a cron expression that never matches. Of three releases one
is served, one staged and one published. The folds treat the kinds of events apart, so that a log has one kind. In
`automation` the second room has one account and one cadence: it is there to tell the rooms apart. The theorems hold for
every value of the constants.

Fairness. `Outbox`: the provider's effects run and the interval keeps firing (weak); the server
takes and acknowledges a message it is asked for again and again (strong: a network that refuses
every single request refutes no code). `RoomLog`: effects, events and the poll run (weak); pulls
that are repeated for ever sooner or later succeed (strong). `Commands`: the browser serves its locks,
caches catch up and ticks end (weak); nothing says that a store gets a message, since a covered
screen does not pull. `Automation`: the scheduler fires when a run is due (weak); fetches, posts and
writes that are tried again and again sooner or later succeed (strong). The components of the sum run
have no liveness property: a stream, a reconcile or a read that fails is simply tried again by a later event of
the world, and nothing in the code promises one.

## 10. Proofs

| Module | Theorem | From |
|---|---|---|
| `OutboxProofs` | `Invariant`, `TypeCorrect`, `NoOrphanedSending`, `TriggersHonoured`, `Refinement`, `SentOnceUntilStorm` | the constants' assumption only |
| `OutboxProofs` | `RightIdentity`, `NothingDropped` | no switch while a live send is awaited |
| `OutboxProofs` | `ExactlyOnce` | no lost responses, no deaths and no switches in mid-drain |
| `RoomLogProofs` | `RoomInvariant`, `RoomTypeCorrect`, `NoGhosts` | the constants' assumption only |
| `RoomLogProofs` | `NothingLostBehind` | `HistoryLive` |
| `CommandsProofs` | `CommandInvariant`, `CommandTypeCorrect`, `OneAnswerPerScreen` | the constants' assumptions only |
| `CommandsProofs` | `MutualExclusion` | and one app instance on a device without locks |
| `AutomationProofs` | `AutomationInvariant`, `AutomationTypeCorrect`, `PostedOnce`, `ToldOnce`, `AheadAtMostOncePerMishap`, `TasksFollow`, `RoomBesideTasks` | the constants' assumptions only |
| `ServerProofs` | `RevocationsStay`, `StoreUnderStreams`, `LiveEventsTypes`, `StreamsMatchMembership`, `WebhooksTypes`, `RegistryIsExact`, `RevokedAreRefused`, `DirectoryTypes`, `DirectoryIsExact` | the constants' assumptions only |
| `ClientProofs` | `AutosaveTypes`, `AutosaveCommitsOnce`, `DeskTypes`, `RequestsAreAnswered`, `OneNodeEach`, `RoomsRegistryTypes`, `LastGoodIsKept`, `SessionTypesHold`, `AccountsAreKept`, `SessionFollowsVault`, `NothingBleeds`, `OverlaysAreLifted`, `UnreadTypesHold`, `CountsSurvive`, `ReadStaysRead`, `UpdaterTypes`, `WholeIsServed`, `DmsTypes`, `SameRoomWhenInTurn` | the constants' assumptions only |
| `AlgorithmProofs` | `ScheduleTypes`, `FiresAtTheNext`, `ViewTypes`, `OneView`, `TapsToggle` | the constants' assumptions only |
| `ComponentsProofs` | `SideBySide`, `ComponentsTypes`, `ComponentsKeepPromises` | the same |

The invariant of the outbox ties the three places an entry lives: the persisted queue of the loaded
account is the store; an entry reading `sending` is the drain's current one; an idle drain holds
nothing. `SendingIsInFlight` alone is not inductive: it needs the persisted copy to equal the store
and the reset on hydrate. The identity proofs add that every entry lies in its author's queue. For `SentOnceUntilStorm`: in calm, what
is still in `sendText` has not been logged (`NotYetLogged`), what is queued and logged at once is the entry whose response
the drain awaits (`QueuedAndLogged`), and a running drain works for the account signed in (`DrainOfSession`).
`ExactlyOnce` follows, since none of its steps is a storm.

In `RoomLogProofs` the invariant says that pulls and bubbles belong to a cursor, that an answer is
never behind the checkpoint, that a message still in `sendText` is not in the outbox, and that what
was committed is logged; `NoGhost` follows. `HeldIsShown` needs more: an entry the outbox has posted
may be removed at any moment, so a message behind the checkpoint may rely on its pending bubble only
until it is posted (`PostedIsShown`).

`CInv` says that a leading tab's live request heads its device's queue, from which mutual exclusion
follows, and that what a screen has taken is remembered, older than its mount, or gone with it.
`AInv` says that in peace at most one tick is in progress and fits: the hash on record is that of the last
post unless the tick is about to write it, what a scheduled tick has read is what the registry
holds, and it is younger than the last run. `NoRepost` and `NoSpam` alone are not inductive.

`AheadAtMostOncePerMishap` holds over every overlap, loss and death, so it cannot rest on peace. `AccountInv` counts what
may still go wrong: `Covered` has a credit for each tick in progress that was overtaken, since each may set `lastRunAt` back
when it ends, and one more if the record is behind already (`meta.age > ran`) or the tick at the front has made
use of that (`ahead`). `FrontIsYoungest` says that the tick at the front started after all the others and after the
latest run, so that its record brings `lastRunAt` up to date. Ends of ticks are of one shape (`EndCovered`), whether they
record, lose the record or die. Devices are finitely many, because the overtaken are counted.

`RevocationInv` needs that what is kept for the next write is what is in force, or a write of one
issuer would lose another's list. `StreamFits` follows a caller through the checks: what it was entitled
to all the while is granted, unreadable or still to come. For the webhooks the registry's hash does the work:
an edit whose base is still the registry has seen every webhook (`EditFits`), and no webhook is
drawn on two devices; a post is late only if it will find its webhook gone (`PostFits`).
`CacheFits` says that without a mishap at most one read is under way, and that its fallback and the copy are the
last good list of its account. In `SessionInv`, `SessionBase` has one writer of the vault at a time and
`opRef` taken while a guarded operation runs; `HeldFits` has every vault about to be written hold the
accounts put into it; `SettledFits` says what the one chain at work will leave behind, which is what the
properties at rest need at each await. `NotedFits` keeps a noted conversation in memory, on the
device and in a load under way at once. `DeskInv` ties each node to its grant or to the work that is about to grant it.

`TasksInv` says that a session's synchronisation, or its promise, is the last word in the queue (`LastIsSync`), and that
what the only operation in the queue has read stands until somebody else writes (`ReadStands`); from both follows what
holds when it is done. `UpdaterInv` has what was promoted whole, and a check that points to something pointing to a bundle.

`DmsInv` holds the protocol of two people together by what each has let the other know, as long as nothing failed and no
creation overlapped with a reconcile or heal of its person: a creation under way has nothing yet but what its stage says
(`TurnCreating`), so that each creates one space at most; a space reaches the other only through the inbox (`Invited`); who
has delivered a space has a mapping, and of the two the first has his own space in it (`TurnMapped`); and the mapping a
reconcile has read is still the real one, but for what it is about to write (`TurnScanning`). When all is read, each
has decided on the other's space by the same rule, and with the same two spaces.

Where an algorithm goes through numbers one by one, induction is needed, and a theorem about all formulas is not to be
had. `Least` states it of sets: a set of numbers that is not empty has a least one, which follows from the library's
theorem about well-founded relations; `Upward` is induction up to a bound, for a set.

`FiresAtTheNext` rests on division: remainders and quotients are unique (`DividedOnce`), multiples of the divisor do
not change a remainder (`Shifted`), and two numbers with one remainder that differ by less than the divisor are the
same (`SameRemainder`). So an instant that fits and comes at most a period after the last run is the first
(`FirstOfPeriod`). A cron expression names the same instants every week (`CronEveryWeek`); what the search finds is the
least minute that matches, and it looks a week ahead at least, so that it misses nothing.

`OneView` is proved of every log, not only of those the taps produce. `Sorted` has the list by ranks hold
every event of its set once, in order: as many ranks as events, and no two alike. `FoldExists` gives each recursive
function its values and `LastChange` says what they come to: where only the items of some set change a value, it is in
the end what the last of them has made of it. Row by row and from the index this is the latest event (`LatestDecides`), whichever
list it was sorted into. For `TapsToggle` the invariant is `Tapped`: for whoever has not crossed, one's own additions are
one more than one's removals if the latest is an addition, and as many if not.

`SideBySide` shows that the composition which `components` explores implements the specification of each of its modules:
in each step one of them moves and the variables of the others stand still. So what a theorem says of a component alone holds
of the whole, all of it at once in `ComponentsKeepPromises`; and what the run explores are behaviours of each module.
`StoreUnderStreams` says the same of the revocation store below the streams, `RoomBesideTasks` of the two parts of `automation`.

Every invariant that a passing run checks but one is stated by a theorem, and every action property and the refinement as
well. Only model-checked: `RepostOncePerMishap`, and the liveness properties, which need fairness and `ENABLED`. Only
proved: `NoSpam`, that a scheduled tick does not repeat the notice of the failure on record (`ToldOnce`). That the two statements of the
outbox, the one of `commands_twice`, of `room_missed` and of `dm_split` do not hold is shown by TLC's counterexamples.

## 11. Not modelled

Cryptography, capabilities and the sync protocol are the external library's. Rendering, push
notifications, the on-device engine and the app lock are calls to platforms around no shared state
of their own. Two browser tabs that share one localStorage each run an outbox of their own; the
model has one instance. A corrupt persisted blob (read as empty) is not an action.
Of the automations, the scheduler's own retries, the wake of the operating system, the providers, and the
minting of a room's credentials are left out; an automation that
runs on every open is one with `Every = 0`. A hash collision would pass for a repetition.

Of the server: the sync router, rate limits, push dispatch, nonces and the queue's reconnection. Of the session: names, PINs,
passkeys and certificates. Of the counts: more than one screen, the preferences of a room, device
notifications. Of the direct messages: keyrings, rosters, and that a scan of the inbox covers the shards
of two months only. Of the desk: ticket bodies and replies. The spaces rail and the node-access cache
are not modelled; their answers may outlive a session like those of `RoomsRegistry`. Of the messages: grouping, threads,
mentions and the merging in of unsent ones. Of the desktop shell: windows, tray, badges. Pairing is a short protocol of a library.
