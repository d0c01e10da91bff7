------------------------------ MODULE Commands ------------------------------
(***************************************************************************)
(* Slash commands of one automated room, answered by a bot that runs in    *)
(* the app: the election of one app instance per device with a Web Lock    *)
(* (apps/mobile/src/lib/automations/leader.ts) and the watcher that every  *)
(* room screen mounts (use-automation-commands.ts).                        *)
(*                                                                         *)
(* A tab is an instance of the app; the tabs of one device share its       *)
(* identity and its locks.  A room screen that is navigated away from      *)
(* stays mounted below the next one, so a tab holds a stack of screens of  *)
(* the room, each with a store and a watcher of its own.  Commands are     *)
(* numbered in the order of their timestamps, and reach a store in any     *)
(* order, as the outbox may deliver them late.                             *)
(***************************************************************************)
EXTENDS Naturals, Sequences

CONSTANTS
    Tabs,         \* the instances of the app
    Devices,      \* the devices of the account
    Device,       \* the device of each tab
    HasLocks,     \* the devices with the Web Locks API
    Nobody,       \* stands for the runner of an automation that is disabled
    MaxDepth,     \* bound on the screens of the room in each tab
    MaxCommands,  \* bound on the commands
    MaxRequests   \* bound on the requests that wait for a lock

ASSUME CommandConstantsOK ==
    /\ Device \in [Tabs -> Devices]
    /\ HasLocks \subseteq Devices
    /\ Nobody \notin Devices
    /\ MaxDepth \in [Tabs -> Nat]
    /\ MaxCommands \in Nat
    /\ MaxRequests \in Nat

(* "Platforms without the Web Locks API have a single app instance" (leader.ts:18). *)
ASSUME SingleInstance ==
    \A t, u \in Tabs : Device[t] = Device[u] /\ Device[t] \notin HasLocks => t = u

VARIABLES
    authored,   \* how many commands were written
    elected,    \* the registry: the device that runs the automation
    queue,      \* per device, the requests for the room's lock, holder first
    leader,     \* the tabs whose lock entry reads leader
    depth,      \* per tab, how many screens of the room are mounted
    known,      \* per tab, the runner according to its cached registry
    since,      \* per screen, the commands that are older than its mount
    store,      \* per screen, the commands it shows
    processed,  \* per screen, the commands its watcher has taken
    ticks,      \* the command ticks in progress, and whose they are
    replies,    \* history: how often each screen has answered each command
    handled     \* history: the commands for which a tick has come to an end

cvars == <<authored, elected, queue, leader, depth, known,
           since, store, processed, ticks, replies, handled>>

Commands == 1..MaxCommands

ScreensOf(t) == {t} \X (1..MaxDepth[t])

Screens == UNION {ScreensOf(t) : t \in Tabs}

Mounted(s) == s[2] <= depth[s[1]]

Runners == Devices \cup {Nobody}

Request == [tab : Tabs, live : BOOLEAN]

screenVars == <<since, store>>
lockVars == <<queue, leader>>
historyVars == <<replies, handled>>

----------------------------------------------------------------------------

Init ==
    /\ authored = 0
    /\ elected \in Devices
    /\ queue = [d \in Devices |-> <<>>]
    /\ leader = {}
    /\ depth = [t \in Tabs |-> 0]
    /\ known = [t \in Tabs |-> elected]
    /\ since = [s \in Screens |-> 0]
    /\ store = [s \in Screens |-> {}]
    /\ processed = [s \in Screens |-> {}]
    /\ ticks = {}
    /\ replies = [s \in Screens |-> [c \in Commands |-> 0]]
    /\ handled = {}

(* A watcher acts in the instance that leads, on the device that is elected. *)
Active(s, leading, knowing) ==
    /\ Mounted(s)
    /\ s[1] \in leading
    /\ knowing[s[1]] = Device[s[1]]

(* A faulty form: the commands taken are not remembered. *)
ForgetsProcessed(s, leading, knowing, shown) ==
    {c \in shown[s] : c > since[s] /\ Active(s, leading, knowing)}

(* What it has not taken yet of what its store shows, its mount's past aside. *)
Fresh(s, leading, knowing, shown) ==
    {c \in shown[s] \ processed[s] : c > since[s] /\ Active(s, leading, knowing)}

(* The watchers run whenever leadership, the cached room or a store changes,
   and start a tick for every command they take. *)
Dispatch(leading, knowing, shown) ==
    /\ processed' = [s \in Screens |-> processed[s] \cup Fresh(s, leading, knowing, shown)]
    /\ ticks' = ticks \cup
                {sc \in Screens \X Commands : sc[2] \in Fresh(sc[1], leading, knowing, shown)}

----------------------------------------------------------------------------
(* The leader lock. *)

(* The first screen of a tab asks for the lock; others join its entry. *)
Acquire(t) ==
    IF depth[t] > 0 THEN UNCHANGED lockVars
    ELSE IF Device[t] \notin HasLocks
         THEN leader' = leader \cup {t} /\ UNCHANGED queue
         ELSE /\ Len(queue[Device[t]]) < MaxRequests
              /\ queue' = [queue EXCEPT ![Device[t]] = Append(@, [tab |-> t, live |-> TRUE])]
              /\ UNCHANGED leader

(* The promise that holds the lock resolves: once the request has its turn,
   or if it has it already, the browser frees the lock. *)
Abandoned(q, t) ==
    [k \in DOMAIN q |-> IF q[k].tab = t THEN [tab |-> t, live |-> FALSE] ELSE q[k]]

DropEntry(t) ==
    /\ leader' = leader \ {t}
    /\ queue' = [queue EXCEPT ![Device[t]] = Abandoned(@, t)]

(* Two faulty forms: no screen is counted, so the first that leaves releases the
   lock under the others; and the request of an entry dropped before its turn
   is never resolved. *)
UncountedRelease(t) ==
    /\ leader' = IF depth[t] > 1 THEN leader ELSE leader \ {t}
    /\ queue' = [queue EXCEPT ![Device[t]] = Abandoned(@, t)]
OnlyHeldReleased(t) ==
    IF depth[t] > 1 THEN UNCHANGED lockVars
    ELSE /\ leader' = leader \ {t}
         /\ queue' = [queue EXCEPT ![Device[t]] = IF t \in leader THEN Abandoned(@, t) ELSE @]

(* The last screen of a tab that leaves drops the entry. *)
Release(t) == IF depth[t] > 1 THEN UNCHANGED lockVars ELSE DropEntry(t)

(* The browser runs the callback of the first request. *)
Grant(d) ==
    /\ queue[d] # <<>>
    /\ Head(queue[d]).live
    /\ Head(queue[d]).tab \notin leader
    /\ LET leading == leader \cup {Head(queue[d]).tab}
       IN leader' = leading /\ Dispatch(leading, known, store)
    /\ UNCHANGED <<authored, elected, queue, depth, known, screenVars, historyVars>>

(* The callback of a dropped entry returns at once. *)
Free(d) ==
    /\ queue[d] # <<>>
    /\ ~Head(queue[d]).live
    /\ queue' = [queue EXCEPT ![d] = Tail(@)]
    /\ UNCHANGED <<authored, elected, leader, depth, known, screenVars, processed, ticks, historyVars>>

----------------------------------------------------------------------------
(* Screens. *)

(* A faulty form: the first command after the mount counts as older, too. *)
BaselinePast(s) == since' = [since EXCEPT ![s] = authored + 1]

(* Only what is written after the mount is a command. *)
Baseline(s) == since' = [since EXCEPT ![s] = authored]

(* What a screen holds goes with it. *)
Unmount(on) ==
    /\ since' = [s \in Screens |-> IF s \in on THEN 0 ELSE since[s]]
    /\ store' = [s \in Screens |-> IF s \in on THEN {} ELSE store[s]]
    /\ processed' = [s \in Screens |-> IF s \in on THEN {} ELSE processed[s]]

(* The room is pushed on a tab's stack. *)
OpenRoom(t) ==
    /\ depth[t] < MaxDepth[t]
    /\ depth' = [depth EXCEPT ![t] = @ + 1]
    /\ Acquire(t)
    /\ Baseline(<<t, depth[t] + 1>>)
    /\ UNCHANGED <<authored, elected, known, store, processed, ticks, historyVars>>

(* The topmost screen of the room unmounts; the ticks it started go on. *)
LeaveRoom(t) ==
    /\ depth[t] > 0
    /\ depth' = [depth EXCEPT ![t] = @ - 1]
    /\ Release(t)
    /\ Unmount({<<t, depth[t]>>})
    /\ UNCHANGED <<authored, elected, known, ticks, historyVars>>

(* The tab is closed, or dies: its lock is freed and its ticks are lost. *)
CloseTab(t) ==
    /\ depth[t] > 0 \/ \E tick \in ticks : tick[1][1] = t
    /\ depth' = [depth EXCEPT ![t] = 0]
    /\ DropEntry(t)
    /\ Unmount(ScreensOf(t))
    /\ ticks' = {tick \in ticks : tick[1][1] # t}
    /\ UNCHANGED <<authored, elected, known, historyVars>>

(* Somebody writes a command. *)
Author ==
    /\ authored < MaxCommands
    /\ authored' = authored + 1
    /\ UNCHANGED <<elected, lockVars, depth, known, screenVars, processed, ticks, historyVars>>

(* A screen's store gets it: its own echo, or a pull. *)
Receive(s, c) ==
    /\ Mounted(s)
    /\ c <= authored
    /\ c \notin store[s]
    /\ LET shown == [store EXCEPT ![s] = @ \cup {c}]
       IN store' = shown /\ Dispatch(leader, known, shown)
    /\ UNCHANGED <<authored, elected, lockVars, depth, known, since, historyVars>>

----------------------------------------------------------------------------
(* The registry. *)

(* The settings sheet of some device: take over, disable, enable. *)
Elect(d) ==
    /\ d # elected
    /\ elected' = d
    /\ UNCHANGED <<authored, lockVars, depth, known, screenVars, processed, ticks, historyVars>>

(* A tab's cached registry catches up. *)
Refresh(t) ==
    /\ known[t] # elected
    /\ LET knowing == [known EXCEPT ![t] = elected]
       IN known' = knowing /\ Dispatch(leader, knowing, store)
    /\ UNCHANGED <<authored, elected, lockVars, depth, screenVars, historyVars>>

----------------------------------------------------------------------------
(* Ticks. *)

(* The provider's reply is appended to the room, under the bot's name. *)
Reply(s, c) ==
    /\ <<s, c>> \in ticks
    /\ ticks' = ticks \ {<<s, c>>}
    /\ replies' = [replies EXCEPT ![s][c] = @ + 1]
    /\ handled' = handled \cup {c}
    /\ UNCHANGED <<authored, elected, lockVars, depth, known, screenVars, processed>>

(* The provider, or the append, fails: the error is logged, nothing retries. *)
TickFails(s, c) ==
    /\ <<s, c>> \in ticks
    /\ ticks' = ticks \ {<<s, c>>}
    /\ handled' = handled \cup {c}
    /\ UNCHANGED <<authored, elected, lockVars, depth, known, screenVars, processed, replies>>

Next ==
    \/ \E d \in Devices : Grant(d) \/ Free(d)
    \/ \E t \in Tabs : OpenRoom(t) \/ LeaveRoom(t) \/ CloseTab(t) \/ Refresh(t)
    \/ Author
    \/ \E d \in Runners : Elect(d)
    \/ \E s \in Screens, c \in Commands : Receive(s, c) \/ Reply(s, c) \/ TickFails(s, c)

Spec == Init /\ [][Next]_cvars

(* The browser serves its lock, caches catch up, and ticks come to an end.
   Nothing says that a store gets a message: a screen below another one does
   not pull. *)
Fairness ==
    /\ \A d \in Devices : WF_cvars(Grant(d)) /\ WF_cvars(Free(d))
    /\ \A t \in Tabs : WF_cvars(Refresh(t))
    /\ \A s \in Screens, c \in Commands : WF_cvars(Reply(s, c) \/ TickFails(s, c))

FairSpec == Spec /\ Fairness

----------------------------------------------------------------------------

TypeOK ==
    /\ authored \in 0..MaxCommands
    /\ elected \in Runners
    /\ queue \in [Devices -> Seq(Request)]
    /\ leader \subseteq Tabs
    /\ depth \in [Tabs -> Nat] /\ \A t \in Tabs : depth[t] <= MaxDepth[t]
    /\ known \in [Tabs -> Runners]
    /\ since \in [Screens -> 0..authored]
    /\ store \in [Screens -> SUBSET (1..authored)]
    /\ processed \in [Screens -> SUBSET Commands]
    /\ ticks \subseteq Screens \X Commands
    /\ replies \in [Screens -> [Commands -> Nat]]
    /\ handled \subseteq Commands

(* "Only the lock holder is the leader that ticks / replies" (leader.ts:12): of
   the tabs of a device that show the room, one leads at most. *)
OneLeader ==
    \A t, u \in leader : Device[t] = Device[u] => t = u

(* "A per-room processedIds set guards re-fires" (use-automation-commands.ts:9):
   a screen never answers one command twice, whatever is repainted, refreshed,
   handed over and back, or mounted again meanwhile. *)
OncePerScreen ==
    \A s \in Screens, c \in Commands : replies[s][c] <= 1

(* "Leadership hands off to a waiting tab" (leader.ts:14): a command that a
   screen of the elected device shows, and that was written after its mount, is
   taken care of in the end once the other tabs of the device have left the
   room, whoever led and however they went. *)
Waits(s, c) ==
    /\ Mounted(s)
    /\ c \in store[s] /\ since[s] < c
    /\ elected = Device[s[1]]
    /\ \A t \in Tabs : Device[t] = Device[s[1]] /\ depth[t] > 0 => t = s[1]

HandOffLosesNothing ==
    \A s \in Screens, c \in Commands : <>[]Waits(s, c) => <>(c \in handled)

(* Two instances of the app would have "slash commands answered twice", which
   the lock is there to fix (leader.ts:8): the screens of one device answer a
   command once. *)
AnsweredOnce ==
    \A s, z \in Screens : \A c \in Commands :
        /\ Device[s[1]] = Device[z[1]]
        /\ replies[s][c] > 0
        /\ replies[z][c] > 0
        => s = z
=============================================================================
