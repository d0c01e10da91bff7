------------------------------- MODULE Tasks -------------------------------
(***************************************************************************)
(* The background tasks of a device's automations                          *)
(* (apps/mobile/src/lib/automations/conductor-init.ts,                     *)
(* use-automation-background.ts): one task of the operating system for     *)
(* each automated room that this device runs for the account in use.       *)
(* Synchronising with the index of rooms and cancelling everything are     *)
(* operations of many awaits, put into one queue.                          *)
(*                                                                         *)
(* A room's automation in the index is the account that this device runs   *)
(* it for, if it runs it, and the cadence.  Triggers, policies and the     *)
(* waking of the application are left out.                                 *)
(***************************************************************************)
EXTENDS Sequences, Naturals, FiniteSets

CONSTANTS
    Members,      \* the accounts of the device
    Nobody,       \* no account, or not this device
    AutoRooms,
    TaskCadences,
    Unparsable,   \* cadences that the scheduler refuses
    NoTask,
    MaxOps        \* bound on the operations in the queue

ASSUME TasksConstantsOK ==
    Nobody \notin Members /\ NoTask \notin TaskCadences /\ Unparsable \subseteq TaskCadences /\ MaxOps \in Nat

VARIABLES
    account,    \* the account in use
    deferred,   \* the account of the synchronisation that waits for the first frame
    saving,     \* the account of an edit that is written and not yet synchronised
    ops,        \* opQueue: the operation at its head is in progress
    desired,    \* what the synchronisation in progress has read, while it schedules
    roomIndex,
    tasks,
    unseen,     \* history: rooms changed since the last reading by other hands
    inDoubt     \* history: see Tears

bvars == <<account, deferred, saving, ops, desired, roomIndex, tasks, unseen, inDoubt>>

Elections == [runner : Members \cup {Nobody}, cadence : TaskCadences]
Tasked == [AutoRooms -> TaskCadences \cup {NoTask}]
NotRead == [r \in {} |-> NoTask]

Cancelling == [op |-> "cancel", of |-> Nobody]
Syncing(u) == [op |-> "sync", of |-> u]

TasksInit ==
    /\ account = Nobody /\ deferred = Nobody /\ saving = Nobody
    /\ ops = <<>>
    /\ desired = NotRead
    /\ roomIndex \in [AutoRooms -> Elections]
    /\ tasks = [r \in AutoRooms |-> NoTask]
    /\ unseen = {}
    /\ inDoubt = FALSE

(* What the tasks of account u should be. *)
TasksOf(u) == [r \in AutoRooms |-> IF u # Nobody /\ roomIndex[r].runner = u THEN roomIndex[r].cadence ELSE NoTask]

(* A faulty form: the newest operation comes next. *)
NextInQueue(q, op) == IF q = <<>> THEN <<op>> ELSE <<Head(q), op>> \o Tail(q)

serialize(q, op) == Append(q, op)

----------------------------------------------------------------------------
(* The hook, and the screens that edit automations. *)

(* The effect of a session is cleaned up, and that of the next one runs. *)
EffectRuns(u) ==
    /\ u # Nobody \/ account # Nobody
    /\ Len(ops) < MaxOps
    /\ account' = u
    /\ deferred' = u
    /\ ops' = IF account = Nobody THEN ops ELSE serialize(ops, Cancelling)
    /\ UNCHANGED <<saving, desired, roomIndex, tasks, unseen, inDoubt>>

AfterFirstFrame ==
    /\ deferred # Nobody
    /\ Len(ops) < MaxOps
    /\ ops' = serialize(ops, Syncing(deferred))
    /\ deferred' = Nobody
    /\ UNCHANGED <<account, saving, desired, roomIndex, tasks, unseen, inDoubt>>

(* Creating, editing, taking over and deleting: the index is written, and then
   the tasks are synchronised with the session of the screen. *)
SheetWrites(r, e) ==
    /\ account # Nobody /\ saving = Nobody
    /\ e.runner \in {account, Nobody}
    /\ roomIndex' = [roomIndex EXCEPT ![r] = e]
    /\ saving' = account
    /\ UNCHANGED <<account, deferred, ops, desired, tasks, unseen, inDoubt>>

SheetSyncs ==
    /\ saving # Nobody
    /\ Len(ops) < MaxOps
    /\ ops' = serialize(ops, Syncing(saving))
    /\ saving' = Nobody
    /\ UNCHANGED <<account, deferred, desired, roomIndex, tasks, unseen, inDoubt>>

(* The renaming or the refresh after the write fails: nothing is synchronised. *)
SheetFails ==
    /\ saving # Nobody
    /\ saving' = Nobody
    /\ unseen' = AutoRooms
    /\ UNCHANGED <<account, deferred, ops, desired, roomIndex, tasks, inDoubt>>

(* Another device edits; nobody tells this one. *)
EditedElsewhere(r, e) ==
    /\ roomIndex' = [roomIndex EXCEPT ![r] = e]
    /\ unseen' = unseen \cup {r}
    /\ UNCHANGED <<account, deferred, saving, ops, desired, tasks, inDoubt>>

(* The tasks are the operating system's, and stay. *)
AppKilled ==
    /\ account' = Nobody /\ deferred' = Nobody /\ saving' = Nobody
    /\ ops' = <<>>
    /\ desired' = NotRead
    /\ inDoubt' = TRUE
    /\ UNCHANGED <<roomIndex, tasks, unseen>>

----------------------------------------------------------------------------
(* The operation at the head of the queue. *)

InProgress(op) == ops # <<>> /\ Head(ops).op = op

(* An operation leaves the tasks in doubt if it fails, or if it has synchronised them
   for an account that is no longer in use; the next one that is completed settles
   them. *)
Tears(failed) == failed \/ (Head(ops).op = "sync" /\ Head(ops).of # account)

OperationEnds(failed) ==
    /\ ops' = Tail(ops)
    /\ desired' = NotRead
    /\ inDoubt' = Tears(failed)

(* The indexes of all spaces are read in a batch. Rooms of a space that cannot
   be read count as gone. *)
SpacesRead ==
    /\ InProgress("sync") /\ desired = NotRead
    /\ \E unread \in SUBSET AutoRooms :
          /\ desired' = [r \in AutoRooms |-> IF r \in unread THEN NoTask ELSE TasksOf(Head(ops).of)[r]]
          /\ unseen' = IF unread = {} THEN {} ELSE AutoRooms
    /\ UNCHANGED <<account, deferred, saving, ops, roomIndex, tasks, inDoubt>>

(* The server is busy: the tasks stay as they are. *)
SpacesReadFails ==
    /\ InProgress("sync") /\ desired = NotRead
    /\ OperationEnds(TRUE)
    /\ UNCHANGED <<account, deferred, saving, roomIndex, tasks, unseen>>

Cancelled(r) ==
    /\ tasks[r] # NoTask
    /\ InProgress("cancel") \/ (InProgress("sync") /\ desired # NotRead /\ desired[r] = NoTask)
    /\ tasks' = [tasks EXCEPT ![r] = NoTask]
    /\ UNCHANGED <<account, deferred, saving, ops, desired, roomIndex, unseen, inDoubt>>

AllCancelled == \A r \in AutoRooms : tasks[r] # NoTask => desired # NotRead /\ desired[r] # NoTask

(* The scheduler refuses a cadence it cannot parse, and the others go on. *)
Scheduled(r) ==
    /\ InProgress("sync") /\ desired # NotRead /\ AllCancelled
    /\ desired[r] \notin {NoTask, tasks[r]} \cup Unparsable
    /\ tasks' = [tasks EXCEPT ![r] = desired[r]]
    /\ UNCHANGED <<account, deferred, saving, ops, desired, roomIndex, unseen, inDoubt>>

(* A call of the operating system fails: the rest is not done. *)
OperationFails ==
    /\ InProgress("cancel") \/ (InProgress("sync") /\ desired # NotRead)
    /\ OperationEnds(TRUE)
    /\ UNCHANGED <<account, deferred, saving, roomIndex, tasks, unseen>>

OperationDone ==
    /\ \/ InProgress("cancel") /\ \A r \in AutoRooms : tasks[r] = NoTask
       \/ /\ InProgress("sync") /\ desired # NotRead /\ AllCancelled
          /\ \A r \in AutoRooms : desired[r] \in {NoTask, tasks[r]} \cup Unparsable
    /\ OperationEnds(FALSE)
    /\ UNCHANGED <<account, deferred, saving, roomIndex, tasks, unseen>>

TasksNext ==
    \/ \E u \in Members \cup {Nobody} : EffectRuns(u)
    \/ AfterFirstFrame \/ SheetSyncs \/ SheetFails \/ AppKilled
    \/ \E r \in AutoRooms : Cancelled(r) \/ Scheduled(r)
    \/ \E r \in AutoRooms, e \in Elections : SheetWrites(r, e) \/ EditedElsewhere(r, e)
    \/ SpacesRead \/ SpacesReadFails \/ OperationFails \/ OperationDone

TasksSpec == TasksInit /\ [][TasksNext]_bvars

----------------------------------------------------------------------------

TasksTypeOK ==
    /\ {account, deferred, saving} \subseteq Members \cup {Nobody}
    /\ ops \in Seq([op : {"sync", "cancel"}, of : Members \cup {Nobody}])
    /\ desired \in Tasked \cup {NotRead}
    /\ roomIndex \in [AutoRooms -> Elections]
    /\ tasks \in Tasked
    /\ unseen \subseteq AutoRooms
    /\ inDoubt \in BOOLEAN

(* "Without this, a slow cancel could run after the new sync and drop its
   freshly-scheduled tasks" (conductor-init.ts:183): however sessions change and
   edits are saved, once the queue is empty a device without an account has no tasks,
   and one with an account has exactly those of the rooms that it runs for it, each
   with its cadence.  Excepted are rooms changed by other hands or not read, cadences
   that are refused, and what a failure, a death or a save for a former account has
   left until the next operation. *)
TasksFollowRegistry ==
    ops = <<>> /\ deferred = Nobody /\ saving = Nobody /\ ~inDoubt =>
        /\ account = Nobody => \A r \in AutoRooms : tasks[r] = NoTask
        /\ \A r \in AutoRooms \ unseen :
              tasks[r] = TasksOf(account)[r] \/ TasksOf(account)[r] \in Unparsable
=============================================================================
