--------------------------- MODULE RoomsRegistry ---------------------------
(***************************************************************************)
(* The shared cache of a space's rooms                                     *)
(* (apps/mobile/src/lib/rooms-registry-context.tsx): one entry in memory,  *)
(* one read in flight at a time, a copy on disk for each account, and two  *)
(* ways of reading, alone and in the batch of all spaces                   *)
(* (packages/sdk/src/starfish/batch-space.ts).                             *)
(*                                                                         *)
(* One space, of which every account is a member.  Its list of rooms is a  *)
(* version, 0 the empty list.  The provider outlives sessions; a read goes *)
(* on when the account changes under it.                                   *)
(***************************************************************************)
EXTENDS Naturals

CONSTANTS
    Users,       \* accounts
    NoUser,
    NoCopy,      \* nothing on disk
    NoRead,
    MaxReads,    \* bound on the reads going on at a time
    MaxVersion   \* bound on the versions of the list

ASSUME RoomsRegistryConstantsOK ==
    /\ NoUser \notin Users
    /\ NoRead \notin 1..MaxReads /\ NoCopy \notin 0..MaxVersion
    /\ MaxVersion \in Nat \ {0} /\ MaxReads \in Nat

VARIABLES
    user,        \* whose session it is
    version,     \* of the list on the server
    shown,       \* the entry in memory
    inflight,    \* the read that callers share
    reads,       \* the reads going on
    copies,      \* the copy of each account
    best,        \* history: what the last good read of each account found
    mishap       \* history: a read failed in part or in the batch; a read outlived its session

gvars == <<user, version, shown, inflight, reads, copies, best, mishap>>

Versions == 0..MaxVersion
Shown == [rooms : Versions, loaded : BOOLEAN, loading : BOOLEAN]
PENDING == [rooms |-> 0, loaded |-> FALSE, loading |-> TRUE]
Loaded(r) == [rooms |-> r, loaded |-> TRUE, loading |-> FALSE]

Reads == [pc : {"off", "disk", "net"}, batch : BOOLEAN, uid : Users \cup {NoUser}, prev : Shown,
          copy : Versions \cup {NoCopy}]
NotReading == [pc |-> "off", batch |-> FALSE, uid |-> NoUser, prev |-> PENDING, copy |-> NoCopy]

RoomsRegistryInit ==
    /\ user = NoUser
    /\ version = 1
    /\ shown = PENDING
    /\ inflight = NoRead
    /\ reads = [i \in 1..MaxReads |-> NotReading]
    /\ copies = [u \in Users |-> NoCopy]
    /\ best = [u \in Users |-> 0]
    /\ mishap = {}

Reading(i) == reads[i].pc # "off"

(* The provider starts over without a session; the copies stay. *)
AppRestarts ==
    /\ user' = NoUser
    /\ shown' = PENDING /\ inflight' = NoRead
    /\ reads' = [i \in 1..MaxReads |-> NotReading]
    /\ UNCHANGED <<version, copies, best, mishap>>

Forgotten == PENDING

(* Another session, or none: the entry is dropped and the shared read forgotten. *)
SessionChanges(u) ==
    /\ u # user
    /\ user' = u
    /\ shown' = Forgotten /\ inflight' = NoRead
    /\ mishap' = IF \E i \in 1..MaxReads : Reading(i) THEN mishap \cup {"outlived"} ELSE mishap
    /\ UNCHANGED <<version, reads, copies, best>>

RoomsChange ==
    /\ version < MaxVersion
    /\ version' = version + 1
    /\ UNCHANGED <<user, shown, inflight, reads, copies, best, mishap>>

(* runFetch and the batch, over the entry `prev': the copy on disk is looked at
   first, unless the batch reads, there is a list in memory, or there is nobody. *)
Begin(i, prev, batch) ==
    /\ ~Reading(i)
    /\ shown' = [prev EXCEPT !.loading = TRUE]
    /\ inflight' = i
    /\ reads' = [reads EXCEPT ![i] =
           [pc |-> IF batch \/ prev.loaded \/ user = NoUser THEN "net" ELSE "disk",
            batch |-> batch, uid |-> user, prev |-> prev, copy |-> NoCopy]]
    /\ UNCHANGED <<user, version, copies, best, mishap>>

ensure(i) == ~shown.loaded /\ inflight = NoRead /\ Begin(i, shown, FALSE)

(* After the cooldown: the entry is dropped and read anew, or the read that is going on shared. *)
refresh(i) == inflight = NoRead /\ Begin(i, PENDING, FALSE)

refreshShared ==
    /\ inflight # NoRead
    /\ shown' = PENDING
    /\ UNCHANGED <<user, version, inflight, reads, copies, best, mishap>>

(* The list of spaces changed: what is not loaded and not being read is read at once. *)
Prefetch(i) ==
    /\ user # NoUser
    /\ ~shown.loaded /\ inflight = NoRead
    /\ Begin(i, shown, TRUE)

(* The copy is painted until the answer comes. *)
CopyRead(i) ==
    /\ reads[i].pc = "disk"
    /\ reads' = [reads EXCEPT ![i].pc = "net", ![i].copy = copies[reads[i].uid]]
    /\ shown' = IF copies[reads[i].uid] # NoCopy /\ ~shown.loaded
                THEN [Loaded(copies[reads[i].uid]) EXCEPT !.loading = TRUE] ELSE shown
    /\ UNCHANGED <<user, version, inflight, copies, best, mishap>>

(* The read is over: its answer is shown whoever is here, and it is no longer shared. *)
ReadOver(i) ==
    /\ reads' = [reads EXCEPT ![i] = NotReading]
    /\ inflight' = NoRead

Persisted(i, r) == copies' = IF reads[i].uid = NoUser THEN copies ELSE [copies EXCEPT ![reads[i].uid] = r]

Answered(i) ==
    /\ reads[i].pc = "net"
    /\ user # NoUser
    /\ shown' = Loaded(version)
    /\ Persisted(i, version)
    /\ best' = IF reads[i].uid = NoUser THEN best ELSE [best EXCEPT ![reads[i].uid] = version]
    /\ ReadOver(i)
    /\ UNCHANGED <<user, version, mishap>>

(* Nobody is signed in (any more) when the read would go out, or be finished. *)
AnsweredToNobody(i) ==
    /\ reads[i].pc = "net"
    /\ user = NoUser
    /\ shown' = [PENDING EXCEPT !.loading = FALSE]
    /\ ReadOver(i)
    /\ UNCHANGED <<user, version, copies, best, mishap>>

(* The access record is read and the index is not, or the batch leaves the space out
   because its own read failed: an empty list, loaded, and kept. *)
AnsweredEmpty(i) ==
    /\ reads[i].pc = "net"
    /\ user # NoUser
    /\ shown' = Loaded(0)
    /\ Persisted(i, 0)
    /\ mishap' = mishap \cup {"empty"}
    /\ ReadOver(i)
    /\ UNCHANGED <<user, version, best>>

(* A faulty form: nothing is fallen back on. *)
NoFallback(r) == Loaded(0)

(* The list of before, else the copy on disk, else an empty one. *)
Fallback(r) ==
    IF r.prev.loaded THEN [r.prev EXCEPT !.loading = FALSE]
    ELSE IF r.copy # NoCopy THEN Loaded(r.copy) ELSE Loaded(0)

ReadFails(i) ==
    /\ reads[i].pc = "net" /\ ~reads[i].batch
    /\ shown' = Fallback(reads[i])
    /\ ReadOver(i)
    /\ UNCHANGED <<user, version, copies, best, mishap>>

(* The whole batch is turned down (429): the entry is left as it is. *)
BatchRejected(i) ==
    /\ reads[i].pc = "net" /\ reads[i].batch
    /\ ReadOver(i)
    /\ UNCHANGED <<user, version, shown, copies, best, mishap>>

RoomsRegistryNext ==
    \/ AppRestarts
    \/ \E u \in Users \cup {NoUser} : SessionChanges(u)
    \/ RoomsChange \/ refreshShared
    \/ \E i \in 1..MaxReads : \/ ensure(i) \/ refresh(i) \/ Prefetch(i) \/ CopyRead(i)
                              \/ Answered(i) \/ AnsweredToNobody(i) \/ AnsweredEmpty(i)
                              \/ ReadFails(i) \/ BatchRejected(i)

RoomsRegistrySpec == RoomsRegistryInit /\ [][RoomsRegistryNext]_gvars

----------------------------------------------------------------------------

RoomsRegistryTypeOK ==
    /\ user \in Users \cup {NoUser}
    /\ version \in Versions
    /\ shown \in Shown
    /\ inflight \in 1..MaxReads \cup {NoRead}
    /\ reads \in [1..MaxReads -> Reads]
    /\ copies \in [Users -> Versions \cup {NoCopy}]
    /\ best \in [Users -> Versions]
    /\ mishap \subseteq {"outlived", "empty"}

(* The list shown as loaded is what the last good read of the account found. *)
ShowsBest == user # NoUser /\ shown.loaded => shown.rooms = best[user]

(* "A FAILED read ... never wipes a known-good list: it keeps the in-memory entry,
   else the persisted cache" (rooms-registry-context.tsx:201-203): over restarts, changes
   of account, shared, dropped and failing reads, the list shown is the last good one of
   its account, unless the index failed to be read or was left out of the batch, which
   the code takes for an empty index, or a read outlived its session. *)
KeepsLastGood == mishap = {} => ShowsBest
=============================================================================
