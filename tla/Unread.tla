------------------------------- MODULE Unread -------------------------------
(***************************************************************************)
(* Unread counts and read marks of one account                             *)
(* (apps/mobile/src/lib/unread-context.tsx, with messaging/reads.ts,       *)
(* messaging/dm-unread.ts and messaging/dm-activity.ts of the SDK).        *)
(*                                                                         *)
(* A count is kept as whether it is above zero, and a mark or a head as    *)
(* the number of the conversation's messages that it covers.  The marks    *)
(* are one max-merged map in memory and on the device, and one in the      *)
(* account's document, which other devices write too.                      *)
(***************************************************************************)
EXTENDS Naturals, FiniteSets

CONSTANTS
    Convs,
    DMs,          \* the conversations that are direct messages
    NoConv,
    MaxMessages   \* bound on the messages of all conversations

ASSUME UnreadConstantsOK ==
    IsFiniteSet(Convs) /\ DMs \subseteq Convs /\ NoConv \notin Convs /\ MaxMessages \in Nat

VARIABLES
    signedIn,
    counts,      \* mapRef: the conversations with a count
    saved,       \* the counts on the device
    marks,       \* the read marks of this device
    synced,      \* those of the account's document
    mirror,      \* lastReadRef
    loading,     \* the load in progress, and what it has read
    live,        \* subscribed to events and to marks
    hydrated,
    warming,     \* the document's marks are still to come
    seeding,     \* the heads of the direct messages are being refreshed
    viewing,     \* the conversation on the screen
    joined,      \* the conversations of the account's spaces
    head,        \* the messages of each conversation
    theirs,      \* the last of them that is somebody else's
    coming,      \* events on their way, of somebody else's messages
    noted,       \* history: conversations counted and not read since, anywhere
    stale        \* history: see LoadDone and Event

marksvars == <<marks, synced, mirror>>
worldvars == <<joined, head, theirs>>
uvars == <<signedIn, counts, saved, marksvars, loading, live, hydrated, warming, seeding, viewing,
           worldvars, coming, noted, stale>>

Covers == [Convs -> 0..MaxMessages]
Nowhere == [r \in Convs |-> 0]
Later(f, g) == [r \in Convs |-> IF f[r] > g[r] THEN f[r] ELSE g[r]]

Loads == [on : BOOLEAN, raw : SUBSET Convs, marks : Covers]
NoLoad == [on |-> FALSE, raw |-> {}, marks |-> Nowhere]

UnreadInit ==
    /\ signedIn = FALSE /\ live = FALSE /\ hydrated = FALSE /\ warming = FALSE /\ seeding = FALSE
    /\ counts = {} /\ saved = {} /\ coming = {} /\ noted = {} /\ stale = {}
    /\ marks = Nowhere /\ synced = Nowhere /\ mirror = Nowhere
    /\ head = Nowhere /\ theirs = Nowhere
    /\ loading = NoLoad
    /\ viewing = NoConv
    /\ joined = Convs

LoadStarted == loading' = [on |-> TRUE, raw |-> saved, marks |-> marks']

----------------------------------------------------------------------------
(* Coming and going. *)

(* A boot starts from the marks of the device; the document's come later. *)
SignedInByBoot ==
    /\ ~signedIn
    /\ signedIn' = TRUE /\ warming' = TRUE
    /\ UNCHANGED marksvars
    /\ LoadStarted
    /\ UNCHANGED <<counts, saved, live, hydrated, seeding, viewing, worldvars, coming, noted, stale>>

(* A sign-in, an unlocking and a switch read the document first. *)
SignedInHydrated ==
    /\ ~signedIn
    /\ signedIn' = TRUE
    /\ marks' = Later(marks, synced)
    /\ noted' = {r \in noted : marks'[r] = marks[r]}
    /\ LoadStarted
    /\ UNCHANGED <<counts, saved, synced, mirror, live, hydrated, warming, seeding, viewing, worldvars,
                   coming, stale>>

(* Signing out, or the death of the app: what is not on the device is gone. *)
SignedOff ==
    /\ signedIn
    /\ signedIn' = FALSE /\ live' = FALSE /\ hydrated' = FALSE /\ warming' = FALSE /\ seeding' = FALSE
    /\ counts' = {} /\ coming' = {} /\ stale' = {}
    /\ mirror' = Nowhere
    /\ loading' = NoLoad
    /\ viewing' = NoConv
    /\ UNCHANGED <<saved, marks, synced, worldvars, noted>>

(* The set of spaces changes, that of direct messages does not: the stream is left
   and the load begins again. *)
SpacesChange(S) ==
    /\ signedIn
    /\ S # joined
    /\ joined' = S
    /\ live' = FALSE
    /\ coming' = {}
    /\ noted' = noted \cap S
    /\ UNCHANGED marksvars
    /\ LoadStarted
    /\ UNCHANGED <<signedIn, counts, saved, hydrated, warming, seeding, viewing, head, theirs, stale>>

----------------------------------------------------------------------------
(* The load. *)

(* A faulty form: direct messages are pruned like the rooms of left spaces. *)
PrunedAll(raw) == raw \cap (joined \ DMs)

(* Counts of left spaces are dropped, but never those of direct messages. *)
Pruned(raw) == raw \cap (joined \cup DMs)

(* What reconcileReads clears of the counts C when the marks go from f to g. *)
ReadSince(C, f, g) == {r \in C : g[r] > f[r]}

(* The marks that came during the load are reconciled with the counts of before
   it; then the persisted counts take their place, whatever the marks say of them. *)
LoadDone ==
    /\ loading.on
    /\ loading' = NoLoad
    /\ mirror' = marks
    /\ counts' = Pruned(loading.raw)
    /\ stale' = {r \in counts' : head[r] <= marks[r]}
    /\ saved' = IF Pruned(loading.raw) # loading.raw THEN Pruned(loading.raw)
                ELSE IF ReadSince(counts, loading.marks, marks) # {}
                THEN counts \ ReadSince(counts, loading.marks, marks) ELSE saved
    /\ live' = TRUE
    /\ hydrated' = TRUE
    /\ seeding' = (seeding \/ ~hydrated)
    /\ UNCHANGED <<signedIn, marks, synced, warming, viewing, worldvars, coming, noted>>

(* A faulty form: a count outlives the mark of another device. *)
KeepsCounts(C, f, g) == C

Reconciled(C, f, g) == C \ ReadSince(C, f, g)

(* The document's marks arrive. *)
hydrateReads ==
    /\ warming
    /\ warming' = FALSE
    /\ marks' = Later(marks, synced)
    /\ IF live
       THEN /\ mirror' = Later(mirror, marks')
            /\ counts' = Reconciled(counts, mirror, marks')
            /\ saved' = IF counts' # counts THEN counts' ELSE saved
       ELSE UNCHANGED <<mirror, counts, saved>>
    /\ noted' = {r \in noted : marks'[r] = marks[r]}
    /\ stale' = {r \in stale : marks'[r] = marks[r]}
    /\ UNCHANGED <<signedIn, synced, loading, live, hydrated, seeding, viewing, worldvars, coming>>

(* The seeding ends: direct messages whose head, as far as it is known, is not
   covered by the mark are given a count. *)
SeedDone ==
    /\ seeding /\ hydrated
    /\ seeding' = FALSE
    /\ \E S \in SUBSET {d \in DMs \ counts : head[d] > marks[d]} :
          /\ counts' = counts \cup S
          /\ saved' = IF S # {} THEN counts' ELSE saved
    /\ UNCHANGED <<signedIn, marksvars, loading, live, hydrated, warming, viewing, worldvars, coming,
                   noted, stale>>

----------------------------------------------------------------------------
(* The user and the world. *)

Messages == {m \in Convs \X (1..MaxMessages) : m[2] <= head[m[1]]}

(* Somebody else writes, and an event may come of it. *)
TheyWrite(r) ==
    /\ r \in joined \cup DMs /\ Cardinality(Messages) < MaxMessages
    /\ head' = [head EXCEPT ![r] = @ + 1]
    /\ theirs' = [theirs EXCEPT ![r] = head[r] + 1]
    /\ coming' \in {coming} \cup (IF live THEN {coming \cup {r}} ELSE {})
    /\ UNCHANGED <<signedIn, counts, saved, marksvars, loading, live, hydrated, warming, seeding, viewing,
                   joined, noted, stale>>

(* The user writes; the event of it is skipped. *)
IWrite(r) ==
    /\ signedIn /\ viewing = r /\ Cardinality(Messages) < MaxMessages
    /\ head' = [head EXCEPT ![r] = @ + 1]
    /\ UNCHANGED <<signedIn, counts, saved, marksvars, loading, live, hydrated, warming, seeding, viewing,
                   joined, theirs, coming, noted, stale>>

(* The conversation on the screen pulls; another one is counted. *)
Event(r) ==
    /\ live /\ r \in coming
    /\ coming' = coming \ {r}
    /\ IF viewing = r
       THEN UNCHANGED <<counts, saved, noted, stale>>
       ELSE /\ counts' = counts \cup {r}
            /\ saved' = counts'
            /\ noted' = noted \cup {r}
            /\ stale' = IF head[r] <= marks[r] THEN stale \cup {r} ELSE stale
    /\ UNCHANGED <<signedIn, marksvars, loading, live, hydrated, warming, seeding, viewing, worldvars>>

Without(C, r) == C \ {r}

(* A conversation comes on the screen: everything so far is read. *)
markRoomRead(r) ==
    /\ hydrated /\ viewing # r
    /\ viewing' = r
    /\ marks' = [marks EXCEPT ![r] = head[r]]
    /\ mirror' = [mirror EXCEPT ![r] = head[r]]
    /\ counts' = Without(counts, r)
    /\ saved' = IF r \in counts THEN counts' ELSE saved
    /\ noted' = noted \ {r}
    /\ stale' = stale \ {r}
    /\ UNCHANGED <<signedIn, synced, loading, live, hydrated, warming, seeding, worldvars, coming>>

LeaveScreen ==
    /\ viewing # NoConv
    /\ viewing' = NoConv
    /\ UNCHANGED <<signedIn, counts, saved, marksvars, loading, live, hydrated, warming, seeding,
                   worldvars, coming, noted, stale>>

(* The marks are flushed into the account's document. *)
MarksSynced ==
    /\ signedIn
    /\ synced' = Later(synced, marks)
    /\ UNCHANGED <<signedIn, counts, saved, marks, mirror, loading, live, hydrated, warming, seeding,
                   viewing, worldvars, coming, noted, stale>>

(* Another device of the account reads a conversation. *)
ReadElsewhere(r) ==
    /\ synced' = [synced EXCEPT ![r] = head[r]]
    /\ UNCHANGED <<signedIn, counts, saved, marks, mirror, loading, live, hydrated, warming, seeding,
                   viewing, worldvars, coming, noted, stale>>

UnreadNext ==
    \/ SignedInByBoot \/ SignedInHydrated \/ SignedOff
    \/ \E S \in SUBSET Convs : DMs \subseteq S /\ SpacesChange(S)
    \/ LoadDone \/ hydrateReads \/ SeedDone
    \/ \E r \in Convs : TheyWrite(r) \/ IWrite(r) \/ Event(r) \/ markRoomRead(r) \/ ReadElsewhere(r)
    \/ LeaveScreen \/ MarksSynced

UnreadSpec == UnreadInit /\ [][UnreadNext]_uvars

----------------------------------------------------------------------------

UnreadTypeOK ==
    /\ {signedIn, live, hydrated, warming, seeding} \subseteq BOOLEAN
    /\ {counts, saved, joined, coming, noted, stale} \subseteq SUBSET Convs
    /\ {marks, synced, mirror, head, theirs} \subseteq Covers
    /\ loading \in Loads
    /\ viewing \in Convs \cup {NoConv}

(* "clear that room's unread count to 0" when its mark advances on any device
   (unread-context.tsx:231): while no load is in progress, a counted conversation has
   a message that its mark does not cover.  Excepted are a count that a load brought
   back after its conversation had been read, and one of an event that came after. *)
ReadIsRead ==
    live => \A r \in counts \ stale : head[r] > marks[r]

(* "so an event arriving right after mount builds on the restored counts"
   (unread-context.tsx:195): a conversation that an event counted keeps its count,
   over restarts, sign-outs and changes of the spaces, until it is read on some
   device or its space is left. *)
CountSurvives ==
    /\ live => noted \subseteq counts
    /\ noted \subseteq saved
=============================================================================
