------------------------------ MODULE RoomLog ------------------------------
(***************************************************************************)
(* One room on one device: the hook that shows a room's append-only log    *)
(* (apps/mobile/src/lib/use-room.ts), with its optimistic echo, its        *)
(* incremental cursor and the persisted log it warm-starts from, the live  *)
(* sync that asks it to pull, and the outbox its failed sends divert to.   *)
(*                                                                         *)
(* One action is one turn of the JavaScript loop, or a step of the server. *)
(* Every message carries an id; the server's log is the sequence of the    *)
(* ids it was sent, in the order of the timestamps it gave them, so an     *)
(* element's timestamp is its position.  A cursor holds the elements up to *)
(* its checkpoint.  The outbox is here only what DurableQueue says of it.  *)
(***************************************************************************)
EXTENDS Naturals, Sequences

CONSTANTS
    Mine,         \* the messages composed on this device
    Theirs,       \* the messages of everybody else
    MaxLog,       \* bound on the length of the server's log
    HistoryLive   \* getDecryptedItems() returns what the cursor holds when it
                  \* resolves (TRUE), or what it held when it was called (FALSE)

ASSUME RoomConstantsOK ==
    /\ Mine \cap Theirs = {}
    /\ MaxLog \in Nat
    /\ HistoryLive \in BOOLEAN

VARIABLES
    slog,      \* the server's log of the room
    kv,        \* the persisted log: how many elements it holds
    screen,    \* the room screen and its cursor
    at,        \* the cursor's checkpoint
    history,   \* how many elements getDecryptedItems() was called with
    store,     \* the ids the open screen's store holds
    sse,       \* the event stream is up
    event,     \* a change event of the room is on its way
    pulling,   \* the cursor's pull: idle, asked, or answered by the server
    upto,      \* the length of the log when the server answered
    again,     \* another pull is waiting behind that one
    live,      \* where each of my messages is in sendText
    here,      \* the live sends made from the screen that is open
    outq,      \* the outbox: not queued, queued, or taken by the server
    late       \* answers to other readers of the log that are still to persist it

rvars == <<slog, kv, screen, at, history, store, sse, event,
           pulling, upto, again, live, here, outq, late>>

Msgs == Mine \cup Theirs

Upto(n) == {slog[i] : i \in 1..n}

screenVars == <<screen, at, history, store>>
pullVars == <<pulling, upto, again>>
netVars == <<sse, event>>
sendVars == <<live, here, outq>>

Awaiting(m) == live[m] \in {"pending", "committed"}

HasCursor == screen \in {"painting", "ready"}

----------------------------------------------------------------------------

Init ==
    /\ slog = <<>>
    /\ kv = 0
    /\ screen = "closed"
    /\ at = 0 /\ history = 0
    /\ store = {}
    /\ sse = FALSE /\ event = FALSE
    /\ pulling = "idle" /\ upto = 0 /\ again = FALSE
    /\ live = [m \in Mine |-> "unsent"]
    /\ here = {}
    /\ outq = [m \in Mine |-> "no"]
    /\ late = {}

(* The server takes a message, and tells the streams that are connected. *)
ServerAppend(m) ==
    /\ Len(slog) < MaxLog
    /\ slog' = Append(slog, m)
    /\ event' = (event \/ sse)
    /\ UNCHANGED sse

(* A pull runs alone in the cursor; one asked for meanwhile waits. *)
AskPull ==
    IF pulling = "idle" THEN pulling' = "asked" /\ UNCHANGED again
                        ELSE again' = TRUE /\ UNCHANGED pulling

(* The cursor's pull is over: the one that waits starts. *)
NextPull ==
    /\ pulling' = IF again THEN "asked" ELSE "idle"
    /\ again' = FALSE
    /\ upto' = 0

(* What goes with the screen that unmounts. *)
ForgetScreen ==
    /\ screen' = "closed"
    /\ at' = 0 /\ history' = 0 /\ store' = {} /\ here' = {}
    /\ pulling' = "idle" /\ upto' = 0 /\ again' = FALSE

(* The screen mounts with an empty store; the client is not there yet. *)
Open ==
    /\ screen = "closed"
    /\ screen' = "opening"
    /\ UNCHANGED <<slog, kv, at, history, store, netVars, pullVars, sendVars, late>>

(* A faulty form: the checkpoint is one element past the seed. *)
SeededPast(n) == at' = n + 1 /\ history' = n

SeededWith(n) == at' = n /\ history' = n

(* Client, encryptor and route resolve: the cursor is built on the persisted
   log.  A history is decrypted before it is painted; without one the first
   pull starts at once. *)
Connect ==
    /\ screen = "opening"
    /\ SeededWith(kv)
    /\ IF kv = 0 THEN screen' = "ready" /\ AskPull
                 ELSE screen' = "painting" /\ UNCHANGED <<pulling, again>>
    /\ UNCHANGED <<slog, kv, store, netVars, upto, sendVars, late>>

(* getDecryptedItems() resolves: its items replace whatever the store holds. *)
PaintHistory ==
    /\ screen = "painting"
    /\ screen' = "ready"
    /\ store' = Upto(IF HistoryLive THEN at ELSE history)
    /\ AskPull
    /\ UNCHANGED <<slog, kv, at, history, netVars, upto, sendVars, late>>

(* The screen unmounts.  An answer under way still persists the log. *)
Close ==
    /\ screen # "closed"
    /\ ForgetScreen
    /\ late' = IF pulling = "answered" THEN late \cup {upto} ELSE late
    /\ UNCHANGED <<slog, kv, netVars, live, outq>>

----------------------------------------------------------------------------
(* Live sync. *)

(* The room's pull is asked for on focus, and by a push notification. *)
Focus ==
    /\ HasCursor
    /\ AskPull
    /\ UNCHANGED <<slog, kv, screenVars, netVars, upto, sendVars, late>>

(* An event of the stream: pulls the room if it is the one on screen. *)
SseEvent ==
    /\ event
    /\ event' = FALSE
    /\ IF HasCursor THEN AskPull ELSE UNCHANGED <<pulling, again>>
    /\ UNCHANGED <<slog, kv, screenVars, sse, upto, sendVars, late>>

(* The fallback poll runs only while the stream is down. *)
Poll ==
    /\ HasCursor
    /\ ~sse
    /\ AskPull
    /\ UNCHANGED <<slog, kv, screenVars, netVars, upto, sendVars, late>>

(* The stream reconnects fresh, without a replay; nothing pulls the room. *)
SseUp ==
    /\ ~sse
    /\ sse' = TRUE
    /\ UNCHANGED <<slog, kv, screenVars, event, pullVars, sendVars, late>>

SseDown ==
    /\ sse
    /\ sse' = FALSE
    /\ event' = FALSE
    /\ UNCHANGED <<slog, kv, screenVars, pullVars, sendVars, late>>

PullAnswered ==
    /\ pulling = "asked"
    /\ pulling' = "answered"
    /\ upto' = Len(slog)
    /\ UNCHANGED <<slog, kv, screenVars, netVars, again, sendVars, late>>

(* Two faulty forms: the cursor also skips what was appended since the answer,
   and the element that follows the checkpoint is left out. *)
MergesUptoNow(n) ==
    /\ store' = store \cup {slog[i] : i \in (at + 1)..n}
    /\ at' = Len(slog)
    /\ kv' = Len(slog)
MergesFromNext(n) ==
    /\ store' = store \cup {slog[i] : i \in (at + 2)..n}
    /\ at' = n
    /\ kv' = n

(* The answer arrives: the new elements are merged into the store, the cursor
   moves on, and what it holds is persisted. *)
MergeUpto(n) ==
    /\ store' = store \cup {slog[i] : i \in (at + 1)..n}
    /\ at' = n
    /\ kv' = n

PullDelivered ==
    /\ pulling = "answered"
    /\ MergeUpto(upto)
    /\ NextPull
    /\ UNCHANGED <<slog, screen, history, netVars, sendVars, late>>

PullFailed ==
    /\ pulling # "idle"
    /\ NextPull
    /\ UNCHANGED <<slog, kv, screenVars, netVars, sendVars, late>>

(* A sweep over all rooms (foldRoomCached) reads the same log from the same
   persisted seed and persists what it holds, in its own time.  Sweeps of one
   room share one pull. *)
SweepAnswered ==
    /\ late = {}
    /\ late' = {Len(slog)}
    /\ UNCHANGED <<slog, kv, screenVars, netVars, pullVars, sendVars>>

PersistLate(n) ==
    /\ n \in late
    /\ late' = late \ {n}
    /\ kv' = n
    /\ UNCHANGED <<slog, screenVars, netVars, pullVars, sendVars>>

----------------------------------------------------------------------------
(* Sending. *)

OthersSend(m) ==
    /\ m \notin Upto(Len(slog))
    /\ ServerAppend(m)
    /\ UNCHANGED <<kv, screenVars, pullVars, sendVars, late>>

(* sendText while the device is believed offline, or before the client is
   there: the message goes to the outbox. *)
SendQueued(m) ==
    /\ live[m] = "unsent"
    /\ screen # "closed"
    /\ live' = [live EXCEPT ![m] = "over"]
    /\ outq' = [outq EXCEPT ![m] = "queued"]
    /\ UNCHANGED <<slog, kv, screenVars, netVars, pullVars, here, late>>

(* sendText online: the bubble is painted and the append awaited. *)
SendLive(m) ==
    /\ live[m] = "unsent"
    /\ HasCursor
    /\ live' = [live EXCEPT ![m] = "pending"]
    /\ store' = store \cup {m}
    /\ here' = here \cup {m}
    /\ UNCHANGED <<slog, kv, screen, at, history, netVars, pullVars, outq, late>>

LiveCommit(m) ==
    /\ live[m] = "pending"
    /\ ServerAppend(m)
    /\ live' = [live EXCEPT ![m] = "committed"]
    /\ UNCHANGED <<kv, screenVars, pullVars, here, outq, late>>

(* The append resolves: the room pulls to see the server's copy. *)
LiveAck(m) ==
    /\ live[m] = "committed"
    /\ live' = [live EXCEPT ![m] = "over"]
    /\ here' = here \ {m}
    /\ IF m \in here THEN AskPull ELSE UNCHANGED <<pulling, again>>
    /\ UNCHANGED <<slog, kv, screenVars, netVars, upto, outq, late>>

(* A faulty form: the bubble stays. *)
NoRollback(m) == store' = store

(* Only in the store the bubble was painted in. *)
Rollback(m) == store' = IF m \in here THEN store \ {m} ELSE store

(* The append fails, or its response is lost: the bubble is rolled back and
   the message diverted to the outbox. *)
LiveFail(m) ==
    /\ Awaiting(m)
    /\ live' = [live EXCEPT ![m] = "over"]
    /\ here' = here \ {m}
    /\ Rollback(m)
    /\ outq' = [outq EXCEPT ![m] = "queued"]
    /\ UNCHANGED <<slog, kv, screen, at, history, netVars, pullVars, late>>

(* The outbox's drain: the server takes the message, more than once when
   responses are lost; a response that arrives removes the entry and has the
   open room pull. *)
OutboxPost(m) ==
    /\ outq[m] # "no"
    /\ ServerAppend(m)
    /\ outq' = [outq EXCEPT ![m] = "posted"]
    /\ UNCHANGED <<kv, screenVars, pullVars, live, here, late>>

OutboxConfirm(m) ==
    /\ outq[m] = "posted"
    /\ outq' = [outq EXCEPT ![m] = "no"]
    /\ IF HasCursor THEN AskPull ELSE UNCHANGED <<pulling, again>>
    /\ UNCHANGED <<slog, kv, screenVars, netVars, upto, live, here, late>>

(* The app dies: what is persisted stays. *)
Crash ==
    /\ ForgetScreen
    /\ sse' = FALSE /\ event' = FALSE
    /\ live' = [m \in Mine |-> IF Awaiting(m) THEN "cut" ELSE live[m]]
    /\ outq' = [m \in Mine |-> IF outq[m] = "no" THEN "no" ELSE "queued"]
    /\ late' = {}
    /\ UNCHANGED <<slog, kv>>

Next ==
    \/ Open \/ Connect \/ PaintHistory \/ Close
    \/ Focus \/ SseEvent \/ Poll \/ SseUp \/ SseDown
    \/ PullAnswered \/ PullDelivered \/ PullFailed
    \/ SweepAnswered
    \/ \E n \in 0..MaxLog : PersistLate(n)
    \/ \E m \in Theirs : OthersSend(m)
    \/ \E m \in Mine : \/ SendQueued(m) \/ SendLive(m)
                       \/ LiveCommit(m) \/ LiveAck(m) \/ LiveFail(m)
                       \/ OutboxPost(m) \/ OutboxConfirm(m)
    \/ Crash

Spec == Init /\ [][Next]_rvars

(* The screen's effects run, events are handled, the poll fires while the
   stream stays down, a live send settles, and a server that is asked again
   and again sooner or later answers and its answer arrives. *)
Fairness ==
    /\ WF_rvars(Connect)
    /\ WF_rvars(PaintHistory)
    /\ WF_rvars(SseEvent)
    /\ WF_rvars(Poll)
    /\ SF_rvars(PullAnswered)
    /\ SF_rvars(PullDelivered)
    /\ \A m \in Mine : WF_rvars(LiveAck(m) \/ LiveFail(m))

FairSpec == Spec /\ Fairness

----------------------------------------------------------------------------

TypeOK ==
    /\ slog \in Seq(Msgs) /\ Len(slog) <= MaxLog
    /\ kv \in 0..Len(slog)
    /\ screen \in {"closed", "opening", "painting", "ready"}
    /\ at \in 0..Len(slog) /\ history \in 0..at
    /\ store \subseteq Msgs
    /\ sse \in BOOLEAN /\ event \in BOOLEAN
    /\ pulling \in {"idle", "asked", "answered"}
    /\ upto \in 0..Len(slog) /\ again \in BOOLEAN
    /\ live \in [Mine -> {"unsent", "pending", "committed", "over", "cut"}]
    /\ here \subseteq Mine
    /\ outq \in [Mine -> {"no", "queued", "posted"}]
    /\ late \subseteq 0..Len(slog)

(* A pending bubble of the outbox is shown with the store's messages. *)
Pending(m) == m \in Mine /\ outq[m] # "no"

(* Nothing is lost behind the checkpoint: once the history is painted, every
   message the cursor has moved past is shown, is pending in the outbox, or
   has another copy that the cursor has still to fetch. *)
HeldIsShown ==
    screen = "ready" =>
        \A m \in Upto(at) :
            \/ m \in store
            \/ Pending(m)
            \/ \E i \in (at + 1)..Len(slog) : slog[i] = m

(* "If the append did NOT commit we roll the bubble back" (use-room.ts:280):
   the store shows nothing that the server does not have, apart from the live
   sends still awaited. *)
NoGhost == store \subseteq Upto(Len(slog)) \cup {m \in here : Awaiting(m)}

(* From now on every message of the log ends up shown for good, as a message
   or as a pending bubble. *)
AllShown == \A m \in Msgs : [](m \in Upto(Len(slog)) => <>[](m \in store \/ Pending(m)))

(* "New messages arrive live WHILE the room is open" (use-room-live-sync.ts:6):
   everything is shown sooner or later in a room that stays open while the
   stream stays up. *)
ShownByEvents == <>[](screen # "closed" /\ sse) => AllShown

(* The fallback poll does its part: everything is shown sooner or later in a
   room that stays open while the stream stays down, whatever pulls fail. *)
ShownByPolling == <>[](screen # "closed" /\ ~sse) => AllShown
=============================================================================
