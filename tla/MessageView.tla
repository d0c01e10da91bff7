---------------------------- MODULE MessageView ----------------------------
(***************************************************************************)
(* Reactions, edits and pins (packages/sdk/src/messaging/reactions.ts,     *)
(* packages/sdk/src/format/message-view.ts and the taps of                 *)
(* apps/mobile/src/lib/use-room.ts).  They are events appended to the log  *)
(* of the room, and what a screen shows is folded from the events it has   *)
(* loaded, in the order of the clocks of their writers.                    *)
(*                                                                         *)
(* One emoji stands for all, and texts do not matter.  A screen is left    *)
(* out: to have loaded only a part of the log stands for a slow one, for   *)
(* one whose earlier tap has not come back, and for another device.        *)
(***************************************************************************)
EXTENDS Sequences, Naturals, FiniteSets

CONSTANTS
    Readers,      \* the users of the room
    SpaceOwner,
    MessageIds,
    AuthorOf,     \* the author of each message
    MaxEvents,    \* bound on the log
    MaxTime       \* bound on the clocks

ASSUME MessageViewConstantsOK ==
    /\ SpaceOwner \in Readers
    /\ AuthorOf \in [MessageIds -> Readers]
    /\ MaxEvents \in Nat /\ MaxTime \in Nat

VARIABLES
    elog,      \* the events, in the order in which the server has appended them
    crossed    \* history: users and messages with a reaction made in ignorance of an own one, or stamped before it

viewvars == <<elog, crossed>>

KindsOf == [reaction |-> {"add", "remove"}, edit |-> {"edit", "delete"}, pin |-> {"pin", "unpin"}]
Events ==
    UNION {[t : {t}, msg : MessageIds, user : Readers, kind : KindsOf[t], ts : 1..MaxTime] : t \in DOMAIN KindsOf}

MessageViewInit == elog = <<>> /\ crossed = {}

----------------------------------------------------------------------------
(* What the events of a list amount to, message by message. *)

NotAfter(events, i, j) == events[i].ts < events[j].ts \/ (events[i].ts = events[j].ts /\ i <= j)

(* filter(...).sort((a, b) => a.ts - b.ts), which is stable, for the events with the numbers `its'. *)
ByTime(events, its) ==
    LET place(i) == Cardinality({j \in its : NotAfter(events, j, i)})
    IN [k \in 1..Cardinality(its) |-> events[CHOOSE i \in its : place(i) = k]]

Of(events, t) == {i \in DOMAIN events : events[i].t = t}
About(events, t, msg) == {i \in Of(events, t) : events[i].msg = msg}
By(events, its, user) == {i \in its : events[i].user = user}

LastOr(list, none) == IF list = <<>> THEN none ELSE list[Len(list)]

Reacted(users, e) == IF e.kind = "add" THEN users \cup {e.user} ELSE users \ {e.user}

aggregateReactions(events, msg) ==
    LET list == ByTime(events, About(events, "reaction", msg))
        users[n \in 0..Len(list)] == IF n = 0 THEN {} ELSE Reacted(users[n - 1], list[n])
    IN users[Len(list)]

NoEvent == [kind |-> "none"]

resolveEdit(events, msg) ==
    LastOr(ByTime(events, By(events, About(events, "edit", msg), AuthorOf[msg])), NoEvent)

resolvePinned(events, msg) ==
    LastOr(ByTime(events, By(events, About(events, "pin", msg), SpaceOwner)), NoEvent).kind = "pin"

toDisplayMessage(events, msg) ==
    [reactions |-> aggregateReactions(events, msg),
     edit |-> resolveEdit(events, msg),
     pinned |-> resolvePinned(events, msg)]

----------------------------------------------------------------------------
(* The same in one pass for all messages. *)

aggregateAllReactions(events) ==
    LET list == ByTime(events, Of(events, "reaction"))
        shown[n \in 0..Len(list)] ==
            IF n = 0 THEN [m \in MessageIds |-> {}] ELSE [shown[n - 1] EXCEPT ![list[n].msg] = Reacted(@, list[n])]
    IN shown[Len(list)]

(* A faulty form: whoever wrote the edit. *)
resolveAllEdits(events) ==
    LET list == ByTime(events, Of(events, "edit"))
        latest[n \in 0..Len(list)] ==
            IF n = 0 THEN [m \in MessageIds |-> NoEvent] ELSE [latest[n - 1] EXCEPT ![list[n].msg] = list[n]]
    IN latest[Len(list)]

resolveEdits(events) ==
    LET list == ByTime(events, Of(events, "edit"))
        latest[n \in 0..Len(list)] ==
            IF n = 0 THEN [m \in MessageIds |-> NoEvent]
            ELSE IF list[n].user = AuthorOf[list[n].msg] THEN [latest[n - 1] EXCEPT ![list[n].msg] = list[n]]
                 ELSE latest[n - 1]
    IN latest[Len(list)]

resolvePinnedSet(events) ==
    LET list == ByTime(events, Of(events, "pin"))
        kinds[n \in 0..Len(list)] ==
            IF n = 0 THEN [m \in MessageIds |-> "unpin"]
            ELSE IF list[n].user = SpaceOwner THEN [kinds[n - 1] EXCEPT ![list[n].msg] = list[n].kind]
                 ELSE kinds[n - 1]
    IN {m \in MessageIds : kinds[Len(list)][m] = "pin"}

buildMessageIndex(events) ==
    [reactions |-> aggregateAllReactions(events), edits |-> resolveEdits(events), pinned |-> resolvePinnedSet(events)]

toDisplayMessageIndexed(idx, msg) ==
    [reactions |-> idx.reactions[msg], edit |-> idx.edits[msg], pinned |-> msg \in idx.pinned]

----------------------------------------------------------------------------
(* Taps. *)

(* More adds than removals: the tap removes. *)
Toggle(events, its) ==
    LET Count(kind) == Cardinality({i \in its : events[i].kind = kind})
    IN IF Count("add") > Count("remove") THEN "remove" ELSE "add"

(* A faulty form: the reactions of all users are counted. *)
ToggleOfAll(events, msg, user) == Toggle(events, About(events, "reaction", msg))

reactionToggleEvent(events, msg, user) == Toggle(events, By(events, About(events, "reaction", msg), user))

EventAppended(t, msg, user, kind, ts) ==
    /\ Len(elog) < MaxEvents
    /\ elog' = Append(elog, [t |-> t, msg |-> msg, user |-> user, kind |-> kind, ts |-> ts])

(* The tap works on what the screen has loaded, the first n events. *)
toggleReaction(user, msg, n, ts) ==
    /\ EventAppended("reaction", msg, user, reactionToggleEvent(SubSeq(elog, 1, n), msg, user), ts)
    /\ crossed' =
          IF \E i \in DOMAIN elog : /\ elog[i].t = "reaction" /\ elog[i].msg = msg /\ elog[i].user = user
                                    /\ i > n \/ elog[i].ts > ts
          THEN crossed \cup {<<user, msg>>} ELSE crossed

(* Neither the server nor the log keeps anyone from writing an edit for a message of
   somebody else, or a pin. *)
editMessage(user, msg, kind, ts) ==
    /\ kind \in KindsOf.edit
    /\ EventAppended("edit", msg, user, kind, ts)
    /\ UNCHANGED crossed

pinMessage(user, msg, kind, ts) ==
    /\ kind \in KindsOf.pin
    /\ EventAppended("pin", msg, user, kind, ts)
    /\ UNCHANGED crossed

MessageViewNext ==
    \E user \in Readers, msg \in MessageIds, ts \in 1..MaxTime :
        \/ \E n \in 0..Len(elog) : toggleReaction(user, msg, n, ts)
        \/ \E kind \in KindsOf.edit : editMessage(user, msg, kind, ts)
        \/ \E kind \in KindsOf.pin : pinMessage(user, msg, kind, ts)

MessageViewSpec == MessageViewInit /\ [][MessageViewNext]_viewvars

----------------------------------------------------------------------------

MessageViewTypeOK == elog \in Seq(Events) /\ crossed \subseteq Readers \X MessageIds

(* The event of a message and of writers which no other of theirs comes after. *)
Latest(t, msg, writers) ==
    LET its == {i \in DOMAIN elog : elog[i].t = t /\ elog[i].msg = msg /\ elog[i].user \in writers}
    IN {elog[i] : i \in {i \in its : \A j \in its : NotAfter(elog, j, i)}}

(* The index is an "alternative to toDisplayMessage" (message-view.ts:255): on every
   log the two ways show the same, namely the users whose latest event adds the
   reaction, the latest edit of the author and of nobody else, and whether the latest
   event of the owner of the space, of nobody else, is a pin. *)
FoldsAgree ==
    LET idx == buildMessageIndex(elog)
    IN \A msg \in MessageIds :
          LET row == toDisplayMessage(elog, msg)
          IN /\ toDisplayMessageIndexed(idx, msg) = row
             /\ row.reactions = {u \in Readers : \E e \in Latest("reaction", msg, {u}) : e.kind = "add"}
             /\ {row.edit} \ {NoEvent} = Latest("edit", msg, {AuthorOf[msg]})
             /\ row.pinned = (\E e \in Latest("pin", msg, {SpaceOwner}) : e.kind = "pin")

(* "The toggle a tap implies" (reactions.ts:92): the tap counts adds and removals, the
   screen shows who is left of a set, and still a tap takes back what the screen shows
   as one's own and adds what it does not, unless own reactions to the message crossed. *)
TapIsOpposite ==
    \A user \in Readers, msg \in MessageIds :
        <<user, msg>> \notin crossed =>
            (reactionToggleEvent(elog, msg, user) = "remove") = (user \in aggregateReactions(elog, msg))
=============================================================================
