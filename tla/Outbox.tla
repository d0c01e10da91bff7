------------------------------- MODULE Outbox -------------------------------
(***************************************************************************)
(* The offline outbox of the mobile app: the store of unsent messages and  *)
(* its per-account persistence (apps/mobile/src/lib/outbox.ts), the global *)
(* flusher that drains it (outbox-context.tsx), the composer that sends    *)
(* live or queues (use-room-send.ts), and the account changes, network     *)
(* losses and app deaths they run against.                                 *)
(*                                                                         *)
(* JavaScript runs one turn at a time, so one action is one turn: from an  *)
(* event or a settled promise to the next await.  The kv backends that     *)
(* ship (MMKV, localStorage) answer within the turn, so hydrating a queue  *)
(* is part of the turn that asks for it.  The queue is a function from     *)
(* message ids to entries; the order of its entries is left open, and the  *)
(* drain takes the entries of its snapshot in any order.                   *)
(***************************************************************************)
EXTENDS Naturals

CONSTANTS
    Users,            \* the accounts of the vault
    Msgs,             \* message ids; each is composed at most once (randomId)
    NoUser, NoMsg,    \* null
    MaxAttempts,      \* MAX_ATTEMPTS of the flusher
    LostAcks,         \* TRUE: an append may commit and its response be lost
    Crashes,          \* TRUE: the app may die at any turn
    SwitchMidSend,    \* TRUE: the account may change while a live send is awaited
    SwitchMidDrain    \* TRUE: the account may change while the drain is running

ASSUME ConstantsOK ==
    /\ NoUser \notin Users
    /\ NoMsg \notin Msgs
    /\ MaxAttempts \in Nat \ {0}
    /\ {LostAcks, Crashes, SwitchMidSend, SwitchMidDrain} \subseteq BOOLEAN

VARIABLES
    session,   \* sessionRef.current: the account the app is signed in to
    owner,     \* outboxStore.userId: the account the provider's effects last ran for
    items,     \* outboxStore.items
    kv,        \* the persisted queue of every account
    online,    \* getOnline()
    author,    \* the account that composed each message
    live,      \* where each message is in sendText
    drain,     \* the running drain, or Idle
    rerun,     \* rerunRef.current
    log        \* the server: how often each message was appended, and by whom

vars == <<session, owner, items, kv, online, author, live, drain, rerun, log>>

----------------------------------------------------------------------------
(* Queue entries and the reducers over them. *)

Statuses == {"none", "queued", "sending", "failed"}

(* An entry's status and failed attempts; "none" is an id the queue lacks.
   Attempts saturate at MaxAttempts: the code only compares against it. *)
Entries == [st : Statuses, n : 0..MaxAttempts]
NoEntry == [st |-> "none", n |-> 0]
Empty == [m \in Msgs |-> NoEntry]

(* Two faulty forms: the entry in flight is left as it is, or is left out. *)
KeepsSending(q) == q
DropsSending(q) == [m \in Msgs |-> IF q[m].st = "sending" THEN NoEntry ELSE q[m]]

ResetSendingToQueued(q) ==
    [m \in Msgs |-> IF q[m].st = "sending" THEN [q[m] EXCEPT !.st = "queued"] ELSE q[m]]

Enqueued(q, m) == [q EXCEPT ![m] = [st |-> "queued", n |-> 0]]

(* A faulty form: the entry is put back instead. *)
PutBack(q, m) == [q EXCEPT ![m].st = "queued"]

Removed(q, m) == [q EXCEPT ![m] = NoEntry]

(* The reducers below map over the entries: an absent id stays absent. *)
WithStatus(q, m, s) == IF q[m].st = "none" THEN q ELSE [q EXCEPT ![m].st = s]

(* Two faulty forms: an entry that fails for good is thrown away, and one
   failure too many is allowed. *)
ThrowsAway(q, m) ==
    IF q[m].n + 1 >= MaxAttempts THEN [q EXCEPT ![m] = NoEntry] ELSE [q EXCEPT ![m].n = @ + 1]
OneTooMany(q, m) ==
    IF q[m].st = "none" THEN q
    ELSE [q EXCEPT ![m] = [st |-> IF q[m].n >= MaxAttempts THEN "failed" ELSE "queued",
                           n  |-> q[m].n + 1]]

RecordFailure(q, m) ==
    LET n == IF q[m].n < MaxAttempts THEN q[m].n + 1 ELSE MaxAttempts
    IN  IF q[m].st = "none" THEN q
        ELSE [q EXCEPT ![m] = [st |-> IF n >= MaxAttempts THEN "failed" ELSE "queued",
                               n  |-> n]]

(* A faulty form: the key is that of the account that is signed in. *)
WritesToSession ==
    kv' = IF session' = NoUser THEN kv ELSE [kv EXCEPT ![session'] = items']

(* The store's subscriber: every change of items is written under the key of
   the account the store belongs to. *)
WriteThrough ==
    kv' = IF owner' = NoUser THEN kv ELSE [kv EXCEPT ![owner'] = items']

----------------------------------------------------------------------------
(* The drain.  sess is the session object the loop holds on to, todo what is
   left of the snapshot, cur the entry whose sendQueued is awaited, sent
   whether the server has taken it. *)

Drains ==
    [on : BOOLEAN, sess : Users \cup {NoUser}, force : BOOLEAN, failed : BOOLEAN,
     todo : SUBSET Msgs, cur : Msgs \cup {NoMsg}, sent : BOOLEAN]

Idle == [on |-> FALSE, sess |-> NoUser, force |-> FALSE, failed |-> FALSE,
         todo |-> {}, cur |-> NoMsg, sent |-> FALSE]

(* The entries of the snapshot that the loop may claim: none once the device
   went offline (unless forced) or the store changed hands. *)
Claimable(q, d) ==
    {m \in d.todo : /\ d.force \/ online'
                    /\ owner' = d.sess
                    /\ q[m].st \in {"queued", "failed"}}

(* A new round: the session is read again and the queue is snapshotted, but
   only when the store is hydrated for that session. *)
Round(q, d) ==
    [d EXCEPT !.sess = session,
              !.todo = IF session # NoUser /\ owner' = session
                       THEN {m \in Msgs : \/ q[m].st = "queued"
                                          \/ d.failed /\ q[m].st = "failed"}
                       ELSE {}]

Claim(q, d, m) ==
    /\ items' = WithStatus(q, m, "sending")
    /\ drain' = [d EXCEPT !.todo = @ \ {m}, !.cur = m, !.sent = FALSE]

(* A faulty form of the loop below: another round asked for mid-drain is not
   run. *)
ForgetsRerun(q, d, again) ==
    LET first == d.cur = NoMsg
    IN  \/ \E m \in Claimable(q, d) : Claim(q, d, m) /\ rerun' = again
        \/ /\ Claimable(q, d) = {}
           /\ first
           /\ \E m \in Claimable(q, Round(q, d)) : Claim(q, Round(q, d), m)
           /\ rerun' = FALSE
        \/ /\ Claimable(q, d) = {}
           /\ first => Claimable(q, Round(q, d)) = {}
           /\ items' = q /\ drain' = Idle /\ rerun' = FALSE

(* The loop from where it stands to its next await: the next entry of this
   round, else the first of another round if one was asked for, else exit. *)
Proceed(q, d, again) ==
    \/ /\ \E m \in Claimable(q, d) : Claim(q, d, m)
       /\ rerun' = again
    \/ /\ Claimable(q, d) = {}
       /\ again
       /\ \E m \in Claimable(q, Round(q, d)) : Claim(q, Round(q, d), m)
       /\ rerun' = FALSE
    \/ /\ Claimable(q, d) = {}
       /\ again => Claimable(q, Round(q, d)) = {}
       /\ items' = q
       /\ drain' = Idle
       /\ rerun' = FALSE

(* drain(opts) on a queue q: gated, single-flight, else the first round. *)
StartDrain(q, force, failed) ==
    LET gate == (force \/ online') /\ session # NoUser
        d == [Idle EXCEPT !.on = TRUE, !.force = force, !.failed = failed]
    IN  \/ ~gate /\ items' = q /\ UNCHANGED <<drain, rerun>>
        \/ gate /\ drain.on /\ items' = q /\ rerun' = TRUE /\ UNCHANGED drain
        \/ gate /\ ~drain.on /\ Proceed(q, d, TRUE)

----------------------------------------------------------------------------

Init ==
    /\ session = NoUser
    /\ owner = NoUser
    /\ items = Empty
    /\ kv = [u \in Users |-> Empty]
    /\ online \in BOOLEAN
    /\ author = [m \in Msgs |-> NoUser]
    /\ live = [m \in Msgs |-> "unsent"]
    /\ drain = Idle
    /\ rerun = FALSE
    /\ log = [m \in Msgs |-> [u \in Users |-> 0]]

Awaiting(m) == live[m] \in {"pending", "committed"}

(* setSession: boot, unlock, switch, log out.  React runs the effects of one
   change before it renders the next. *)
SetSession(u) ==
    /\ u # session
    /\ owner = session
    /\ SwitchMidSend \/ \A m \in Msgs : ~Awaiting(m)
    /\ SwitchMidDrain \/ ~drain.on
    /\ session' = u
    /\ UNCHANGED <<owner, items, kv, online, author, live, drain, rerun, log>>

(* The provider's effects after a sign-out: the store is cleared, and no
   subscription is left to notice. *)
ClearOnSignOut ==
    /\ owner # session
    /\ session = NoUser
    /\ owner' = NoUser
    /\ items' = Empty
    /\ UNCHANGED <<session, kv, online, author, live, drain, rerun, log>>

(* The provider's effects after a sign-in or a switch: the account's queue is
   loaded in place of what the store held, which starts a forced drain. *)
HydrateOnSignIn ==
    /\ owner # session
    /\ session # NoUser
    /\ owner' = session
    /\ UNCHANGED <<session, online, author, live, log>>
    /\ StartDrain(ResetSendingToQueued(kv[session]), TRUE, TRUE)
    /\ WriteThrough

(* enqueue, and the drain its growth starts: gated on the online signal.  The
   entry carries the author the composer captured; the store it joins is the
   one of the moment.  Nobody listens while no account is signed in. *)
Enqueue(m) ==
    /\ UNCHANGED <<session, owner, online, log>>
    /\ IF owner = NoUser
       THEN items' = Enqueued(items, m) /\ UNCHANGED <<drain, rerun>>
       ELSE StartDrain(Enqueued(items, m), FALSE, FALSE)
    /\ WriteThrough

(* sendText by the user of a settled screen: offline the message is queued,
   online the live send is awaited. *)
SendOffline(m) ==
    /\ live[m] = "unsent"
    /\ session # NoUser /\ owner = session
    /\ ~online
    /\ author' = [author EXCEPT ![m] = session]
    /\ live' = [live EXCEPT ![m] = "over"]
    /\ Enqueue(m)

SendOnline(m) ==
    /\ live[m] = "unsent"
    /\ session # NoUser /\ owner = session
    /\ online
    /\ author' = [author EXCEPT ![m] = session]
    /\ live' = [live EXCEPT ![m] = "pending"]
    /\ UNCHANGED <<session, owner, items, kv, online, drain, rerun, log>>

Append(m, u) == log' = [log EXCEPT ![m][u] = IF @ < 2 THEN @ + 1 ELSE 2]

(* The server takes a live append. *)
LiveCommit(m) ==
    /\ live[m] = "pending"
    /\ live' = [live EXCEPT ![m] = "committed"]
    /\ Append(m, author[m])
    /\ UNCHANGED <<session, owner, items, kv, online, author, drain, rerun>>

(* The live send resolves true: the composer is done. *)
LiveAck(m) ==
    /\ live[m] = "committed"
    /\ live' = [live EXCEPT ![m] = "over"]
    /\ UNCHANGED <<session, owner, items, kv, online, author, drain, rerun, log>>

(* The live send resolves false, whatever the server did: the rest of
   sendText diverts the message to the outbox. *)
LiveFail(m) ==
    /\ \/ live[m] = "pending"
       \/ live[m] = "committed" /\ LostAcks
    /\ live' = [live EXCEPT ![m] = "over"]
    /\ UNCHANGED author
    /\ Enqueue(m)

(* The online signal flips: window events, the SSE stream, request outcomes
   elsewhere in the app.  The up edge starts a forced drain. *)
GoOffline ==
    /\ online
    /\ online' = FALSE
    /\ UNCHANGED <<session, owner, items, kv, author, live, drain, rerun, log>>

GoOnline ==
    /\ ~online
    /\ online' = TRUE
    /\ UNCHANGED <<session, owner, author, live, log>>
    /\ IF owner = NoUser THEN UNCHANGED <<items, drain, rerun>>
                         ELSE StartDrain(items, TRUE, TRUE)
    /\ WriteThrough

(* The retry interval, the catch-up after mount, the SSE up edge. *)
Tick ==
    /\ owner # NoUser
    /\ UNCHANGED <<session, owner, online, author, live, log>>
    /\ StartDrain(items, TRUE, TRUE)
    /\ WriteThrough

(* The retry tap on a failed bubble: queued again, and nothing is started. *)
Retry(m) ==
    /\ session # NoUser /\ owner = session
    /\ items[m].st = "failed"
    /\ items' = WithStatus(items, m, "queued")
    /\ UNCHANGED <<session, owner, online, author, live, drain, rerun, log>>
    /\ WriteThrough

(* The server takes the entry the drain is sending, under the session the
   drain holds. *)
DrainCommit ==
    /\ drain.on
    /\ ~drain.sent
    /\ drain' = [drain EXCEPT !.sent = TRUE]
    /\ Append(drain.cur, drain.sess)
    /\ UNCHANGED <<session, owner, items, kv, online, author, live, rerun>>

(* sendQueued resolves: the device is reachable, and if that is news the up
   edge asks for another round; the entry is removed and the loop goes on. *)
DrainAck ==
    /\ drain.on
    /\ drain.sent
    /\ online' = TRUE
    /\ UNCHANGED <<session, owner, author, live, log>>
    /\ LET edge == ~online /\ owner # NoUser /\ session # NoUser
       IN  Proceed(Removed(items, drain.cur), drain, rerun \/ edge)
    /\ WriteThrough

(* sendQueued rejects: the failure counts only while believed online. *)
DrainFail ==
    /\ drain.on
    /\ ~drain.sent \/ LostAcks
    /\ UNCHANGED <<session, owner, online, author, live, log>>
    /\ Proceed(IF online THEN RecordFailure(items, drain.cur)
                         ELSE WithStatus(items, drain.cur, "queued"),
               drain, rerun)
    /\ WriteThrough

(* The app dies: memory is gone, and with it the messages whose live send was
   still awaited. *)
Crash ==
    /\ Crashes
    /\ session' = NoUser
    /\ owner' = NoUser
    /\ items' = Empty
    /\ online' \in BOOLEAN
    /\ live' = [m \in Msgs |-> IF Awaiting(m) THEN "cut" ELSE live[m]]
    /\ drain' = Idle
    /\ rerun' = FALSE
    /\ UNCHANGED <<kv, author, log>>

Next ==
    \/ \E u \in Users \cup {NoUser} : SetSession(u)
    \/ ClearOnSignOut
    \/ HydrateOnSignIn
    \/ \E m \in Msgs : \/ SendOffline(m) \/ SendOnline(m)
                      \/ LiveCommit(m) \/ LiveAck(m) \/ LiveFail(m)
                      \/ Retry(m)
    \/ GoOffline
    \/ GoOnline
    \/ Tick
    \/ DrainCommit
    \/ DrainAck
    \/ DrainFail
    \/ Crash

Spec == Init /\ [][Next]_vars

(* Effects run, the interval keeps firing, and a server that is asked again
   and again sooner or later takes each message and its response arrives. *)
Fairness ==
    /\ WF_vars(ClearOnSignOut \/ HydrateOnSignIn)
    /\ WF_vars(Tick)
    /\ \A m \in Msgs : /\ SF_vars(drain.cur = m /\ DrainCommit)
                       /\ SF_vars(drain.cur = m /\ DrainAck)

FairSpec == Spec /\ Fairness

----------------------------------------------------------------------------

TypeOK ==
    /\ session \in Users \cup {NoUser}
    /\ owner \in Users \cup {NoUser}
    /\ items \in [Msgs -> Entries]
    /\ kv \in [Users -> [Msgs -> Entries]]
    /\ online \in BOOLEAN
    /\ author \in [Msgs -> Users \cup {NoUser}]
    /\ live \in [Msgs -> {"unsent", "pending", "committed", "over", "cut"}]
    /\ drain \in Drains
    /\ rerun \in BOOLEAN
    /\ log \in [Msgs -> [Users -> 0..2]]

InQueue(m, u) == kv[u][m].st # "none"

Logged(m, u) == log[m][u] > 0

(* An entry that reads "sending" is in flight right now.  No claim can take
   such an entry and no snapshot includes it, so one that no request stands
   behind (after a crash, an account switch and back, a lost response) would
   never be sent again. *)
SendingIsInFlight ==
    \A m \in Msgs : items[m].st = "sending" => drain.on /\ drain.cur = m

(* "The message is never silently dropped" (use-room-send.ts:44): once
   sendText is over, the message is in the server's log under its author or
   in the persisted queue of its author. *)
NeverDropped ==
    \A m \in Msgs :
        live[m] = "over" => Logged(m, author[m]) \/ InQueue(m, author[m])

(* "NEVER flushes a queue under the wrong identity" (outbox-context.tsx:21):
   whatever reached the server was appended by the account that wrote it. *)
FlushedAsAuthor ==
    \A m \in Msgs, u \in Users : Logged(m, u) => u = author[m]

(* "The same id is never sent twice" (outbox-context.tsx:17): the server's log
   holds every message at most once. *)
SentOnce ==
    \A m \in Msgs, u, v \in Users :
        Logged(m, u) /\ Logged(m, v) => u = v /\ log[m][u] = 1

(* "A trigger arriving mid-drain is not dropped" (outbox-context.tsx:49): a
   drain that was asked to run again stops only when no queued entry of the
   signed-in account is left that it may send. *)
NoTriggerDropped ==
    [][ drain.on /\ ~drain'.on /\ rerun /\ session' # NoUser /\ owner' = session' =>
          \A m \in Msgs : items'[m].st = "queued" => ~(drain.force \/ online') ]_vars

(* "Sent when you reconnect" (outbox-context.tsx:6): as long as the user stays
   signed in, every message of the account's queue, parked failures included,
   is sooner or later in the server's log and out of the queue. *)
SentEventually ==
    \A u \in Users :
        <>[](session = u)
            => \A m \in Msgs : InQueue(m, u) ~> (Logged(m, u) /\ ~InQueue(m, u))

(* The outbox implements the durable queue it promises: what is owed is what
   the kv store holds, what is posted is what the log holds. *)
Queue == INSTANCE DurableQueue WITH
    pending <- [u \in Users |-> {m \in Msgs : InQueue(m, u)}],
    posted  <- {mu \in Msgs \X Users : Logged(mu[1], mu[2])}

ImplementsDurableQueue == Queue!Spec
=============================================================================
