---------------------------- MODULE OutboxProofs ----------------------------
(***************************************************************************)
(* Proofs about the outbox, for every set of accounts and of messages,     *)
(* every MaxAttempts and every choice of the hazards: what it keeps        *)
(* whatever happens, that it implements the durable queue it promises,     *)
(* what it guarantees about identity and loss as long as the account does  *)
(* not change while a live send is awaited, and exactly-once delivery      *)
(* until an acknowledgement is lost or the account changes under a running *)
(* drain.  TLC shows that these hypotheses are needed: see the README.     *)
(***************************************************************************)
EXTENDS OutboxWatched, TLAPS

QueueTypes == [Msgs -> Entries]

(* Two queues hold the same messages. *)
SameMessages(p, q) == \A m \in Msgs : p[m].st = "none" <=> q[m].st = "none"

----------------------------------------------------------------------------
(* The reducers: types, and the messages they keep. *)

LEMMA EmptyType == Empty \in QueueTypes /\ \A m \in Msgs : Empty[m].st = "none"
  BY ConstantsOK DEF Empty, NoEntry, Entries, Statuses, QueueTypes

LEMMA ResetFacts ==
  ASSUME NEW q \in QueueTypes
  PROVE  /\ ResetSendingToQueued(q) \in QueueTypes
         /\ SameMessages(ResetSendingToQueued(q), q)
         /\ \A m \in Msgs : ResetSendingToQueued(q)[m].st # "sending"
  BY DEF ResetSendingToQueued, QueueTypes, Entries, Statuses, SameMessages

LEMMA EnqueuedFacts ==
  ASSUME NEW q \in QueueTypes, NEW m \in Msgs
  PROVE  /\ Enqueued(q, m) \in QueueTypes
         /\ Enqueued(q, m)[m].st = "queued"
         /\ \A k \in Msgs \ {m} : Enqueued(q, m)[k] = q[k]
  BY ConstantsOK DEF Enqueued, QueueTypes, Entries, Statuses

LEMMA RemovedFacts ==
  ASSUME NEW q \in QueueTypes, NEW m \in Msgs
  PROVE  /\ Removed(q, m) \in QueueTypes
         /\ Removed(q, m)[m].st = "none"
         /\ \A k \in Msgs \ {m} : Removed(q, m)[k] = q[k]
  BY ConstantsOK DEF Removed, NoEntry, QueueTypes, Entries, Statuses

LEMMA WithStatusFacts ==
  ASSUME NEW q \in QueueTypes, NEW m \in Msgs, NEW s \in Statuses \ {"none"}
  PROVE  /\ WithStatus(q, m, s) \in QueueTypes
         /\ SameMessages(WithStatus(q, m, s), q)
         /\ WithStatus(q, m, s)[m].st \in {"none", s}
         /\ \A k \in Msgs \ {m} : WithStatus(q, m, s)[k] = q[k]
  BY DEF WithStatus, QueueTypes, Entries, Statuses, SameMessages

LEMMA RecordFailureFacts ==
  ASSUME NEW q \in QueueTypes, NEW m \in Msgs
  PROVE  /\ RecordFailure(q, m) \in QueueTypes
         /\ SameMessages(RecordFailure(q, m), q)
         /\ RecordFailure(q, m)[m].st # "sending"
         /\ \A k \in Msgs \ {m} : RecordFailure(q, m)[k] = q[k]
<1> DEFINE n == IF q[m].n < MaxAttempts THEN q[m].n + 1 ELSE MaxAttempts
           e == [st |-> IF n >= MaxAttempts THEN "failed" ELSE "queued", n |-> n]
<1>1. q[m] \in Entries
  BY DEF QueueTypes
<1>2. n \in 0..MaxAttempts
  BY <1>1, ConstantsOK DEF Entries
<1>3. e \in Entries /\ e.st \in {"queued", "failed"}
  BY <1>2 DEF Entries, Statuses
<1>4. RecordFailure(q, m) = IF q[m].st = "none" THEN q ELSE [q EXCEPT ![m] = e]
  BY DEF RecordFailure
<1> HIDE DEF e
<1> QED
  BY <1>1, <1>3, <1>4 DEF QueueTypes, SameMessages

----------------------------------------------------------------------------
(* What the synchronous part of the drain does to a queue q: it stops and
   leaves q alone, or it claims one entry of q for the account the store
   belongs to. *)

Stops(q) == drain' = Idle /\ items' = q

Claims(q) ==
    /\ drain' \in Drains
    /\ drain'.on /\ ~drain'.sent
    /\ drain'.cur \in Msgs
    /\ owner' \in Users /\ drain'.sess = owner'
    /\ q[drain'.cur].st \in {"queued", "failed"}
    /\ items' = WithStatus(q, drain'.cur, "sending")

LEMMA IdleFacts == Idle \in Drains /\ ~Idle.on /\ Idle.todo = {}
  BY DEF Idle, Drains

LEMMA ClaimFacts ==
  ASSUME NEW q \in QueueTypes, NEW d \in Drains, d.on,
         d.todo = {} \/ d.sess \in Users,
         NEW m \in Claimable(q, d), Claim(q, d, m)
  PROVE  Claims(q)
<1>1. m \in d.todo /\ owner' = d.sess /\ q[m].st \in {"queued", "failed"}
  BY DEF Claimable
<1>2. m \in Msgs /\ d.sess \in Users
  BY <1>1 DEF Drains
<1>3. drain' = [d EXCEPT !.todo = @ \ {m}, !.cur = m, !.sent = FALSE]
  BY DEF Claim
<1>4. drain' \in Drains /\ drain'.on /\ ~drain'.sent /\ drain'.cur = m /\ drain'.sess = d.sess
  BY <1>2, <1>3 DEF Drains
<1> QED
  BY <1>1, <1>2, <1>4 DEF Claims, Claim

LEMMA RoundFacts ==
  ASSUME session \in Users \cup {NoUser}, NEW q, NEW d \in Drains
  PROVE  /\ Round(q, d) \in Drains
         /\ Round(q, d).on = d.on
         /\ Round(q, d).force = d.force
         /\ Round(q, d).sess = session
         /\ Round(q, d).todo = {} \/ (session \in Users /\ owner' = session)
<1> DEFINE T == IF session # NoUser /\ owner' = session
                THEN {m \in Msgs : q[m].st = "queued" \/ (d.failed /\ q[m].st = "failed")}
                ELSE {}
<1>1. T \in SUBSET Msgs /\ (T = {} \/ (session \in Users /\ owner' = session))
  OBVIOUS
<1>2. Round(q, d) = [d EXCEPT !.sess = session, !.todo = T]
  BY DEF Round
<1> HIDE DEF T
<1>3. /\ Round(q, d).on = d.on
      /\ Round(q, d).force = d.force
      /\ Round(q, d).sess = session
      /\ Round(q, d).todo = T
  BY <1>2 DEF Drains
<1>4. Round(q, d) \in Drains
  BY <1>1, <1>2 DEF Drains
<1> QED
  BY <1>1, <1>3, <1>4

LEMMA ProceedFacts ==
  ASSUME session \in Users \cup {NoUser},
         NEW q \in QueueTypes, NEW d \in Drains, d.on,
         d.todo = {} \/ d.sess \in Users,
         NEW again \in BOOLEAN, Proceed(q, d, again)
  PROVE  /\ rerun' \in BOOLEAN
         /\ Stops(q) \/ Claims(q)
<1>1. CASE (\E m \in Claimable(q, d) : Claim(q, d, m)) /\ rerun' = again
  BY <1>1, ClaimFacts
<1>2. CASE /\ \E m \in Claimable(q, Round(q, d)) : Claim(q, Round(q, d), m)
           /\ rerun' = FALSE
  <2>1. /\ Round(q, d) \in Drains /\ Round(q, d).on
        /\ Round(q, d).todo = {} \/ Round(q, d).sess \in Users
    BY RoundFacts
  <2> QED
    BY <1>2, <2>1, ClaimFacts
<1>3. CASE items' = q /\ drain' = Idle /\ rerun' = FALSE
  BY <1>3 DEF Stops
<1> QED
  BY <1>1, <1>2, <1>3 DEF Proceed

LEMMA StartDrainFacts ==
  ASSUME session \in Users \cup {NoUser}, rerun \in BOOLEAN, drain.on \/ drain = Idle,
         NEW q \in QueueTypes, NEW force \in BOOLEAN, NEW failed \in BOOLEAN,
         StartDrain(q, force, failed)
  PROVE  /\ rerun' \in BOOLEAN
         /\ \/ items' = q /\ drain' = drain
            \/ ~drain.on /\ session = owner' /\ Claims(q)
<1> DEFINE d == [Idle EXCEPT !.on = TRUE, !.force = force, !.failed = failed]
<1>1. d \in Drains /\ d.on /\ d.todo = {}
  BY DEF Idle, Drains
<1>2. CASE items' = q /\ UNCHANGED <<drain, rerun>>
  BY <1>2
<1>3. CASE drain.on /\ items' = q /\ rerun' = TRUE /\ UNCHANGED drain
  BY <1>3
<1>4. CASE ~drain.on /\ Proceed(q, d, TRUE)
  <2> HIDE DEF d
  <2>1. rerun' \in BOOLEAN /\ (Stops(q) \/ Claims(q))
    BY <1>1, <1>4, ProceedFacts
  <2>2. CASE Stops(q)
    BY <1>4, <2>1, <2>2 DEF Stops
  <2>3. CASE Claims(q)
    <3>0. drain' # Idle
      BY <2>3, IdleFacts DEF Claims
    <3>1. Claimable(q, d) = {}
      BY <1>1 DEF Claimable
    <3>2. PICK m \in Claimable(q, Round(q, d)) : Claim(q, Round(q, d), m)
      BY <1>4, <3>0, <3>1 DEF Proceed
    <3>3. m \in Round(q, d).todo
      BY DEF Claimable
    <3>4. session = owner'
      BY <1>1, <3>3, RoundFacts
    <3> QED
      BY <1>4, <2>1, <2>3, <3>4
  <2> QED
    BY <2>1, <2>2, <2>3
<1> QED
  BY <1>2, <1>3, <1>4 DEF StartDrain

----------------------------------------------------------------------------
(* The inductive invariant. *)

(* What is in memory is what is persisted, while an account is loaded. *)
Mirror == owner # NoUser => kv[owner] = items

(* The drain holds an entry of the account it holds, and a sent entry is in
   the log. *)
DrainOK ==
    \/ drain = Idle
    \/ /\ drain \in Drains /\ drain.on
       /\ drain.cur \in Msgs /\ drain.sess \in Users
       /\ InQueue(drain.cur, drain.sess)
       /\ drain.sent => Logged(drain.cur, drain.sess)

(* No message is in two queues, and none is before sendText is over. *)
OneQueue == \A m \in Msgs, u, v \in Users : InQueue(m, u) /\ InQueue(m, v) => u = v
NotQueuedYet == \A m \in Msgs, u \in Users : live[m] # "over" => ~InQueue(m, u)

HasAuthor == \A m \in Msgs : live[m] # "unsent" => author[m] \in Users

IInv ==
    /\ TypeOK
    /\ Mirror
    /\ DrainOK
    /\ SendingIsInFlight
    /\ OneQueue
    /\ NotQueuedYet
    /\ HasAuthor

(* Only the entry in flight may read "sending" in the queue a turn works on. *)
OnlyCurSends(q) == \A m \in Msgs : q[m].st = "sending" => drain.on /\ drain.cur = m

(* Which messages each account is owed after a turn that leaves q in the
   store: q's for the account the store belongs to. *)
Owed(q) ==
    \A m \in Msgs, u \in Users :
        InQueue(m, u)' <=> IF u = owner' THEN q[m].st # "none" ELSE InQueue(m, u)

LEMMA WriteThroughFacts ==
  ASSUME kv \in [Users -> QueueTypes], owner' \in Users \cup {NoUser},
         items' \in QueueTypes, WriteThrough,
         NEW q, SameMessages(items', q)
  PROVE  /\ kv' \in [Users -> QueueTypes]
         /\ Mirror'
         /\ Owed(q)
<1>1. CASE owner' = NoUser
  BY <1>1, ConstantsOK DEF WriteThrough, Mirror, Owed, InQueue
<1>2. CASE owner' \in Users
  <2>1. kv' = [kv EXCEPT ![owner'] = items'] /\ owner' # NoUser
    BY <1>2, ConstantsOK DEF WriteThrough
  <2> QED
    BY <1>2, <2>1 DEF Mirror, Owed, InQueue, SameMessages
<1> QED
  BY <1>1, <1>2

LEMMA ClaimsFacts ==
  ASSUME NEW q \in QueueTypes, Claims(q),
         \A m \in Msgs : q[m].st # "sending"
  PROVE  /\ items' \in QueueTypes
         /\ SameMessages(items', q)
         /\ items'[drain'.cur].st = "sending"
         /\ \A m \in Msgs : items'[m].st = "sending" => m = drain'.cur
<1>1. drain'.cur \in Msgs /\ q[drain'.cur].st # "none"
  BY DEF Claims
<1>2. items' = WithStatus(q, drain'.cur, "sending") /\ "sending" \in Statuses \ {"none"}
  BY DEF Claims, Statuses
<1> DEFINE c == drain'.cur
<1> HIDE DEF c
<1>3. c \in Msgs /\ q[c].st # "none" /\ items' = WithStatus(q, c, "sending")
  BY <1>1, <1>2 DEF c
<1>4. /\ items' \in QueueTypes
      /\ SameMessages(items', q)
      /\ items'[c].st \in {"none", "sending"}
      /\ \A k \in Msgs \ {c} : items'[k] = q[k]
  BY <1>2, <1>3, WithStatusFacts
<1>5. items'[c].st = "sending"
  BY <1>3, <1>4 DEF SameMessages
<1> QED
  BY <1>4, <1>5 DEF c

(* The store, the kv and the drain after a turn. *)
StoreOK ==
    /\ items' \in QueueTypes
    /\ kv' \in [Users -> QueueTypes]
    /\ drain' \in Drains
    /\ rerun' \in BOOLEAN
    /\ Mirror'
    /\ DrainOK'
    /\ SendingIsInFlight'

TurnOK(q) == StoreOK /\ Owed(q)

LEMMA ClaimTurn ==
  ASSUME kv \in [Users -> QueueTypes], owner' \in Users \cup {NoUser},
         NEW q \in QueueTypes, \A m \in Msgs : q[m].st # "sending",
         Claims(q), rerun' \in BOOLEAN, WriteThrough
  PROVE  TurnOK(q)
<1>1. /\ items' \in QueueTypes
      /\ SameMessages(items', q)
      /\ items'[drain'.cur].st = "sending"
      /\ \A m \in Msgs : items'[m].st = "sending" => m = drain'.cur
  BY ClaimsFacts
<1>2. kv' \in [Users -> QueueTypes] /\ Mirror' /\ Owed(q)
  BY <1>1, WriteThroughFacts
<1>3. /\ drain' \in Drains /\ drain'.on /\ ~drain'.sent
      /\ drain'.cur \in Msgs
      /\ owner' \in Users /\ drain'.sess = owner'
  BY DEF Claims
<1>4. SendingIsInFlight'
  BY <1>1, <1>3 DEF SendingIsInFlight
<1>5. InQueue(drain.cur, owner)'
  <2>1. q[drain'.cur].st # "none"
    BY <1>1, <1>3 DEF SameMessages
  <2> QED
    BY <1>2, <1>3, <2>1 DEF Owed, InQueue
<1>6. DrainOK'
  BY <1>3, <1>5 DEF DrainOK, InQueue
<1> QED
  BY <1>1, <1>2, <1>3, <1>4, <1>6 DEF TurnOK, StoreOK

LEMMA QuietTurn ==
  ASSUME DrainOK, kv \in [Users -> QueueTypes], owner' \in Users \cup {NoUser}, log' = log,
         NEW q \in QueueTypes, OnlyCurSends(q),
         \A m \in Msgs, u \in Users : u = owner' /\ InQueue(m, u) => q[m].st # "none",
         items' = q, drain' = drain, rerun' \in BOOLEAN, WriteThrough
  PROVE  TurnOK(q)
<1>1. SameMessages(items', q)
  BY DEF SameMessages
<1>2. kv' \in [Users -> QueueTypes] /\ Mirror' /\ Owed(q)
  BY <1>1, WriteThroughFacts
<1>3. SendingIsInFlight'
  BY DEF SendingIsInFlight, OnlyCurSends
<1>4. drain' \in Drains
  BY IdleFacts DEF DrainOK
<1>5. DrainOK'
  <2>1. CASE drain = Idle
    BY <2>1 DEF DrainOK, Idle
  <2>2. CASE drain # Idle
    <3>1. /\ drain \in Drains /\ drain.on
          /\ drain.cur \in Msgs /\ drain.sess \in Users
          /\ InQueue(drain.cur, drain.sess)
          /\ drain.sent => Logged(drain.cur, drain.sess)
      BY <2>2 DEF DrainOK
    <3>2. InQueue(drain.cur, drain.sess)'
      BY <1>2, <3>1 DEF Owed, InQueue
    <3> QED
      BY <3>1, <3>2 DEF DrainOK, Logged, InQueue
  <2> QED
    BY <2>1, <2>2
<1> QED
  BY <1>2, <1>3, <1>4, <1>5 DEF TurnOK, StoreOK

LEMMA TriggerTurn ==
  ASSUME session \in Users \cup {NoUser}, rerun \in BOOLEAN, DrainOK,
         kv \in [Users -> QueueTypes], owner' \in Users \cup {NoUser}, log' = log,
         NEW q \in QueueTypes, OnlyCurSends(q),
         \A m \in Msgs, u \in Users : u = owner' /\ InQueue(m, u) => q[m].st # "none",
         NEW force \in BOOLEAN, NEW failed \in BOOLEAN,
         StartDrain(q, force, failed), WriteThrough
  PROVE  TurnOK(q)
<1>1. drain.on \/ drain = Idle
  BY DEF DrainOK
<1>2. /\ rerun' \in BOOLEAN
      /\ \/ items' = q /\ drain' = drain
         \/ ~drain.on /\ Claims(q)
  BY <1>1, StartDrainFacts
<1>3. CASE items' = q /\ drain' = drain
  BY <1>2, <1>3, QuietTurn
<1>4. CASE ~drain.on /\ Claims(q)
  BY <1>2, <1>4, ClaimTurn DEF OnlyCurSends
<1> QED
  BY <1>2, <1>3, <1>4

LEMMA LoopTurn ==
  ASSUME session \in Users \cup {NoUser}, DrainOK, drain.on,
         kv \in [Users -> QueueTypes], owner' \in Users \cup {NoUser},
         NEW q \in QueueTypes, \A m \in Msgs : q[m].st # "sending",
         NEW again \in BOOLEAN,
         Proceed(q, drain, again), WriteThrough
  PROVE  TurnOK(q)
<1>1. drain \in Drains /\ drain.sess \in Users
  BY IdleFacts DEF DrainOK
<1>2. rerun' \in BOOLEAN /\ (Stops(q) \/ Claims(q))
  BY <1>1, ProceedFacts
<1>3. CASE Stops(q)
  <2>1. items' = q /\ drain' = Idle /\ SameMessages(items', q)
    BY <1>3 DEF Stops, SameMessages
  <2>2. kv' \in [Users -> QueueTypes] /\ Mirror' /\ Owed(q)
    BY <2>1, WriteThroughFacts
  <2>3. SendingIsInFlight' /\ DrainOK'
    BY <2>1 DEF SendingIsInFlight, DrainOK, Idle
  <2> QED
    BY <1>2, <2>1, <2>2, <2>3, IdleFacts DEF TurnOK, StoreOK
<1>4. CASE Claims(q)
  BY <1>2, <1>4, ClaimTurn
<1> QED
  BY <1>2, <1>3, <1>4

----------------------------------------------------------------------------
(* What one step of each kind that touches the store does to the queues. *)

LEMMA InvParts ==
  ASSUME IInv
  PROVE  /\ session \in Users \cup {NoUser} /\ owner \in Users \cup {NoUser}
         /\ items \in QueueTypes /\ kv \in [Users -> QueueTypes]
         /\ rerun \in BOOLEAN /\ OnlyCurSends(items) /\ DrainOK
         /\ \A m \in Msgs, u \in Users : u = owner => (InQueue(m, u) <=> items[m].st # "none")
  BY ConstantsOK DEF IInv, TypeOK, QueueTypes, OnlyCurSends, SendingIsInFlight, Mirror, InQueue

Unchanged == \A m \in Msgs, u \in Users : InQueue(m, u)' <=> InQueue(m, u)

Joins(k) == \A m \in Msgs, u \in Users :
               InQueue(m, u)' <=> InQueue(m, u) \/ (m = k /\ u = owner)

Leaves(k) == \A m \in Msgs, u \in Users :
                InQueue(m, u)' <=> InQueue(m, u) /\ ~(m = k /\ u = owner)

LEMMA SameQueue ==
  ASSUME IInv, UNCHANGED owner, NEW q, SameMessages(q, items), TurnOK(q)
  PROVE  Unchanged
  BY InvParts DEF TurnOK, Owed, SameMessages, Unchanged

LEMMA HydrateStep ==
  ASSUME IInv, HydrateOnSignIn
  PROVE  StoreOK /\ Unchanged
<1> DEFINE q == ResetSendingToQueued(kv[session])
<1>1. /\ session \in Users /\ owner' = session /\ kv[session] \in QueueTypes
      /\ UNCHANGED <<session, online, author, live, log>>
      /\ StartDrain(q, TRUE, TRUE) /\ WriteThrough
  BY InvParts DEF HydrateOnSignIn
<1>2. /\ q \in QueueTypes
      /\ SameMessages(q, kv[session])
      /\ \A m \in Msgs : q[m].st # "sending"
  BY <1>1, ResetFacts
<1> HIDE DEF q
<1>3. TurnOK(q)
  <2>1. \A m \in Msgs, u \in Users : u = owner' /\ InQueue(m, u) => q[m].st # "none"
    BY <1>1, <1>2 DEF InQueue, SameMessages
  <2> QED
    BY <1>1, <1>2, <2>1, InvParts, TriggerTurn DEF OnlyCurSends
<1>4. ASSUME NEW m \in Msgs, NEW u \in Users
      PROVE  InQueue(m, u)' <=> InQueue(m, u)
  <2>1. CASE u = session
    <3>1. InQueue(m, u)' <=> q[m].st # "none"
      BY <1>1, <1>3, <2>1 DEF TurnOK, Owed
    <3> QED
      BY <1>2, <2>1, <3>1 DEF InQueue, SameMessages
  <2>2. CASE u # session
    BY <1>1, <1>3, <2>2 DEF TurnOK, Owed
  <2> QED
    BY <2>1, <2>2
<1> QED
  BY <1>3, <1>4 DEF TurnOK, Unchanged

LEMMA EnqueueStep ==
  ASSUME IInv, NEW m \in Msgs, Enqueue(m)
  PROVE  StoreOK /\ Joins(m)
<1> DEFINE q == Enqueued(items, m)
<1>1. q \in QueueTypes /\ q[m].st = "queued" /\ \A k \in Msgs \ {m} : q[k] = items[k]
  BY InvParts, EnqueuedFacts
<1>2. UNCHANGED <<session, owner, online, log>> /\ WriteThrough
  BY DEF Enqueue
<1> HIDE DEF q
<1>3. OnlyCurSends(q)
  BY <1>1, InvParts DEF OnlyCurSends
<1>4. \A k \in Msgs, u \in Users : u = owner' /\ InQueue(k, u) => q[k].st # "none"
  BY <1>1, <1>2, InvParts
<1>5. TurnOK(q)
  <2>1. CASE owner = NoUser
    BY <1>1, <1>2, <1>3, <1>4, <2>1, InvParts, QuietTurn DEF Enqueue, q
  <2>2. CASE owner # NoUser
    <3>1. StartDrain(q, FALSE, FALSE)
      BY <2>2 DEF Enqueue, q
    <3> QED
      BY <1>1, <1>2, <1>3, <1>4, <3>1, InvParts, TriggerTurn
  <2> QED
    BY <2>1, <2>2
<1> QED
  BY <1>1, <1>2, <1>5, InvParts DEF TurnOK, Owed, Joins

LEMMA RetryStep ==
  ASSUME IInv, NEW m \in Msgs, Retry(m)
  PROVE  StoreOK /\ Unchanged
<1> DEFINE q == WithStatus(items, m, "queued")
<1>1. /\ q \in QueueTypes /\ SameMessages(q, items)
      /\ q[m].st \in {"none", "queued"}
      /\ \A k \in Msgs \ {m} : q[k] = items[k]
  BY InvParts, WithStatusFacts DEF Statuses
<1>2. /\ items' = q /\ WriteThrough
      /\ UNCHANGED <<session, owner, online, author, live, drain, rerun, log>>
  BY DEF Retry
<1> HIDE DEF q
<1>3. OnlyCurSends(q)
  BY <1>1, InvParts DEF OnlyCurSends
<1>4. \A k \in Msgs, u \in Users : u = owner' /\ InQueue(k, u) => q[k].st # "none"
  BY <1>1, <1>2, InvParts DEF SameMessages
<1>5. TurnOK(q)
  BY <1>1, <1>2, <1>3, <1>4, InvParts, QuietTurn
<1> QED
  BY <1>1, <1>2, <1>5, SameQueue DEF TurnOK

(* GoOnline and Tick: a trigger on the queue as it is. *)
LEMMA TriggerStep ==
  ASSUME IInv, GoOnline \/ Tick
  PROVE  StoreOK /\ Unchanged
<1>1. /\ UNCHANGED <<session, owner, log>> /\ WriteThrough
      /\ \/ items' = items /\ UNCHANGED <<drain, rerun>>
         \/ StartDrain(items, TRUE, TRUE)
  BY DEF GoOnline, Tick
<1>2. \A k \in Msgs, u \in Users : u = owner' /\ InQueue(k, u) => items[k].st # "none"
  BY <1>1, InvParts
<1>3. TurnOK(items)
  BY <1>1, <1>2, InvParts, QuietTurn, TriggerTurn
<1>4. SameMessages(items, items)
  BY DEF SameMessages
<1> QED
  BY <1>1, <1>3, <1>4, SameQueue DEF TurnOK

LEMMA AckStep ==
  ASSUME IInv, DrainAck
  PROVE  /\ drain.on /\ drain.cur \in Msgs
         /\ StoreOK
         /\ Leaves(drain.cur)
<1> DEFINE q == Removed(items, drain.cur)
<1>1. drain.on /\ drain.cur \in Msgs
  BY InvParts, IdleFacts DEF DrainAck, DrainOK
<1>2. PICK again \in BOOLEAN :
        /\ Proceed(q, drain, again) /\ WriteThrough /\ online' = TRUE
        /\ UNCHANGED <<session, owner, author, live, log>>
  BY InvParts DEF DrainAck
<1>3. /\ q \in QueueTypes /\ q[drain.cur].st = "none"
      /\ \A k \in Msgs \ {drain.cur} : q[k] = items[k]
  BY <1>1, InvParts, RemovedFacts
<1> HIDE DEF q
<1>4. \A k \in Msgs : q[k].st # "sending"
  BY <1>3, InvParts DEF OnlyCurSends
<1>5. TurnOK(q)
  BY <1>1, <1>2, <1>3, <1>4, InvParts, LoopTurn
<1> QED
  BY <1>1, <1>2, <1>3, <1>5, InvParts DEF TurnOK, Owed, Leaves

LEMMA FailStep ==
  ASSUME IInv, DrainFail
  PROVE  StoreOK /\ Unchanged
<1> DEFINE q == IF online THEN RecordFailure(items, drain.cur)
                          ELSE WithStatus(items, drain.cur, "queued")
<1>1. drain.on /\ drain.cur \in Msgs
  BY InvParts, IdleFacts DEF DrainFail, DrainOK
<1>2. /\ Proceed(q, drain, rerun) /\ WriteThrough
      /\ UNCHANGED <<session, owner, online, author, live, log>>
  BY DEF DrainFail
<1>3. /\ q \in QueueTypes /\ SameMessages(q, items) /\ q[drain.cur].st # "sending"
      /\ \A k \in Msgs \ {drain.cur} : q[k] = items[k]
  <2>1. CASE online
    BY <1>1, <2>1, InvParts, RecordFailureFacts
  <2>2. CASE ~online
    BY <1>1, <2>2, InvParts, WithStatusFacts DEF Statuses
  <2> QED
    BY <2>1, <2>2
<1> HIDE DEF q
<1>4. \A k \in Msgs : q[k].st # "sending"
  BY <1>3, InvParts DEF OnlyCurSends
<1>5. TurnOK(q)
  BY <1>1, <1>2, <1>3, <1>4, InvParts, LoopTurn
<1> QED
  BY <1>2, <1>3, <1>5, SameQueue DEF TurnOK

(* The server's log grows by one entry. *)
LEMMA AppendFacts ==
  ASSUME TypeOK, NEW m \in Msgs, NEW u \in Users, Append(m, u)
  PROVE  /\ log' \in [Msgs -> [Users -> 0..2]]
         /\ \A k \in Msgs, v \in Users :
               Logged(k, v)' <=> Logged(k, v) \/ (k = m /\ v = u)
         /\ \A k \in Msgs, v \in Users : k # m \/ v # u => log'[k][v] = log[k][v]
         /\ log[m][u] = 0 => log'[m][u] = 1
<1> DEFINE n == IF log[m][u] < 2 THEN log[m][u] + 1 ELSE 2
<1>1. log \in [Msgs -> [Users -> 0..2]]
  BY DEF TypeOK
<1>2. n \in 1..2 /\ (log[m][u] = 0 => n = 1)
  BY <1>1
<1>3. log' = [log EXCEPT ![m][u] = n]
  BY DEF Append
<1> HIDE DEF n
<1> QED
  BY <1>1, <1>2, <1>3 DEF Logged

----------------------------------------------------------------------------
(* Every step preserves the invariant. *)

LEMMA InitInv == Init => IInv
<1> SUFFICES ASSUME Init PROVE IInv
  OBVIOUS
<1>1. Empty \in QueueTypes /\ \A m \in Msgs : Empty[m].st = "none"
  BY EmptyType
<1>2. TypeOK
  <2>1. kv \in [Users -> QueueTypes] /\ items \in QueueTypes
    BY <1>1 DEF Init
  <2>2. log \in [Msgs -> [Users -> 0..2]]
    BY DEF Init
  <2>3. drain \in Drains
    BY IdleFacts DEF Init
  <2> QED
    BY <2>1, <2>2, <2>3 DEF Init, TypeOK, QueueTypes
<1>3. SendingIsInFlight /\ OneQueue /\ NotQueuedYet
  BY <1>1 DEF Init, SendingIsInFlight, OneQueue, NotQueuedYet, InQueue
<1> QED
  BY <1>2, <1>3 DEF Init, IInv, Mirror, DrainOK, HasAuthor

LEMMA NoNewMessage ==
  ASSUME IInv, StoreOK,
         \A m \in Msgs, u \in Users : InQueue(m, u)' => InQueue(m, u),
         session' \in Users \cup {NoUser}, owner' \in Users \cup {NoUser},
         online' \in BOOLEAN, UNCHANGED <<author, live, log>>
  PROVE  IInv'
<1>1. TypeOK'
  BY DEF IInv, StoreOK, TypeOK, QueueTypes
<1>2. OneQueue' /\ NotQueuedYet' /\ HasAuthor'
  BY DEF IInv, OneQueue, NotQueuedYet, HasAuthor, InQueue
<1> QED
  BY <1>1, <1>2 DEF IInv, StoreOK

LEMMA EnqueueInv ==
  ASSUME IInv, NEW m \in Msgs, live[m] # "over", Enqueue(m),
         live' = [live EXCEPT ![m] = "over"],
         author' \in [Msgs -> Users \cup {NoUser}], HasAuthor'
  PROVE  IInv'
<1>1. StoreOK /\ Joins(m)
  BY EnqueueStep
<1>2. \A u \in Users : ~InQueue(m, u)
  BY DEF IInv, NotQueuedYet
<1>3. live \in [Msgs -> {"unsent", "pending", "committed", "over", "cut"}]
  BY DEF IInv, TypeOK
<1>4. OneQueue'
  BY <1>1, <1>2 DEF IInv, OneQueue, InQueue, Joins
<1>5. NotQueuedYet'
  BY <1>1, <1>3 DEF IInv, NotQueuedYet, InQueue, Joins
<1>6. TypeOK'
  BY <1>1, <1>3 DEF IInv, StoreOK, TypeOK, QueueTypes, Enqueue
<1> QED
  BY <1>1, <1>4, <1>5, <1>6 DEF IInv, StoreOK

LEMMA NextInv == IInv /\ [Next]_vars => IInv'
<1> SUFFICES ASSUME IInv, [Next]_vars PROVE IInv'
  OBVIOUS
<1> USE DEF IInv
<1>1. ASSUME NEW u \in Users \cup {NoUser}, SetSession(u)
      PROVE  IInv'
  BY <1>1 DEF SetSession, TypeOK, Mirror, DrainOK, SendingIsInFlight, OneQueue,
              NotQueuedYet, HasAuthor, InQueue, Logged, Idle
<1>2. CASE ClearOnSignOut
  <2>1. Empty \in QueueTypes /\ \A m \in Msgs : Empty[m].st = "none"
    BY EmptyType
  <2>2. TypeOK' /\ Mirror' /\ SendingIsInFlight'
    BY <1>2, <2>1 DEF ClearOnSignOut, TypeOK, QueueTypes, Mirror, SendingIsInFlight
  <2> QED
    BY <1>2, <2>2 DEF ClearOnSignOut, DrainOK, OneQueue, NotQueuedYet, HasAuthor,
                      InQueue, Logged, Idle
<1>3. CASE HydrateOnSignIn
  BY <1>3, HydrateStep, NoNewMessage DEF HydrateOnSignIn, TypeOK, Unchanged
<1>4. ASSUME NEW m \in Msgs, SendOffline(m)
      PROVE  IInv'
  <2>1. /\ live[m] # "over" /\ session \in Users /\ Enqueue(m)
        /\ author' = [author EXCEPT ![m] = session]
        /\ live' = [live EXCEPT ![m] = "over"]
    BY <1>4 DEF SendOffline, TypeOK
  <2>2. author' \in [Msgs -> Users \cup {NoUser}] /\ HasAuthor'
    BY <2>1 DEF TypeOK, HasAuthor
  <2> QED
    BY <2>1, <2>2, EnqueueInv
<1>5. ASSUME NEW m \in Msgs, SendOnline(m)
      PROVE  IInv'
  BY <1>5 DEF SendOnline, TypeOK, Mirror, DrainOK, SendingIsInFlight, OneQueue,
              NotQueuedYet, HasAuthor, InQueue, Logged, Idle
<1>6. ASSUME NEW m \in Msgs, LiveCommit(m)
      PROVE  IInv'
  <2>1. author[m] \in Users
    BY <1>6 DEF LiveCommit, HasAuthor
  <2>2. /\ log' \in [Msgs -> [Users -> 0..2]]
        /\ \A k \in Msgs, u \in Users : Logged(k, u) => Logged(k, u)'
    BY <1>6, <2>1, AppendFacts DEF LiveCommit
  <2>3. DrainOK'
    BY <1>6, <2>2 DEF LiveCommit, DrainOK, InQueue, Logged, Idle
  <2> QED
    BY <1>6, <2>2, <2>3 DEF LiveCommit, TypeOK, Mirror, SendingIsInFlight, OneQueue,
                            NotQueuedYet, HasAuthor, InQueue
<1>7. ASSUME NEW m \in Msgs, LiveAck(m)
      PROVE  IInv'
  BY <1>7 DEF LiveAck, TypeOK, Mirror, DrainOK, SendingIsInFlight, OneQueue,
              NotQueuedYet, HasAuthor, InQueue, Logged, Idle
<1>8. ASSUME NEW m \in Msgs, LiveFail(m)
      PROVE  IInv'
  <2>1. /\ live[m] \notin {"over", "unsent"} /\ Enqueue(m) /\ UNCHANGED author
        /\ live' = [live EXCEPT ![m] = "over"]
    BY <1>8 DEF LiveFail
  <2>2. author' \in [Msgs -> Users \cup {NoUser}] /\ HasAuthor'
    BY <2>1 DEF TypeOK, HasAuthor
  <2> QED
    BY <2>1, <2>2, EnqueueInv
<1>9. ASSUME NEW m \in Msgs, Retry(m)
      PROVE  IInv'
  BY <1>9, RetryStep, NoNewMessage DEF Retry, TypeOK, Unchanged
<1>10. CASE GoOffline
  BY <1>10 DEF GoOffline, TypeOK, Mirror, DrainOK, SendingIsInFlight, OneQueue,
               NotQueuedYet, HasAuthor, InQueue, Logged, Idle
<1>11. CASE GoOnline
  BY <1>11, TriggerStep, NoNewMessage DEF GoOnline, TypeOK, Unchanged
<1>12. CASE Tick
  BY <1>12, TriggerStep, NoNewMessage DEF Tick, TypeOK, Unchanged
<1>13. CASE DrainCommit
  <2>1. /\ drain \in Drains /\ drain.on
        /\ drain.cur \in Msgs /\ drain.sess \in Users
        /\ InQueue(drain.cur, drain.sess)
    BY <1>13 DEF DrainCommit, DrainOK, Idle
  <2>2. /\ drain' = [drain EXCEPT !.sent = TRUE]
        /\ UNCHANGED <<session, owner, items, kv, online, author, live, rerun>>
    BY <1>13 DEF DrainCommit
  <2>3. /\ drain' \in Drains /\ drain'.on
        /\ drain'.cur = drain.cur /\ drain'.sess = drain.sess
    BY <2>1, <2>2 DEF Drains
  <2>4. log' \in [Msgs -> [Users -> 0..2]] /\ Logged(drain.cur, drain.sess)'
    <3>1. Append(drain.cur, drain.sess)
      BY <1>13 DEF DrainCommit
    <3>2. /\ log' \in [Msgs -> [Users -> 0..2]]
          /\ \A k \in Msgs, v \in Users :
                k = drain.cur /\ v = drain.sess => log'[k][v] > 0
      BY <2>1, <3>1, AppendFacts DEF Logged
    <3> QED
      BY <2>1, <2>3, <3>2 DEF Logged
  <2>5. DrainOK'
    BY <2>1, <2>2, <2>3, <2>4 DEF DrainOK, InQueue
  <2> QED
    BY <2>2, <2>3, <2>4, <2>5 DEF TypeOK, Mirror, SendingIsInFlight, OneQueue,
                                  NotQueuedYet, HasAuthor, InQueue
<1>14. CASE DrainAck
  <2>1. StoreOK /\ \A m \in Msgs, u \in Users : InQueue(m, u)' => InQueue(m, u)
    BY <1>14, AckStep DEF Leaves
  <2> QED
    BY <1>14, <2>1, NoNewMessage DEF DrainAck, TypeOK
<1>15. CASE DrainFail
  BY <1>15, FailStep, NoNewMessage DEF DrainFail, TypeOK, Unchanged
<1>16. CASE Crash
  <2>1. Empty \in QueueTypes /\ \A m \in Msgs : Empty[m].st = "none"
    BY EmptyType
  <2>2. TypeOK' /\ SendingIsInFlight' /\ DrainOK' /\ Mirror'
    BY <1>16, <2>1, IdleFacts DEF Crash, TypeOK, QueueTypes, SendingIsInFlight, DrainOK, Mirror
  <2>3. OneQueue' /\ NotQueuedYet' /\ HasAuthor'
    BY <1>16 DEF Crash, Awaiting, OneQueue, NotQueuedYet, HasAuthor, InQueue, TypeOK
  <2> QED
    BY <2>2, <2>3
<1>17. CASE UNCHANGED vars
  BY <1>17 DEF vars, TypeOK, Mirror, DrainOK, SendingIsInFlight, OneQueue, NotQueuedYet,
               HasAuthor, InQueue, Logged, Idle
<1> QED
  BY <1>1, <1>2, <1>3, <1>4, <1>5, <1>6, <1>7, <1>8, <1>9, <1>10, <1>11, <1>12, <1>13,
     <1>14, <1>15, <1>16, <1>17 DEF Next

(* The inductive invariant holds in every reachable state. *)
THEOREM Invariant == Spec => []IInv
  BY InitInv, NextInv, PTL DEF Spec

(* Every variable keeps its type, in particular the persisted queues of every
   account (outbox.ts). *)
THEOREM TypeCorrect == Spec => []TypeOK
<1>1. IInv => TypeOK
  BY DEF IInv
<1> QED
  BY <1>1, Invariant, PTL

(* No entry is left reading "sending" with no request behind it, whatever
   crashes, account switches and lost responses happened (claim and
   resetSendingToQueued of the outbox). *)
THEOREM NoOrphanedSending == Spec => []SendingIsInFlight
<1>1. IInv => SendingIsInFlight
  BY DEF IInv
<1> QED
  BY <1>1, Invariant, PTL

----------------------------------------------------------------------------
(* A trigger that arrives while the drain runs. *)

LEMMA LoopStops ==
  ASSUME IInv, DrainAck \/ DrainFail, ~drain'.on, rerun,
         session \in Users, owner' = session
  PROVE  \A m \in Msgs : items'[m].st = "queued" => ~(drain.force \/ online')
<1>1. /\ session \in Users \cup {NoUser} /\ drain.on
      /\ drain \in Drains /\ drain.sess \in Users
  BY InvParts, IdleFacts DEF DrainAck, DrainFail, DrainOK
<1>2. PICK q \in QueueTypes : Proceed(q, drain, TRUE)
  <2>1. /\ Removed(items, drain.cur) \in QueueTypes
        /\ RecordFailure(items, drain.cur) \in QueueTypes
        /\ WithStatus(items, drain.cur, "queued") \in QueueTypes
    <3>1. drain.cur \in Msgs
      BY <1>1, InvParts, IdleFacts DEF DrainOK
    <3> QED
      BY <3>1, InvParts, RemovedFacts, RecordFailureFacts, WithStatusFacts DEF Statuses
  <2> QED
    BY <2>1 DEF DrainAck, DrainFail
<1> DEFINE R == Round(q, drain)
<1>3. \A d \in Drains : \A m : d.on => ~Claim(q, d, m)
  <2> SUFFICES ASSUME NEW d \in Drains, NEW m, d.on, Claim(q, d, m)
               PROVE  FALSE
    OBVIOUS
  <2>1. drain' = [d EXCEPT !.todo = @ \ {m}, !.cur = m, !.sent = FALSE]
    BY DEF Claim
  <2> QED
    BY <2>1 DEF Drains
<1>4. R \in Drains /\ R.on /\ R.force = drain.force /\ R.sess = session
  BY <1>1, RoundFacts
<1>5. items' = q /\ Claimable(q, R) = {}
  BY <1>1, <1>2, <1>3, <1>4 DEF Proceed
<1>6. {m \in Msgs : q[m].st = "queued"} \subseteq R.todo
  <2>1. session # NoUser
    BY ConstantsOK
  <2>2. R = [drain EXCEPT !.sess = session,
                          !.todo = {m \in Msgs : \/ q[m].st = "queued"
                                                 \/ drain.failed /\ q[m].st = "failed"}]
    BY <2>1 DEF Round
  <2>3. R.todo = {m \in Msgs : q[m].st = "queued" \/ (drain.failed /\ q[m].st = "failed")}
    BY <1>1, <2>2 DEF Drains
  <2> QED
    BY <2>3
<1> HIDE DEF R
<1> QED
  BY <1>4, <1>5, <1>6 DEF Claimable

LEMMA NoTriggerDroppedStep ==
  ASSUME IInv, [Next]_vars,
         drain.on, ~drain'.on, rerun, session' # NoUser, owner' = session'
  PROVE  \A m \in Msgs : items'[m].st = "queued" => ~(drain.force \/ online')
<1>1. session \in Users \cup {NoUser} /\ rerun \in BOOLEAN /\ drain.on
  BY InvParts
<1>2. ASSUME NEW q \in QueueTypes, NEW force \in BOOLEAN, NEW failed \in BOOLEAN
      PROVE  ~StartDrain(q, force, failed)
  BY <1>1, <1>2, StartDrainFacts
<1>3. items \in QueueTypes /\ \A m \in Msgs : Enqueued(items, m) \in QueueTypes
  BY InvParts, EnqueuedFacts
<1>4. CASE DrainAck \/ DrainFail
  <2>1. session' = session
    BY <1>4 DEF DrainAck, DrainFail
  <2> QED
    BY <1>1, <1>4, <2>1, LoopStops
<1>5. ~HydrateOnSignIn
  <2>1. HydrateOnSignIn => ResetSendingToQueued(kv[session]) \in QueueTypes
    BY InvParts, ResetFacts DEF HydrateOnSignIn
  <2> QED
    BY <1>2, <2>1 DEF HydrateOnSignIn
<1>6. \A m \in Msgs : ~Enqueue(m)
  BY <1>2, <1>3 DEF Enqueue
<1>7. ~GoOnline /\ ~Tick
  BY <1>2, <1>3 DEF GoOnline, Tick
<1>8. ~DrainCommit
  <2>1. DrainCommit => drain' = [drain EXCEPT !.sent = TRUE]
    BY DEF DrainCommit
  <2> QED
    BY <2>1, InvParts, IdleFacts DEF DrainOK, Drains
<1> QED
  BY <1>4, <1>5, <1>6, <1>7, <1>8
     DEF Next, vars, SetSession, ClearOnSignOut, SendOffline, SendOnline, LiveCommit,
         LiveAck, LiveFail, Retry, GoOffline, Crash

(* "A trigger arriving mid-drain is not dropped" (outbox-context.tsx:49). *)
THEOREM TriggersHonoured == Spec => NoTriggerDropped
<1>1. IInv /\ [Next]_vars =>
        [drain.on /\ ~drain'.on /\ rerun /\ session' # NoUser /\ owner' = session' =>
           \A m \in Msgs : items'[m].st = "queued" => ~(drain.force \/ online')]_vars
  BY NoTriggerDroppedStep
<1> QED
  BY <1>1, Invariant, PTL DEF Spec, NoTriggerDropped

----------------------------------------------------------------------------
(* The refinement: under every combination of crashes, account switches and lost
   responses a message leaves an account's persisted queue only once the server has
   it from that account. *)

pend == [u \in Users |-> {m \in Msgs : InQueue(m, u)}]
post == {mu \in Msgs \X Users : Logged(mu[1], mu[2])}

LEMMA InitMaps == Init => Queue!Init
  BY EmptyType DEF Init, Queue!Init, InQueue, Logged

LEMMA StutterMaps ==
  ASSUME Unchanged, UNCHANGED log
  PROVE  UNCHANGED <<pend, post>>
<1>1. \A u \in Users : {m \in Msgs : InQueue(m, u)}' = {m \in Msgs : InQueue(m, u)}
  BY DEF Unchanged
<1>2. pend' = pend
  BY <1>1 DEF pend
<1>3. post' = post
  BY DEF post, Logged
<1> QED
  BY <1>2, <1>3

LEMMA SameKvMaps ==
  ASSUME UNCHANGED <<kv, log>>
  PROVE  UNCHANGED <<pend, post>>
  BY DEF pend, post, InQueue, Logged

(* A message that joins the store's queue is accepted for the account the
   store belongs to; with no account loaded nothing durable happens. *)
LEMMA JoinMaps ==
  ASSUME IInv, NEW m \in Msgs, Joins(m), live[m] # "over", UNCHANGED log
  PROVE  (owner \in Users /\ Queue!Accept(m, owner)) \/ UNCHANGED <<pend, post>>
<1>1. CASE owner \in Users
  <2>1. \A v \in Users : m \notin pend[v]
    BY DEF IInv, NotQueuedYet, pend
  <2>2. pend' = [pend EXCEPT ![owner] = @ \cup {m}]
    <3>1. \A u \in Users : pend'[u] = IF u = owner THEN pend[u] \cup {m} ELSE pend[u]
      BY DEF pend, Joins
    <3> QED
      BY <1>1, <3>1 DEF pend
  <2>3. post' = post
    BY DEF post, Logged
  <2> QED
    BY <1>1, <2>1, <2>2, <2>3 DEF Queue!Accept, pend, post
<1>2. CASE owner \notin Users
  BY <1>2, StutterMaps DEF Joins, Unchanged
<1> QED
  BY <1>1, <1>2

LEMMA PostMaps ==
  ASSUME IInv, NEW m \in Msgs, NEW u \in Users, Append(m, u), UNCHANGED kv,
         \A v \in Users \ {u} : ~InQueue(m, v)
  PROVE  Queue!Post(m, u)
<1>1. \A k \in Msgs, v \in Users : Logged(k, v)' <=> Logged(k, v) \/ (k = m /\ v = u)
  BY AppendFacts DEF IInv
<1>2. post' = post \cup {<<m, u>>}
  BY <1>1 DEF post
<1>3. pend' = pend /\ \A v \in Users \ {u} : m \notin pend[v]
  BY DEF pend, InQueue
<1> QED
  BY <1>2, <1>3 DEF Queue!Post, pend, post

(* The entry a confirmed send removes was posted by the account that owed
   it; removing it from another account's store removes nothing. *)
LEMMA AckMaps ==
  ASSUME IInv, DrainAck
  PROVE  (\E m \in Msgs, u \in Users : Queue!Confirm(m, u)) \/ UNCHANGED <<pend, post>>
<1>1. drain.on /\ drain.cur \in Msgs /\ Leaves(drain.cur) /\ UNCHANGED log
  BY AckStep DEF DrainAck
<1>2. /\ drain.sess \in Users /\ InQueue(drain.cur, drain.sess)
      /\ Logged(drain.cur, drain.sess)
  BY <1>1, IdleFacts DEF IInv, DrainOK, DrainAck
<1>3. CASE owner = drain.sess
  <2> DEFINE m == drain.cur
             u == drain.sess
  <2>1. m \in pend[u] /\ <<m, u>> \in post
    BY <1>1, <1>2 DEF pend, post
  <2>2. \A v \in Users : pend'[v] = IF v = u THEN pend[v] \ {m} ELSE pend[v]
    BY <1>1, <1>3 DEF pend, Leaves
  <2>3. pend' = [pend EXCEPT ![u] = @ \ {m}]
    BY <1>2, <2>2 DEF pend
  <2>4. post' = post
    BY <1>1 DEF post, Logged
  <2>5. Queue!Confirm(m, u)
    BY <2>1, <2>3, <2>4 DEF Queue!Confirm, pend, post
  <2> QED
    BY <1>1, <1>2, <2>5
<1>4. CASE owner # drain.sess
  <2>1. \A u \in Users : u = owner => ~InQueue(drain.cur, u)
    BY <1>1, <1>2, <1>4 DEF IInv, OneQueue
  <2> QED
    BY <1>1, <2>1, StutterMaps DEF Leaves, Unchanged
<1> QED
  BY <1>3, <1>4

LEMMA NextMaps == IInv /\ [Next]_vars => [Queue!Next]_<<pend, post>>
<1> SUFFICES ASSUME IInv, [Next]_vars
             PROVE  Queue!Next \/ UNCHANGED <<pend, post>>
  OBVIOUS
<1>1. ASSUME NEW u \in Users \cup {NoUser}, SetSession(u)
      PROVE  UNCHANGED <<pend, post>>
  BY <1>1, SameKvMaps DEF SetSession
<1>2. CASE ClearOnSignOut
  BY <1>2, SameKvMaps DEF ClearOnSignOut
<1>3. CASE HydrateOnSignIn
  BY <1>3, HydrateStep, StutterMaps DEF HydrateOnSignIn
<1>4. ASSUME NEW m \in Msgs, SendOffline(m)
      PROVE  Queue!Next \/ UNCHANGED <<pend, post>>
  BY <1>4, EnqueueStep, JoinMaps DEF SendOffline, Enqueue, Queue!Next
<1>5. ASSUME NEW m \in Msgs, SendOnline(m)
      PROVE  UNCHANGED <<pend, post>>
  BY <1>5, SameKvMaps DEF SendOnline
<1>6. ASSUME NEW m \in Msgs, LiveCommit(m)
      PROVE  Queue!Next
  <2>1. /\ author[m] \in Users /\ Append(m, author[m]) /\ UNCHANGED kv
        /\ \A v \in Users : ~InQueue(m, v)
    BY <1>6 DEF LiveCommit, IInv, HasAuthor, NotQueuedYet
  <2> QED
    BY <2>1, PostMaps DEF Queue!Next
<1>7. ASSUME NEW m \in Msgs, LiveAck(m)
      PROVE  UNCHANGED <<pend, post>>
  BY <1>7, SameKvMaps DEF LiveAck
<1>8. ASSUME NEW m \in Msgs, LiveFail(m)
      PROVE  Queue!Next \/ UNCHANGED <<pend, post>>
  BY <1>8, EnqueueStep, JoinMaps DEF LiveFail, Enqueue, Queue!Next
<1>9. ASSUME NEW m \in Msgs, Retry(m)
      PROVE  UNCHANGED <<pend, post>>
  BY <1>9, RetryStep, StutterMaps DEF Retry
<1>10. CASE GoOffline
  BY <1>10, SameKvMaps DEF GoOffline
<1>11. CASE GoOnline \/ Tick
  BY <1>11, TriggerStep, StutterMaps DEF GoOnline, Tick
<1>12. CASE DrainCommit
  <2>1. /\ drain.cur \in Msgs /\ drain.sess \in Users /\ UNCHANGED kv
        /\ Append(drain.cur, drain.sess)
        /\ \A v \in Users \ {drain.sess} : ~InQueue(drain.cur, v)
    BY <1>12, IdleFacts DEF DrainCommit, IInv, DrainOK, OneQueue
  <2> QED
    BY <2>1, PostMaps DEF Queue!Next
<1>13. CASE DrainAck
  BY <1>13, AckMaps DEF Queue!Next
<1>14. CASE DrainFail
  BY <1>14, FailStep, StutterMaps DEF DrainFail
<1>15. CASE Crash
  BY <1>15, SameKvMaps DEF Crash
<1>16. CASE UNCHANGED vars
  BY <1>16, SameKvMaps DEF vars
<1> QED
  BY <1>1, <1>2, <1>3, <1>4, <1>5, <1>6, <1>7, <1>8, <1>9, <1>10, <1>11, <1>12, <1>13,
     <1>14, <1>15, <1>16 DEF Next

(* The outbox implements the durable queue: "removed only on confirmed
   success" and "persisted per identity" (outbox.ts), whatever crashes,
   account switches and lost responses happen. *)
THEOREM Refinement == Spec => ImplementsDurableQueue
<1>1. [Queue!Next]_<<pend, post>> => [Queue!Next]_(Queue!qvars)
  BY DEF pend, post, Queue!qvars
<1> QED
  BY InitMaps, NextMaps, Invariant, <1>1, PTL DEF Spec, ImplementsDurableQueue, Queue!Spec

----------------------------------------------------------------------------
(* Authorship. *)

UnsentNotLogged ==
    \A m \in Msgs, u \in Users : live[m] = "unsent" => ~Logged(m, u)

(* A live send is awaited only by the account that is signed in and loaded. *)
AwaitedByAuthor ==
    \A m \in Msgs : Awaiting(m) => author[m] = session /\ owner = session

QueuedForAuthor == \A m \in Msgs, u \in Users : InQueue(m, u) => author[m] = u

CommittedIsLogged == \A m \in Msgs : live[m] = "committed" => Logged(m, author[m])

AInv ==
    /\ UnsentNotLogged
    /\ AwaitedByAuthor
    /\ QueuedForAuthor
    /\ CommittedIsLogged
    /\ FlushedAsAuthor
    /\ NeverDropped

LEMMA InitAuthors == Init => AInv
  BY EmptyType DEF Init, AInv, UnsentNotLogged, AwaitedByAuthor, QueuedForAuthor,
                   CommittedIsLogged, FlushedAsAuthor, NeverDropped, Awaiting,
                   InQueue, Logged

(* A step that leaves the queues, the log and the messages alone. *)
LEMMA QuietAuthors ==
  ASSUME IInv, AInv, Unchanged, UNCHANGED <<author, live, log>>, AwaitedByAuthor'
  PROVE  AInv'
  BY DEF AInv, Unchanged, UnsentNotLogged, QueuedForAuthor, CommittedIsLogged,
         FlushedAsAuthor, NeverDropped, InQueue, Logged, IInv, HasAuthor

LEMMA EnqueueAuthors ==
  ASSUME IInv, AInv, NEW m \in Msgs, Enqueue(m), live[m] # "over",
         live' = [live EXCEPT ![m] = "over"],
         \A k \in Msgs \ {m} : author'[k] = author[k],
         owner \in Users, author'[m] = owner,
         \A u \in Users : Logged(m, u) => author[m] = owner
  PROVE  AInv'
<1>1. Joins(m) /\ UNCHANGED <<session, owner, log>>
  BY EnqueueStep DEF Enqueue
<1>2. /\ live'[m] = "over"
      /\ \A k \in Msgs \ {m} : live'[k] = live[k]
      /\ \A u \in Users : ~InQueue(m, u)
  BY DEF IInv, TypeOK, NotQueuedYet
<1>3. UnsentNotLogged' /\ AwaitedByAuthor' /\ CommittedIsLogged'
  BY <1>1, <1>2 DEF AInv, UnsentNotLogged, AwaitedByAuthor, CommittedIsLogged, Logged, Awaiting
<1>4. QueuedForAuthor'
  BY <1>1, <1>2 DEF AInv, QueuedForAuthor, Joins, InQueue
<1>5. FlushedAsAuthor'
  BY <1>1 DEF AInv, FlushedAsAuthor, Logged
<1>6. NeverDropped'
  <2> SUFFICES ASSUME NEW k \in Msgs, live'[k] = "over"
               PROVE  Logged(k, author[k])' \/ InQueue(k, author[k])'
    BY DEF NeverDropped
  <2>1. CASE k = m
    BY <1>1, <2>1 DEF Joins, InQueue
  <2>2. CASE k # m
    <3>1. author[k] \in Users /\ author'[k] = author[k]
      BY <1>2, <2>2 DEF IInv, HasAuthor
    <3>2. Logged(k, author[k]) \/ InQueue(k, author[k])
      BY <1>2, <2>2 DEF AInv, NeverDropped
    <3> QED
      BY <1>1, <3>1, <3>2 DEF Joins, InQueue, Logged
  <2> QED
    BY <2>1, <2>2
<1> QED
  BY <1>3, <1>4, <1>5, <1>6 DEF AInv

LEMMA AckAuthors ==
  ASSUME IInv, AInv, DrainAck
  PROVE  AInv'
<1>1. drain.on /\ drain.cur \in Msgs /\ Leaves(drain.cur)
  BY AckStep
<1>2. UNCHANGED <<session, owner, author, live, log>>
  BY DEF DrainAck
<1>3. /\ drain.sess \in Users /\ InQueue(drain.cur, drain.sess)
      /\ Logged(drain.cur, drain.sess) /\ author[drain.cur] = drain.sess
  BY <1>1, IdleFacts DEF IInv, DrainOK, DrainAck, AInv, QueuedForAuthor
<1>4. NeverDropped'
  <2> SUFFICES ASSUME NEW k \in Msgs, live[k] = "over"
               PROVE  Logged(k, author[k])' \/ InQueue(k, author[k])'
    BY <1>2 DEF NeverDropped
  <2>1. author[k] \in Users /\ (Logged(k, author[k]) \/ InQueue(k, author[k]))
    BY DEF IInv, HasAuthor, AInv, NeverDropped
  <2>2. CASE k = drain.cur
    BY <1>2, <1>3, <2>2 DEF Logged
  <2>3. CASE k # drain.cur
    BY <1>1, <1>2, <2>1, <2>3 DEF Leaves, InQueue, Logged
  <2> QED
    BY <2>2, <2>3
<1> QED
  BY <1>1, <1>2, <1>4 DEF AInv, UnsentNotLogged, AwaitedByAuthor, QueuedForAuthor,
       CommittedIsLogged, FlushedAsAuthor, Leaves, InQueue, Logged, Awaiting

(* The server takes m from the account that wrote it. *)
LEMMA AppendAuthors ==
  ASSUME IInv, AInv, NEW m \in Msgs, author[m] \in Users, Append(m, author[m]),
         live[m] # "unsent", UNCHANGED <<session, owner, kv, author>>,
         \/ UNCHANGED live
         \/ live[m] = "pending" /\ live' = [live EXCEPT ![m] = "committed"]
  PROVE  AInv'
<1>1. \A k \in Msgs, v \in Users : Logged(k, v)' <=> Logged(k, v) \/ (k = m /\ v = author[m])
  BY AppendFacts DEF IInv
<1>2. \A k \in Msgs : \/ live'[k] = live[k]
                      \/ k = m /\ live'[k] = "committed" /\ live[k] = "pending"
  BY DEF IInv, TypeOK
<1>3. \A k \in Msgs : live'[k] # "unsent" => author[k] \in Users
  BY <1>2 DEF IInv, HasAuthor
<1>4. UnsentNotLogged' /\ AwaitedByAuthor' /\ QueuedForAuthor' /\ FlushedAsAuthor'
  BY <1>1, <1>2 DEF AInv, UnsentNotLogged, AwaitedByAuthor, QueuedForAuthor,
       FlushedAsAuthor, InQueue, Logged, Awaiting
<1>5. CommittedIsLogged' /\ NeverDropped'
  BY <1>1, <1>2, <1>3 DEF AInv, CommittedIsLogged, NeverDropped, InQueue, Logged
<1> QED
  BY <1>4, <1>5 DEF AInv

LEMMA NextAuthors ==
  ASSUME ~SwitchMidSend, IInv, AInv, [Next]_vars
  PROVE  AInv'
<1>1. ASSUME NEW u \in Users \cup {NoUser}, SetSession(u)
      PROVE  AInv'
  BY <1>1, QuietAuthors DEF SetSession, Unchanged, InQueue, AwaitedByAuthor, Awaiting
<1>2. CASE ClearOnSignOut
  BY <1>2, QuietAuthors DEF ClearOnSignOut, Unchanged, InQueue, AInv, AwaitedByAuthor, Awaiting
<1>3. CASE HydrateOnSignIn
  BY <1>3, HydrateStep, QuietAuthors DEF HydrateOnSignIn, AInv, AwaitedByAuthor, Awaiting
<1>4. ASSUME NEW m \in Msgs, SendOffline(m)
      PROVE  AInv'
  <2>1. /\ live[m] = "unsent" /\ Enqueue(m)
        /\ live' = [live EXCEPT ![m] = "over"]
        /\ owner \in Users /\ author' = [author EXCEPT ![m] = owner]
        /\ author \in [Msgs -> Users \cup {NoUser}]
        /\ \A u \in Users : ~Logged(m, u)
    BY <1>4 DEF SendOffline, IInv, TypeOK, AInv, UnsentNotLogged
  <2>2. author'[m] = owner /\ \A k \in Msgs \ {m} : author'[k] = author[k]
    BY <2>1
  <2> QED
    BY <2>1, <2>2, EnqueueAuthors
<1>5. ASSUME NEW m \in Msgs, SendOnline(m)
      PROVE  AInv'
  <2>1. /\ live[m] = "unsent" /\ live' = [live EXCEPT ![m] = "pending"]
        /\ owner = session /\ author' = [author EXCEPT ![m] = session]
        /\ UNCHANGED <<session, owner, kv, log>>
    BY <1>5 DEF SendOnline
  <2>2. /\ live'[m] = "pending" /\ author'[m] = session
        /\ \A k \in Msgs \ {m} : live'[k] = live[k] /\ author'[k] = author[k]
        /\ \A u \in Users : ~InQueue(m, u) /\ ~Logged(m, u)
    BY <2>1 DEF IInv, TypeOK, NotQueuedYet, AInv, UnsentNotLogged
  <2>3. UnsentNotLogged' /\ AwaitedByAuthor' /\ CommittedIsLogged'
    BY <2>1, <2>2 DEF AInv, UnsentNotLogged, AwaitedByAuthor, CommittedIsLogged, Logged, Awaiting
  <2>4. QueuedForAuthor' /\ FlushedAsAuthor'
    BY <2>1, <2>2 DEF AInv, QueuedForAuthor, FlushedAsAuthor, InQueue, Logged
  <2>5. NeverDropped'
    BY <2>1, <2>2 DEF AInv, NeverDropped, InQueue, Logged
  <2> QED
    BY <2>3, <2>4, <2>5 DEF AInv
<1>6. ASSUME NEW m \in Msgs, LiveCommit(m)
      PROVE  AInv'
  BY <1>6, AppendAuthors DEF LiveCommit, IInv, HasAuthor
<1>7. ASSUME NEW m \in Msgs, LiveAck(m)
      PROVE  AInv'
  <2>1. /\ live[m] = "committed" /\ Logged(m, author[m])
        /\ live' = [live EXCEPT ![m] = "over"]
        /\ UNCHANGED <<session, owner, kv, author, log>>
    BY <1>7 DEF LiveAck, AInv, CommittedIsLogged
  <2>2. live'[m] = "over" /\ \A k \in Msgs \ {m} : live'[k] = live[k]
    BY <2>1 DEF IInv, TypeOK
  <2> QED
    BY <2>1, <2>2 DEF AInv, UnsentNotLogged, AwaitedByAuthor, QueuedForAuthor,
         CommittedIsLogged, FlushedAsAuthor, NeverDropped, InQueue, Logged, Awaiting
<1>8. ASSUME NEW m \in Msgs, LiveFail(m)
      PROVE  AInv'
  <2>1. /\ Awaiting(m) /\ Enqueue(m) /\ UNCHANGED author
        /\ live' = [live EXCEPT ![m] = "over"]
    BY <1>8 DEF LiveFail, Awaiting
  <2>2. author[m] \in Users /\ author[m] = owner
    BY <2>1 DEF Awaiting, IInv, HasAuthor, AInv, AwaitedByAuthor
  <2> QED
    BY <2>1, <2>2, EnqueueAuthors DEF Awaiting
<1>9. ASSUME NEW m \in Msgs, Retry(m)
      PROVE  AInv'
  BY <1>9, RetryStep, QuietAuthors DEF Retry, AInv, AwaitedByAuthor, Awaiting
<1>10. CASE GoOffline
  BY <1>10, QuietAuthors DEF GoOffline, Unchanged, InQueue, AInv, AwaitedByAuthor, Awaiting
<1>11. CASE GoOnline \/ Tick
  BY <1>11, TriggerStep, QuietAuthors DEF GoOnline, Tick, AInv, AwaitedByAuthor, Awaiting
<1>12. CASE DrainCommit
  <2>1. /\ drain.cur \in Msgs /\ drain.sess \in Users /\ InQueue(drain.cur, drain.sess)
        /\ Append(drain.cur, drain.sess)
        /\ UNCHANGED <<session, owner, kv, author, live>>
    BY <1>12, IdleFacts DEF DrainCommit, IInv, DrainOK
  <2>2. author[drain.cur] = drain.sess /\ live[drain.cur] # "unsent"
    BY <2>1 DEF AInv, QueuedForAuthor, IInv, NotQueuedYet
  <2> QED
    BY <2>1, <2>2, AppendAuthors
<1>13. CASE DrainAck
  BY <1>13, AckAuthors
<1>14. CASE DrainFail
  BY <1>14, FailStep, QuietAuthors DEF DrainFail, AInv, AwaitedByAuthor, Awaiting
<1>15. CASE Crash
  <2>1. /\ \A m \in Msgs : live'[m] = IF Awaiting(m) THEN "cut" ELSE live[m]
        /\ UNCHANGED <<kv, author, log>>
    BY <1>15 DEF Crash
  <2> QED
    BY <2>1 DEF AInv, UnsentNotLogged, AwaitedByAuthor, QueuedForAuthor,
         CommittedIsLogged, FlushedAsAuthor, NeverDropped, InQueue, Logged, Awaiting
<1>16. CASE UNCHANGED vars
  BY <1>16, QuietAuthors DEF vars, Unchanged, InQueue, AInv, AwaitedByAuthor, Awaiting
<1> QED
  BY <1>1, <1>2, <1>3, <1>4, <1>5, <1>6, <1>7, <1>8, <1>9, <1>10, <1>11, <1>12, <1>13,
     <1>14, <1>15, <1>16 DEF Next

LEMMA AuthorsInvariant ==
  ASSUME ~SwitchMidSend
  PROVE  Spec => []AInv
  BY InitAuthors, NextAuthors, Invariant, PTL DEF Spec

(* Nothing reaches the server under another account than its author's
   (outbox-context.tsx:21), as long as the account does not change while a
   live send is awaited: account switches during a drain are harmless. *)
THEOREM RightIdentity ==
  ASSUME ~SwitchMidSend
  PROVE  Spec => []FlushedAsAuthor
<1>1. AInv => FlushedAsAuthor
  BY DEF AInv
<1> QED
  BY <1>1, AuthorsInvariant, PTL

(* Once sendText is over the message is in the log or in its author's queue
   (use-room-send.ts:44), under the same hypothesis. *)
THEOREM NothingDropped ==
  ASSUME ~SwitchMidSend
  PROVE  Spec => []NeverDropped
<1>1. AInv => NeverDropped
  BY DEF AInv
<1> QED
  BY <1>1, AuthorsInvariant, PTL

----------------------------------------------------------------------------
(* Exactly-once delivery while it is calm: no acknowledgement was lost, with its
   response or with the app, and the account did not change under a running drain. *)

NotYetLogged ==
    \A m \in Msgs, u \in Users : live[m] \in {"unsent", "pending"} => ~Logged(m, u)

(* Only the entry whose response is under way is both queued and logged. *)
QueuedAndLogged ==
    \A m \in Msgs, u, v \in Users :
        InQueue(m, u) /\ Logged(m, v) => drain.on /\ drain.cur = m /\ drain.sent

DrainOfSession == drain.on => owner = session /\ drain.sess = session

CInv == NotYetLogged /\ SentOnce /\ QueuedAndLogged /\ DrainOfSession

LEMMA InitCalm == Init => CInv
  BY EmptyType, IdleFacts DEF Init, CInv, NotYetLogged, SentOnce, QueuedAndLogged,
       DrainOfSession, InQueue, Logged

(* What a turn of the store that is not one of the loop does to the drain: a new one
   works for the account that is signed in, on the store of that account. *)
DrainKept ==
    drain' = drain \/ (~drain.on /\ (drain'.on => drain'.sess = owner' /\ owner' = session'))

LEMMA TriggerKeeps ==
  ASSUME IInv, session' = session,
         NEW q \in QueueTypes, NEW force \in BOOLEAN, NEW failed \in BOOLEAN,
         StartDrain(q, force, failed)
  PROVE  DrainKept
<1>1. drain.on \/ drain = Idle
  BY InvParts DEF DrainOK
<1>2. drain' = drain \/ (~drain.on /\ session = owner' /\ Claims(q))
  BY <1>1, InvParts, StartDrainFacts
<1> QED
  BY <1>2 DEF DrainKept, Claims

(* A turn that sends nothing and queues nothing new. *)
LEMMA QuietCalm ==
  ASSUME IInv, CInv, Unchanged, UNCHANGED <<live, log>>, DrainKept, DrainOfSession'
  PROVE  CInv'
<1>1. QueuedAndLogged'
  BY DEF CInv, QueuedAndLogged, Unchanged, DrainKept, InQueue, Logged
<1> QED
  BY <1>1 DEF CInv, NotYetLogged, SentOnce, Logged

LEMMA EnqueueCalm ==
  ASSUME IInv, CInv, NEW m \in Msgs, Enqueue(m),
         live[m] \in {"unsent", "pending"}, live' = [live EXCEPT ![m] = "over"]
  PROVE  CInv'
<1>1. Joins(m) /\ UNCHANGED <<session, owner, log>>
  BY EnqueueStep DEF Enqueue
<1>2. live'[m] = "over" /\ \A k \in Msgs \ {m} : live'[k] = live[k]
  BY DEF IInv, TypeOK
<1>3. \A u \in Users : ~Logged(m, u)
  BY DEF CInv, NotYetLogged
<1>4. DrainKept
  <2>1. Enqueued(items, m) \in QueueTypes
    BY InvParts, EnqueuedFacts
  <2>2. CASE owner = NoUser
    BY <2>2 DEF Enqueue, DrainKept
  <2>3. CASE owner # NoUser
    BY <1>1, <2>1, <2>3, TriggerKeeps DEF Enqueue
  <2> QED
    BY <2>2, <2>3
<1>5. DrainOfSession'
  BY <1>1, <1>4 DEF CInv, DrainOfSession, DrainKept
<1>6. QueuedAndLogged'
  BY <1>1, <1>3, <1>4 DEF CInv, QueuedAndLogged, Joins, DrainKept, InQueue, Logged
<1> QED
  BY <1>1, <1>2, <1>5, <1>6 DEF CInv, NotYetLogged, SentOnce, Logged

(* A turn of the loop: it stops, or it claims an entry of the store's
   account. *)
LEMMA LoopDrain ==
  ASSUME IInv, CInv, DrainAck \/ DrainFail
  PROVE  DrainOfSession'
<1>1. /\ drain.on /\ drain \in Drains /\ drain.sess \in Users /\ drain.cur \in Msgs
      /\ owner' = owner /\ session' = session /\ owner = session
  BY InvParts, IdleFacts DEF DrainAck, DrainFail, DrainOK, CInv, DrainOfSession
<1>2. PICK q \in QueueTypes, again \in BOOLEAN : Proceed(q, drain, again)
  <2>1. /\ Removed(items, drain.cur) \in QueueTypes
        /\ RecordFailure(items, drain.cur) \in QueueTypes
        /\ WithStatus(items, drain.cur, "queued") \in QueueTypes
    BY <1>1, InvParts, RemovedFacts, RecordFailureFacts, WithStatusFacts DEF Statuses
  <2>2. rerun \in BOOLEAN
    BY InvParts
  <2> QED
    BY <2>1, <2>2 DEF DrainAck, DrainFail
<1>3. Stops(q) \/ Claims(q)
  BY <1>1, <1>2, InvParts, ProceedFacts
<1> QED
  BY <1>1, <1>3, IdleFacts DEF Stops, Claims, DrainOfSession

LEMMA AckCalm ==
  ASSUME IInv, CInv, DrainAck
  PROVE  CInv'
<1>1. drain.on /\ drain.cur \in Msgs /\ Leaves(drain.cur)
  BY AckStep
<1>2. UNCHANGED <<session, owner, author, live, log>>
  BY DEF DrainAck
<1>3. /\ drain.sess \in Users /\ InQueue(drain.cur, drain.sess)
      /\ owner = drain.sess
  BY <1>1, IdleFacts DEF IInv, DrainOK, CInv, DrainOfSession
<1>4. \A m \in Msgs, u \in Users : InQueue(m, u)' => m # drain.cur /\ InQueue(m, u)
  BY <1>1, <1>3 DEF IInv, OneQueue, Leaves
<1>5. QueuedAndLogged'
  <2> SUFFICES ASSUME NEW m \in Msgs, NEW u \in Users, NEW v \in Users,
                      InQueue(m, u)', Logged(m, v)'
               PROVE  FALSE
    BY DEF QueuedAndLogged
  <2>1. m # drain.cur /\ InQueue(m, u) /\ Logged(m, v)
    BY <1>2, <1>4 DEF Logged
  <2> QED
    BY <2>1 DEF CInv, QueuedAndLogged
<1> QED
  BY <1>2, <1>5, LoopDrain DEF CInv, NotYetLogged, SentOnce, Logged

LEMMA FailCalm ==
  ASSUME IInv, CInv, DrainFail, ~drain.sent
  PROVE  CInv'
<1>1. Unchanged /\ UNCHANGED <<session, owner, author, live, log>>
  BY FailStep DEF DrainFail
<1>2. QueuedAndLogged'
  BY <1>1 DEF CInv, QueuedAndLogged, Unchanged, InQueue, Logged
<1> QED
  BY <1>1, <1>2, LoopDrain DEF CInv, NotYetLogged, SentOnce, Logged

LEMMA NextCalm ==
  ASSUME IInv, CInv, [Next]_vars, ~Storms
  PROVE  CInv'
<1>1. ASSUME NEW u \in Users \cup {NoUser}, SetSession(u)
      PROVE  CInv'
  <2>1. ~drain.on /\ UNCHANGED drain
    BY <1>1 DEF Storms, SetSession
  <2> QED
    BY <1>1, <2>1, QuietCalm DEF SetSession, Unchanged, InQueue, DrainKept, DrainOfSession
<1>2. CASE ClearOnSignOut
  BY <1>2, QuietCalm DEF ClearOnSignOut, Unchanged, InQueue, DrainKept, CInv, DrainOfSession
<1>3. CASE HydrateOnSignIn
  <2>1. /\ owner' = session /\ session' = session /\ UNCHANGED <<live, log>>
        /\ owner # session /\ session \in Users
        /\ StartDrain(ResetSendingToQueued(kv[session]), TRUE, TRUE)
    BY <1>3, InvParts DEF HydrateOnSignIn
  <2>2. ResetSendingToQueued(kv[session]) \in QueueTypes
    BY <2>1, InvParts, ResetFacts
  <2>3. DrainKept
    BY <2>1, <2>2, TriggerKeeps
  <2>4. DrainOfSession'
    BY <2>1, <2>3 DEF CInv, DrainOfSession, DrainKept
  <2> QED
    BY <1>3, <2>1, <2>3, <2>4, HydrateStep, QuietCalm
<1>4. ASSUME NEW m \in Msgs, SendOffline(m)
      PROVE  CInv'
  BY <1>4, EnqueueCalm DEF SendOffline
<1>5. ASSUME NEW m \in Msgs, SendOnline(m)
      PROVE  CInv'
  <2>1. /\ live[m] = "unsent" /\ live' = [live EXCEPT ![m] = "pending"]
        /\ UNCHANGED <<session, owner, kv, drain, log>>
    BY <1>5 DEF SendOnline
  <2>2. \A k \in Msgs \ {m} : live'[k] = live[k]
    BY <2>1
  <2> QED
    BY <2>1, <2>2 DEF CInv, NotYetLogged, SentOnce, QueuedAndLogged, DrainOfSession,
         InQueue, Logged
<1>6. ASSUME NEW m \in Msgs, LiveCommit(m)
      PROVE  CInv'
  <2>1. /\ live[m] = "pending" /\ live' = [live EXCEPT ![m] = "committed"]
        /\ author[m] \in Users /\ Append(m, author[m])
        /\ UNCHANGED <<session, owner, kv, drain>>
    BY <1>6 DEF LiveCommit, IInv, HasAuthor
  <2>2. /\ live'[m] = "committed" /\ \A k \in Msgs \ {m} : live'[k] = live[k]
        /\ \A u \in Users : ~InQueue(m, u) /\ log[m][u] = 0
    BY <2>1 DEF IInv, TypeOK, NotQueuedYet, CInv, NotYetLogged, Logged
  <2>3. /\ \A k \in Msgs, v \in Users : k # m \/ v # author[m] => log'[k][v] = log[k][v]
        /\ log'[m][author[m]] = 1
    BY <2>1, <2>2, AppendFacts DEF IInv
  <2>4. NotYetLogged' /\ SentOnce'
    BY <2>2, <2>3 DEF CInv, NotYetLogged, SentOnce, Logged
  <2>5. QueuedAndLogged' /\ DrainOfSession'
    BY <2>1, <2>2, <2>3 DEF CInv, QueuedAndLogged, DrainOfSession, InQueue, Logged
  <2> QED
    BY <2>4, <2>5 DEF CInv
<1>7. ASSUME NEW m \in Msgs, LiveAck(m)
      PROVE  CInv'
  <2>1. /\ \A k \in Msgs : live'[k] = IF k = m THEN "over" ELSE live[k]
        /\ UNCHANGED <<session, owner, kv, drain, log>>
    BY <1>7 DEF LiveAck, IInv, TypeOK
  <2> QED
    BY <2>1 DEF CInv, NotYetLogged, SentOnce, QueuedAndLogged, DrainOfSession,
         InQueue, Logged
<1>8. ASSUME NEW m \in Msgs, LiveFail(m)
      PROVE  CInv'
  <2>1. /\ live[m] = "pending" /\ Enqueue(m)
        /\ live' = [live EXCEPT ![m] = "over"]
    BY <1>8 DEF LiveFail, Storms
  <2> QED
    BY <2>1, EnqueueCalm
<1>9. ASSUME NEW m \in Msgs, Retry(m)
      PROVE  CInv'
  BY <1>9, RetryStep, QuietCalm DEF Retry, DrainKept, CInv, DrainOfSession
<1>10. CASE GoOffline
  BY <1>10, QuietCalm DEF GoOffline, Unchanged, InQueue, DrainKept, CInv, DrainOfSession
<1>11. CASE GoOnline \/ Tick
  <2>1. UNCHANGED <<session, owner, live, log>>
    BY <1>11 DEF GoOnline, Tick
  <2>2. CASE UNCHANGED drain
    BY <1>11, <2>1, <2>2, TriggerStep, QuietCalm DEF DrainKept, CInv, DrainOfSession
  <2>3. CASE StartDrain(items, TRUE, TRUE)
    <3>1. drain' = drain \/ (~drain.on /\ session = owner' /\ Claims(items))
      <4>1. drain.on \/ drain = Idle
        BY InvParts DEF DrainOK
      <4> QED
        BY <2>3, <4>1, InvParts, StartDrainFacts
    <3>2. DrainKept /\ DrainOfSession'
      BY <2>1, <3>1 DEF DrainKept, Claims, CInv, DrainOfSession
    <3> QED
      BY <1>11, <2>1, <3>2, TriggerStep, QuietCalm
  <2> QED
    BY <1>11, <2>2, <2>3 DEF GoOnline, Tick
<1>12. CASE DrainCommit
  <2>1. /\ drain \in Drains /\ drain.on /\ ~drain.sent
        /\ drain.cur \in Msgs /\ drain.sess \in Users /\ InQueue(drain.cur, drain.sess)
        /\ Append(drain.cur, drain.sess)
        /\ drain' = [drain EXCEPT !.sent = TRUE]
        /\ UNCHANGED <<session, owner, kv, live>>
    BY <1>12, IdleFacts DEF DrainCommit, IInv, DrainOK
  <2>2. drain'.on /\ drain'.sent /\ drain'.cur = drain.cur /\ drain'.sess = drain.sess
    BY <2>1 DEF Drains
  <2>3. \A m \in Msgs, u, v \in Users : ~(InQueue(m, u) /\ Logged(m, v))
    BY <2>1 DEF CInv, QueuedAndLogged
  <2>4. \A v \in Users : log[drain.cur][v] = 0
    <3>1. \A v \in Users : log[drain.cur][v] \in 0..2
      BY <2>1 DEF IInv, TypeOK
    <3> QED
      BY <2>1, <2>3, <3>1 DEF Logged
  <2>5. /\ \A k \in Msgs, v \in Users :
              k # drain.cur \/ v # drain.sess => log'[k][v] = log[k][v]
        /\ log'[drain.cur][drain.sess] = 1
    BY <2>1, <2>4, AppendFacts DEF IInv
  <2>6. live[drain.cur] = "over"
    BY <2>1 DEF IInv, NotQueuedYet
  <2>7. NotYetLogged' /\ SentOnce'
    BY <2>1, <2>4, <2>5, <2>6 DEF CInv, NotYetLogged, SentOnce, Logged
  <2>8. QueuedAndLogged'
    BY <2>1, <2>2, <2>3, <2>5 DEF QueuedAndLogged, InQueue, Logged
  <2> QED
    BY <2>1, <2>2, <2>7, <2>8 DEF CInv, DrainOfSession
<1>13. CASE DrainAck
  BY <1>13, AckCalm
<1>14. CASE DrainFail
  <2>1. ~drain.sent
    BY <1>14 DEF Storms, DrainFail
  <2> QED
    BY <1>14, <2>1, FailCalm
<1>15. CASE Crash
  <2>1. /\ \A m \in Msgs : live'[m] = IF Awaiting(m) THEN "cut" ELSE live[m]
        /\ drain' = Idle /\ UNCHANGED <<kv, log>>
    BY <1>15 DEF Crash
  <2>2. \A m \in Msgs, u, v \in Users : ~(InQueue(m, u) /\ Logged(m, v))
    BY <1>15 DEF Storms, CInv, QueuedAndLogged
  <2>3. NotYetLogged' /\ SentOnce'
    BY <2>1 DEF CInv, NotYetLogged, SentOnce, Logged, Awaiting
  <2>4. QueuedAndLogged' /\ DrainOfSession'
    BY <2>1, <2>2, IdleFacts DEF QueuedAndLogged, DrainOfSession, InQueue, Logged
  <2> QED
    BY <2>3, <2>4 DEF CInv
<1>16. CASE UNCHANGED vars
  BY <1>16, QuietCalm DEF vars, Unchanged, InQueue, DrainKept, CInv, DrainOfSession
<1> QED
  BY <1>1, <1>2, <1>3, <1>4, <1>5, <1>6, <1>7, <1>8, <1>9, <1>10, <1>11, <1>12, <1>13,
     <1>14, <1>15, <1>16 DEF Next

(* The server's log holds every message at most once (outbox-context.tsx:17), for any
   number of accounts and messages and whatever else goes wrong, until an acknowledgement
   is lost or the account changes under a running drain: live sends, triggers and retries
   interleave with the drain in any order, the account may change while a live send is
   awaited, and the app may die. *)
THEOREM SentOnceUntilStorm == WatchedSpec => []SentOnceWhileCalm
<1> DEFINE Inv == IInv /\ (calm => CInv)
<1>1. Init /\ calm = TRUE => Inv
  BY InitInv, InitCalm
<1>2. Inv /\ [Next /\ calm' = (calm /\ ~Storms)]_<<vars, calm>> => Inv'
  <2> SUFFICES ASSUME Inv, [Next /\ calm' = (calm /\ ~Storms)]_<<vars, calm>> PROVE Inv'
    OBVIOUS
  <2>1. IInv'
    BY NextInv
  <2>2. ASSUME calm' PROVE CInv'
    <3>1. CASE Next /\ calm' = (calm /\ ~Storms)
      BY <2>2, <3>1, NextCalm
    <3>2. CASE UNCHANGED <<vars, calm>>
      BY <2>2, <3>2, QuietCalm DEF vars, Unchanged, InQueue, DrainKept, CInv, DrainOfSession
    <3> QED
      BY <3>1, <3>2
  <2> QED
    BY <2>1, <2>2
<1>3. Inv => SentOnceWhileCalm
  BY DEF CInv, SentOnceWhileCalm
<1> QED
  BY <1>1, <1>2, <1>3, PTL DEF WatchedSpec

(* In particular no message is appended twice, with any number of accounts and
   messages, if no response is lost, the app does not die and the account does not
   change under a running drain. *)
THEOREM ExactlyOnce ==
  ASSUME ~LostAcks, ~Crashes, ~SwitchMidDrain
  PROVE  Spec => []SentOnce
<1>1. ~Storms
  BY DEF Storms, DrainFail, Crash, LiveFail, SetSession
<1>2. CInv => SentOnce
  BY DEF CInv
<1>3. IInv /\ CInv /\ [Next]_vars => CInv'
  BY <1>1, NextCalm
<1> QED
  BY <1>2, <1>3, InitCalm, Invariant, PTL DEF Spec
=============================================================================
