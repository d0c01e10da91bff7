----------------------------- MODULE Automation -----------------------------
(***************************************************************************)
(* The automation of one room: ticks that poll a feed and post what is new *)
(* (packages/sdk/src/automations: runner-core.ts, orchestrator.ts), run by *)
(* whichever device the synced registry elects (conductor-init.ts), beside *)
(* manual runs and the ticks of slash commands.                            *)
(*                                                                         *)
(* A tick is a chain of awaits: it works on a snapshot of the registry,    *)
(* fetches, posts, logs a failure, and writes its outcome back.  Time is   *)
(* kept as ages: how long ago the last run was, and when a tick started.   *)
(* Contents of the feed stand for their hashes.                            *)
(***************************************************************************)
EXTENDS Naturals, FiniteSets

CONSTANTS
    Devices,    \* the devices that may run the automation
    Off,        \* stands for the runner while the automation is disabled
    Manual,     \* the ticks of the "Run now" button
    Command,    \* the ticks of slash commands
    Bodies,     \* what the feed may hold
    Errors,     \* what a fetch, a reply or a post may fail with
    Nothing,    \* null
    Every,      \* the cadence; 0 for an automation that runs on every open
    MaxTicks    \* bound on the ticks in progress at one time

ASSUME AutomationConstantsOK ==
    /\ Off \notin Devices
    /\ Manual \notin Devices /\ Command \notin Devices /\ Manual # Command
    /\ Bodies \cap Errors = {}
    /\ Nothing \notin Bodies \cup Errors
    /\ Every \in Nat
    /\ MaxTicks \in Nat

VARIABLES
    meta,       \* the automation's entry in the registry
    feed,       \* what a fetch finds: a content, or an error
    tick,       \* the tick in progress of each device, and of the other kinds
    last,       \* history: the content posted last
    noticed,    \* history: the failure recorded last, if the room was told of it
    disturbed   \* history: the registry may not say what was posted last

avars == <<meta, feed, tick, last, noticed, disturbed>>

Slots == Devices \cup {Manual, Command}

Outcomes == Bodies \cup Errors \cup {Nothing}

Meta == [runner : Devices \cup {Off}, age : 0..Every,
         hash : Bodies \cup {Nothing}, err : Errors \cup {Nothing}]

Ticks == [pc : {"idle", "fetching", "posting", "logging", "writing"},
          age : 0..Every, hash : Bodies \cup {Nothing}, err : Errors \cup {Nothing},
          out : Outcomes]

Idle == [pc |-> "idle", age |-> 0, hash |-> Nothing, err |-> Nothing, out |-> Nothing]

Busy == {k \in Slots : tick[k] # Idle}

----------------------------------------------------------------------------

Init ==
    /\ meta \in {[runner |-> d, age |-> Every, hash |-> Nothing, err |-> Nothing] : d \in Devices}
    /\ feed \in Bodies \cup Errors
    /\ tick = [k \in Slots |-> Idle]
    /\ last = Nothing /\ noticed = Nothing
    /\ disturbed = FALSE

Older(age) == IF age < Every THEN age + 1 ELSE age

(* Time passes for the last run and for every tick in progress. *)
Pass ==
    /\ meta.age < Every \/ \E k \in Busy : tick[k].age < Every
    /\ meta' = [meta EXCEPT !.age = Older(@)]
    /\ tick' = [k \in Slots |-> IF k \in Busy THEN [tick[k] EXCEPT !.age = Older(@)] ELSE Idle]
    /\ UNCHANGED <<feed, last, noticed, disturbed>>

FeedTurns(f) ==
    /\ feed' = f
    /\ f # feed
    /\ UNCHANGED <<meta, tick, last, noticed, disturbed>>

(* The settings sheet: take over, disable, enable. *)
Elect(r) ==
    /\ r # meta.runner
    /\ meta' = [meta EXCEPT !.runner = r]
    /\ UNCHANGED <<feed, tick, last, noticed, disturbed>>

----------------------------------------------------------------------------
(* Where a tick goes next. *)

Goes(k, pc, out) ==
    tick' = [tick EXCEPT ![k] =
                [pc |-> pc, age |-> @.age, hash |-> Nothing,
                 err |-> IF pc = "posting" THEN @.err ELSE Nothing,
                 out |-> out]]

(* A failure is told to the room unless the snapshot holds the same error. *)
Fails(k, e) == Goes(k, IF e = tick[k].err THEN "writing" ELSE "logging", e)

Start(k, hash, err) ==
    /\ tick[k] = Idle
    /\ Cardinality(Busy) < MaxTicks
    /\ tick' = [tick EXCEPT ![k] = [pc |-> "fetching", age |-> 0, hash |-> hash,
                                    err |-> err, out |-> Nothing]]
    /\ disturbed' = (disturbed \/ Busy # {})

(* A faulty form: one minute too soon. *)
DueSoon == meta.age + 1 >= Every

(* The device reads the registry, finds that it is the runner and that a run is
   due, and works on what it has read. *)
Due == meta.age = Every

StartScheduled(d) ==
    /\ meta.runner = d
    /\ Due
    /\ Start(d, meta.hash, meta.err)
    /\ UNCHANGED <<meta, feed, last, noticed>>

(* Run now, and the replies to commands, work on the cached room: its error may
   be an older one. *)
StartOther(k, err) ==
    /\ k \in {Manual, Command}
    /\ Start(k, Nothing, err)
    /\ UNCHANGED <<meta, feed, last, noticed>>

(* A faulty form: the first content after a failure is posted in any case. *)
RepeatsNoFailure(k) == k # Manual /\ feed = tick[k].hash /\ tick[k].err = Nothing

(* Content that the snapshot's hash stands for is not posted again, unless the
   run was forced. *)
Repeats(k) == k # Manual /\ feed = tick[k].hash

Fetched(k) ==
    /\ k # Command
    /\ tick[k].pc = "fetching"
    /\ \/ feed \in Errors /\ Fails(k, feed)
       \/ feed \in Bodies /\ Repeats(k) /\ Goes(k, "writing", Nothing)
       \/ feed \in Bodies /\ ~Repeats(k) /\ Goes(k, "posting", feed)
    /\ UNCHANGED <<meta, feed, last, noticed, disturbed>>

(* The provider's reply to a command is posted, or there is none; or the provider
   throws, or the post fails.  Replies are not what the feed posts. *)
Answered ==
    /\ tick[Command].pc = "fetching"
    /\ \/ Goes(Command, "writing", Nothing)
       \/ \E e \in Errors : Fails(Command, e)
    /\ UNCHANGED <<meta, feed, last, noticed, disturbed>>

(* The server takes the post and says so. *)
Posted(k) ==
    /\ tick[k].pc = "posting"
    /\ Goes(k, "writing", tick[k].out)
    /\ last' = tick[k].out
    /\ UNCHANGED <<meta, feed, noticed, disturbed>>

(* A faulty form: a post that fails is taken for one that was made. *)
PostSwallowed(k, e) ==
    /\ tick[k].pc = "posting"
    /\ Goes(k, "writing", tick[k].out)
    /\ UNCHANGED <<meta, feed, last, noticed, disturbed>>

(* The post is refused, or only its response is lost: failed either way. *)
PostFails(k, e) ==
    /\ tick[k].pc = "posting"
    /\ Fails(k, e)
    /\ \/ UNCHANGED <<last, disturbed>>
       \/ last' = tick[k].out /\ disturbed' = TRUE
    /\ UNCHANGED <<meta, feed, noticed>>

Told(k) ==
    /\ tick[k].pc = "logging"
    /\ Goes(k, "writing", tick[k].out)
    /\ noticed' = tick[k].out
    /\ UNCHANGED <<meta, feed, last, disturbed>>

(* The notice cannot be posted: swallowed. *)
NotTold(k) ==
    /\ tick[k].pc = "logging"
    /\ Goes(k, "writing", tick[k].out)
    /\ noticed' = Nothing
    /\ UNCHANGED <<meta, feed, last, disturbed>>

(* A faulty form: the hash of the content is left out. *)
PatchWithoutHash(m, t) ==
    IF t.out \in Errors THEN [m EXCEPT !.err = t.out]
    ELSE [m EXCEPT !.age = t.age, !.err = Nothing]

(* The outcome as a patch of the registry's entry. *)
tickStatusPatch(m, t) ==
    IF t.out \in Errors THEN [m EXCEPT !.err = t.out]
    ELSE [m EXCEPT !.age = t.age, !.err = Nothing,
                   !.hash = IF t.out \in Bodies THEN t.out ELSE @]

(* A content written by the only tick in progress brings the registry up to date. *)
Written(k) ==
    /\ tick[k].pc = "writing"
    /\ meta' = tickStatusPatch(meta, tick[k])
    /\ tick' = [tick EXCEPT ![k] = Idle]
    /\ noticed' = IF tick[k].out = noticed THEN noticed ELSE Nothing
    /\ disturbed' = (disturbed /\ ~(Busy = {k} /\ tick[k].out \in Bodies /\ tick[k].out = last))
    /\ UNCHANGED <<feed, last>>

(* The registry cannot be written: the tick ends all the same. *)
WriteLost(k) ==
    /\ tick[k].pc = "writing"
    /\ tick' = [tick EXCEPT ![k] = Idle]
    /\ disturbed' = TRUE
    /\ UNCHANGED <<meta, feed, last, noticed>>

(* The app dies, or is suspended, in the middle of a tick. *)
Dies(k) ==
    /\ tick[k] # Idle
    /\ tick' = [tick EXCEPT ![k] = Idle]
    /\ disturbed' = (disturbed \/ tick[k].pc = "writing")
    /\ UNCHANGED <<meta, feed, last, noticed>>

Next ==
    \/ Pass
    \/ \E f \in Bodies \cup Errors : FeedTurns(f)
    \/ \E r \in Devices \cup {Off} : Elect(r)
    \/ \E d \in Devices : StartScheduled(d)
    \/ \E k \in Slots, e \in Errors \cup {Nothing} : StartOther(k, e)
    \/ Answered
    \/ \E k \in Slots : \/ Fetched(k) \/ Posted(k)
                        \/ Told(k) \/ NotTold(k)
                        \/ Written(k) \/ WriteLost(k) \/ Dies(k)
    \/ \E k \in Slots, e \in Errors : PostFails(k, e)

Spec == Init /\ [][Next]_avars

(* The scheduler fires on time; a fetch, a post and a write that are tried again
   and again sooner or later succeed. *)
Fairness ==
    /\ WF_avars(Pass)
    /\ \A d \in Devices :
           /\ WF_avars(StartScheduled(d))
           /\ SF_avars(Fetched(d)) /\ SF_avars(Posted(d))
           /\ SF_avars(Told(d) \/ NotTold(d)) /\ SF_avars(Written(d))

FairSpec == Spec /\ Fairness

----------------------------------------------------------------------------

TypeOK ==
    /\ meta \in Meta
    /\ feed \in Bodies \cup Errors
    /\ tick \in [Slots -> Ticks]
    /\ last \in Bodies \cup {Nothing}
    /\ noticed \in Errors \cup {Nothing}
    /\ disturbed \in BOOLEAN

(* "A feed that keeps returning the same body shouldn't repost every interval"
   (runner-core.ts:128): a scheduled tick about to post has something else than
   the room was given last, as long as no write was lost, no tick was cut short
   after its post, and no two ticks have overlapped since the last content that
   was posted and written in peace. *)
NoRepost ==
    ~disturbed => \A d \in Devices : tick[d].pc = "posting" => tick[d].out # last

(* "Same error every interval -> don't spam" (orchestrator.ts:143): under the same
   conditions a scheduled tick does not tell the room of the failure that is on
   record and that the room was told of. *)
NoSpam ==
    ~disturbed => \A d \in Devices : tick[d].pc = "logging" => tick[d].out # noticed

(* The feed has come to rest, with one runner, no commands and no manual runs. *)
Rests(b, d) == feed = b /\ meta.runner = d /\ tick[Manual] = Idle /\ tick[Command] = Idle

(* A room catches up with a feed at rest (runner-core.ts:124-135 must not take its
   content for a repetition for ever), however the ticks before failed, died or
   changed hands, if the last content posted was also recorded.  Without that it
   may not: if the record was lost and the feed is back at what the registry
   holds, every later tick skips and the room keeps the other content. *)
FollowsFeed ==
    \A b \in Bodies, d \in Devices : <>[](Rests(b, d) /\ ~disturbed) => <>[](last = b)
=============================================================================
