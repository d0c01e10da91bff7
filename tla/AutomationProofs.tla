-------------------------- MODULE AutomationProofs --------------------------
(***************************************************************************)
(* Proofs about Automation, for any number of devices, contents, errors    *)
(* and overlapping ticks: types, no repost, no repeated notice, and the    *)
(* time of the last run.  Then about Tasks, and about the two together.    *)
(*                                                                         *)
(* In peace (~disturbed) one tick is in progress at most, so what it has   *)
(* read of the registry still stands when it posts, and the registry says  *)
(* what was posted last until the tick is about to write something else.   *)
(***************************************************************************)
EXTENDS MCAutomationTasks, FiniteSetTheorems, SequenceTheorems, TLAPS

(* The registry's hash is that of the content posted last, unless the tick that
   posted it is about to say so. *)
CursorFits(t, m, l) == IF t.pc = "writing" /\ t.out \in Bodies THEN t.out = l ELSE m.hash = l

(* The failure the room knows of is the one on record, or about to be. *)
NoticeFits(t, m, n) ==
    n \in {Nothing, m.err} \/ (t.pc = "writing" /\ t.out \in Errors /\ n = t.out)

(* What a scheduled tick has read is what the registry holds, and what it is
   about to do is new. *)
SnapshotFits(t, m, l, n) ==
    /\ t.pc = "fetching" => t.hash = m.hash
    /\ t.pc \in {"fetching", "posting"} => t.err = m.err
    /\ t.pc = "posting" => t.out # l
    /\ t.pc = "logging" => t.out # n

(* A tick t of slot k, a registry m, a last post l and a notice n go together. *)
Fits(k, t, m, l, n) ==
    /\ CursorFits(t, m, l)
    /\ NoticeFits(t, m, n)
    /\ k \in Devices => SnapshotFits(t, m, l, n)
    /\ t # Idle => t.age <= m.age

(* Undisturbed, at most one tick is in progress, and it fits. *)
Peace ==
    ~disturbed => \E k \in Slots : /\ \A j \in Slots \ {k} : tick[j] = Idle
                                   /\ Fits(k, tick[k], meta, last, noticed)

(* What a tick carries suits its stage. *)
Stages ==
    \A k \in Slots :
        /\ tick[k].pc = "posting" => tick[k].out \in Bodies
        /\ tick[k].pc = "logging" => tick[k].out \in Errors

AInv == TypeOK /\ Stages /\ Peace

----------------------------------------------------------------------------

LEMMA InitAInv == Init => AInv
PROOF
  <1> SUFFICES ASSUME Init
               PROVE  AInv
    OBVIOUS
  <1> USE AutomationConstantsOK
  <1>1. meta \in Meta /\ meta.hash = Nothing
    BY DEF Init, Meta
  <1>2. Idle \in Ticks /\ Idle.pc = "idle"
    BY DEF Idle, Ticks, Outcomes
  <1>3. \A k \in Slots : tick[k] = Idle
    BY DEF Init
  <1>4. TypeOK
    BY <1>1, <1>2 DEF Init, TypeOK
  <1>5. Stages
    BY <1>2, <1>3 DEF Stages
  <1>6. Fits(Manual, tick[Manual], meta, last, noticed)
    BY <1>1, <1>2, <1>3 DEF Fits, CursorFits, NoticeFits, Init, Slots
  <1> QED
    BY <1>3, <1>4, <1>5, <1>6 DEF AInv, Peace, Slots

(* One slot's tick changes, to what Goes says; the others stay. *)
LEMMA GoesTo ==
    ASSUME TypeOK, NEW k \in Slots, NEW pc, NEW out, Goes(k, pc, out),
           pc \in {"posting", "logging", "writing"}, out \in Outcomes
    PROVE  /\ tick' \in [Slots -> Ticks]
           /\ tick'[k].pc = pc /\ tick'[k].out = out /\ tick'[k].age = tick[k].age
           /\ pc = "posting" => tick'[k].err = tick[k].err
           /\ \A j \in Slots \ {k} : tick'[j] = tick[j]
PROOF
  <1>1. tick[k] \in Ticks
    BY DEF TypeOK
  <1>2. [pc |-> pc, age |-> tick[k].age, hash |-> Nothing,
         err |-> IF pc = "posting" THEN tick[k].err ELSE Nothing, out |-> out] \in Ticks
    BY <1>1 DEF Ticks
  <1> QED
    BY <1>1, <1>2 DEF Goes, TypeOK

(* A failure goes to the log or straight to the registry. *)
LEMMA FailsTo ==
    ASSUME TypeOK, NEW k \in Slots, NEW e \in Errors, Fails(k, e)
    PROVE  /\ tick' \in [Slots -> Ticks]
           /\ tick'[k].out = e /\ tick'[k].age = tick[k].age
           /\ tick'[k].pc = (IF e = tick[k].err THEN "writing" ELSE "logging")
           /\ \A j \in Slots \ {k} : tick'[j] = tick[j]
PROOF
  <1> DEFINE pc == IF e = tick[k].err THEN "writing" ELSE "logging"
  <1>1. pc \in {"posting", "logging", "writing"} /\ e \in Outcomes
    BY DEF Outcomes
  <1>2. Goes(k, pc, e)
    BY DEF Fails
  <1> HIDE DEF pc
  <1>3. tick' \in [Slots -> Ticks] /\ tick'[k].pc = pc /\ tick'[k].out = e
        /\ tick'[k].age = tick[k].age /\ \A j \in Slots \ {k} : tick'[j] = tick[j]
    BY <1>1, <1>2, GoesTo
  <1> QED
    BY <1>3 DEF pc

(* A tick starts as an empty fetching one; in peace it is alone. *)
LEMMA StartsAs ==
    ASSUME TypeOK, NEW k \in Slots, NEW hash \in Bodies \cup {Nothing},
           NEW err \in Errors \cup {Nothing}, Start(k, hash, err)
    PROVE  /\ tick' \in [Slots -> Ticks]
           /\ tick'[k].pc = "fetching" /\ tick'[k].age = 0
           /\ tick'[k].hash = hash /\ tick'[k].err = err
           /\ \A j \in Slots \ {k} : tick'[j] = tick[j]
           /\ ~disturbed' => ~disturbed /\ \A j \in Slots : tick[j] = Idle
           /\ disturbed' \in BOOLEAN
PROOF
  <1>1. [pc |-> "fetching", age |-> 0, hash |-> hash, err |-> err, out |-> Nothing] \in Ticks
    BY AutomationConstantsOK DEF Ticks, Outcomes
  <1> QED
    BY <1>1 DEF Start, TypeOK, Busy

LEMMA PatchTyped ==
    ASSUME NEW m \in Meta, NEW t \in Ticks
    PROVE  tickStatusPatch(m, t) \in Meta
  BY DEF tickStatusPatch, Meta, Ticks, Outcomes

LEMMA OlderTyped ==
    ASSUME NEW a \in 0..Every
    PROVE  /\ Older(a) \in 0..Every
           /\ \A b \in 0..Every : a <= b => Older(a) <= Older(b)
  BY AutomationConstantsOK DEF Older

----------------------------------------------------------------------------

(* Types. *)

LEMMA TypeStep == TypeOK /\ Stages /\ [Next]_avars => TypeOK'
PROOF
  <1> SUFFICES ASSUME TypeOK, Stages, [Next]_avars
               PROVE  TypeOK'
    OBVIOUS
  <1> USE AutomationConstantsOK
  <1>i. Idle \in Ticks
    BY DEF Idle, Ticks, Outcomes
  <1>o. Nothing \in Outcomes /\ Bodies \subseteq Outcomes /\ Errors \subseteq Outcomes
    BY DEF Outcomes
  <1>t. \A k \in Slots : tick[k] \in Ticks /\ tick[k].out \in Outcomes
    BY DEF TypeOK, Ticks
  <1>m. meta \in Meta /\ meta.hash \in Bodies \cup {Nothing} /\ meta.err \in Errors \cup {Nothing}
    BY DEF TypeOK, Meta
  <1>s. Devices \subseteq Slots /\ Manual \in Slots /\ Command \in Slots
    BY DEF Slots
  <1>1. CASE Pass
    <2>1. meta' \in Meta
      BY <1>1, <1>m, OlderTyped DEF Pass, Meta
    <2>2. ASSUME NEW k \in Slots
          PROVE  [tick[k] EXCEPT !.age = Older(@)] \in Ticks
      BY <1>t, OlderTyped DEF Ticks
    <2>3. tick' \in [Slots -> Ticks]
      BY <1>1, <2>2, <1>i DEF Pass
    <2> QED
      BY <1>1, <2>1, <2>3 DEF Pass, TypeOK
  <1>2. CASE \E f \in Bodies \cup Errors : FeedTurns(f)
    BY <1>2 DEF FeedTurns, TypeOK
  <1>3. CASE \E r \in Devices \cup {Off} : Elect(r)
    <2>1. meta' \in Meta
      BY <1>3, <1>m DEF Elect, Meta
    <2> QED
      BY <1>3, <2>1 DEF Elect, TypeOK
  <1>4. CASE \E d \in Devices : StartScheduled(d)
    <2> PICK d \in Devices : StartScheduled(d)
      BY <1>4
    <2>1. tick' \in [Slots -> Ticks] /\ disturbed' \in BOOLEAN
      BY <1>m, <1>s, StartsAs DEF StartScheduled
    <2> QED
      BY <2>1 DEF StartScheduled, TypeOK
  <1>5. CASE \E k \in Slots, e \in Errors \cup {Nothing} : StartOther(k, e)
    <2> PICK k \in Slots, e \in Errors \cup {Nothing} : StartOther(k, e)
      BY <1>5
    <2>1. tick' \in [Slots -> Ticks] /\ disturbed' \in BOOLEAN
      BY StartsAs DEF StartOther
    <2> QED
      BY <2>1 DEF StartOther, TypeOK
  <1>6. CASE Answered
    <2>1. tick' \in [Slots -> Ticks]
      <3>1. CASE Goes(Command, "writing", Nothing)
        BY <3>1, <1>o, <1>s, GoesTo
      <3>2. CASE \E e \in Errors : Fails(Command, e)
        BY <3>2, <1>s, FailsTo
      <3> QED
        BY <1>6, <3>1, <3>2 DEF Answered
    <2> QED
      BY <1>6, <2>1 DEF Answered, TypeOK
  <1>7. ASSUME NEW k \in Slots, Fetched(k)
        PROVE  TypeOK'
    <2>1. tick' \in [Slots -> Ticks]
      <3>1. CASE feed \in Errors /\ Fails(k, feed)
        BY <3>1, FailsTo
      <3>2. CASE Goes(k, "writing", Nothing)
        BY <3>2, <1>o, GoesTo
      <3>3. CASE feed \in Bodies /\ Goes(k, "posting", feed)
        BY <3>3, <1>o, GoesTo
      <3> QED
        BY <1>7, <3>1, <3>2, <3>3 DEF Fetched
    <2> QED
      BY <1>7, <2>1 DEF Fetched, TypeOK
  <1>8. ASSUME NEW k \in Slots, Posted(k)
        PROVE  TypeOK'
    <2>1. tick' \in [Slots -> Ticks]
      BY <1>8, <1>t, GoesTo DEF Posted
    <2>2. last' \in Bodies \cup {Nothing}
      BY <1>8 DEF Posted, Stages, TypeOK
    <2> QED
      BY <1>8, <2>1, <2>2 DEF Posted, TypeOK
  <1>9. ASSUME NEW k \in Slots, Told(k) \/ NotTold(k)
        PROVE  TypeOK'
    <2>1. tick' \in [Slots -> Ticks]
      BY <1>9, <1>t, GoesTo DEF Told, NotTold
    <2>2. noticed' \in Errors \cup {Nothing}
      BY <1>9 DEF Told, NotTold, Stages
    <2> QED
      BY <1>9, <2>1, <2>2 DEF Told, NotTold, TypeOK
  <1>10. ASSUME NEW k \in Slots, Written(k)
         PROVE  TypeOK'
    <2>1. meta' \in Meta
      BY <1>10, <1>m, <1>t, PatchTyped DEF Written
    <2>2. tick' \in [Slots -> Ticks]
      BY <1>10, <1>i DEF Written, TypeOK
    <2>3. noticed' \in Errors \cup {Nothing} /\ disturbed' \in BOOLEAN
      BY <1>10 DEF Written, TypeOK
    <2> QED
      BY <1>10, <2>1, <2>2, <2>3 DEF Written, TypeOK
  <1>11. ASSUME NEW k \in Slots, WriteLost(k) \/ Dies(k)
         PROVE  TypeOK'
    BY <1>11, <1>i DEF WriteLost, Dies, TypeOK
  <1>12. ASSUME NEW k \in Slots, NEW e \in Errors, PostFails(k, e)
         PROVE  TypeOK'
    <2>1. tick' \in [Slots -> Ticks]
      BY <1>12, FailsTo DEF PostFails
    <2>2. last' \in Bodies \cup {Nothing}
      BY <1>12 DEF PostFails, Stages, TypeOK
    <2>3. disturbed' \in BOOLEAN
      BY <1>12 DEF PostFails, TypeOK
    <2> QED
      BY <1>12, <2>1, <2>2, <2>3 DEF PostFails, TypeOK
  <1>13. CASE UNCHANGED avars
    BY <1>13 DEF avars, TypeOK
  <1> QED
    BY <1>1, <1>2, <1>3, <1>4, <1>5, <1>6, <1>7, <1>8, <1>9, <1>10, <1>11, <1>12, <1>13 DEF Next

----------------------------------------------------------------------------
(* What a tick carries. *)

LEMMA StageStep == TypeOK /\ Stages /\ [Next]_avars => Stages'
PROOF
  <1> SUFFICES ASSUME TypeOK, Stages, [Next]_avars
               PROVE  Stages'
    OBVIOUS
  <1>o. Nothing \in Outcomes /\ Bodies \subseteq Outcomes /\ Errors \subseteq Outcomes
    BY DEF Outcomes
  <1>t. \A k \in Slots : tick[k] \in Ticks /\ tick[k].out \in Outcomes
    BY DEF TypeOK, Ticks
  <1>s. Devices \subseteq Slots /\ Manual \in Slots /\ Command \in Slots
    BY DEF Slots
  <1>i. Idle.pc = "idle"
    BY DEF Idle
  <1>f. ASSUME NEW k \in Slots, NEW e \in Errors, Fails(k, e)
        PROVE  Stages'
    <2>1. /\ \A j \in Slots \ {k} : tick'[j] = tick[j]
          /\ tick'[k].pc \in {"writing", "logging"} /\ tick'[k].out = e
      BY <1>f, FailsTo
    <2> QED
      BY <2>1 DEF Stages
  <1>w. ASSUME NEW k \in Slots, NEW out \in Outcomes, Goes(k, "writing", out)
        PROVE  Stages'
    <2>1. /\ \A j \in Slots \ {k} : tick'[j] = tick[j]
          /\ tick'[k].pc = "writing"
      BY <1>w, GoesTo
    <2> QED
      BY <2>1 DEF Stages
  <1>p. ASSUME NEW k \in Slots, NEW out \in Bodies,
               Goes(k, "posting", out)
        PROVE  Stages'
    <2>1. /\ \A j \in Slots \ {k} : tick'[j] = tick[j]
          /\ tick'[k].pc = "posting" /\ tick'[k].out = out
      BY <1>p, <1>o, GoesTo
    <2> QED
      BY <2>1 DEF Stages
  <1>e. ASSUME NEW k \in Slots, tick' = [tick EXCEPT ![k] = Idle]
        PROVE  Stages'
    BY <1>e, <1>i DEF Stages, TypeOK
  <1>1. CASE Pass
    <2>1. ASSUME NEW k \in Slots
          PROVE  \/ tick'[k] = Idle
                 \/ tick'[k].pc = tick[k].pc /\ tick'[k].out = tick[k].out
      <3>1. tick'[k] = IF k \in Busy THEN [tick[k] EXCEPT !.age = Older(@)] ELSE Idle
        BY <1>1 DEF Pass
      <3>2. [tick[k] EXCEPT !.age = Older(@)].pc = tick[k].pc
            /\ [tick[k] EXCEPT !.age = Older(@)].out = tick[k].out
        BY <1>t DEF Ticks
      <3> QED
        BY <3>1, <3>2
    <2> QED
      BY <2>1, <1>i DEF Stages
  <1>2. CASE (\E f \in Bodies \cup Errors : FeedTurns(f)) \/ (\E r \in Devices \cup {Off} : Elect(r))
    BY <1>2 DEF FeedTurns, Elect, Stages
  <1>3. CASE \E d \in Devices : StartScheduled(d)
    <2> PICK d \in Devices : StartScheduled(d)
      BY <1>3
    <2>1. meta.hash \in Bodies \cup {Nothing} /\ meta.err \in Errors \cup {Nothing}
      BY DEF TypeOK, Meta
    <2>2. /\ \A j \in Slots \ {d} : tick'[j] = tick[j]
          /\ tick'[d].pc = "fetching"
      BY <2>1, <1>s, StartsAs DEF StartScheduled
    <2> QED
      BY <2>2 DEF Stages
  <1>4. CASE \E k \in Slots, e \in Errors \cup {Nothing} : StartOther(k, e)
    <2> PICK k \in Slots, e \in Errors \cup {Nothing} : StartOther(k, e)
      BY <1>4
    <2>1. /\ \A j \in Slots \ {k} : tick'[j] = tick[j]
          /\ tick'[k].pc = "fetching"
      BY StartsAs DEF StartOther
    <2> QED
      BY <2>1 DEF Stages
  <1>5. CASE Answered
    BY <1>5, <1>o, <1>s, <1>f, <1>w DEF Answered
  <1>6. ASSUME NEW k \in Slots, Fetched(k)
        PROVE  Stages'
    BY <1>6, <1>o, <1>f, <1>w, <1>p DEF Fetched
  <1>7. ASSUME NEW k \in Slots, Posted(k) \/ Told(k) \/ NotTold(k)
        PROVE  Stages'
    BY <1>7, <1>t, <1>w DEF Posted, Told, NotTold
  <1>8. ASSUME NEW k \in Slots, Written(k) \/ WriteLost(k) \/ Dies(k)
        PROVE  Stages'
    BY <1>8, <1>e DEF Written, WriteLost, Dies
  <1>9. ASSUME NEW k \in Slots, NEW e \in Errors, PostFails(k, e)
        PROVE  Stages'
    BY <1>9, <1>f DEF PostFails
  <1>10. CASE UNCHANGED avars
    BY <1>10 DEF avars, Stages
  <1> QED
    BY <1>1, <1>2, <1>3, <1>4, <1>5, <1>6, <1>7, <1>8, <1>9, <1>10 DEF Next

----------------------------------------------------------------------------
(* Peace. *)

(* In peace the tick that takes a step is the only one. *)
LEMMA TheOnlyTick ==
    ASSUME Peace, ~disturbed, NEW k \in Slots, tick[k] # Idle
    PROVE  /\ \A j \in Slots \ {k} : tick[j] = Idle
           /\ Fits(k, tick[k], meta, last, noticed)
  BY DEF Peace

LEMMA PeaceStep == AInv /\ [Next]_avars => Peace'
PROOF
  <1> SUFFICES ASSUME TypeOK, Stages, Peace, [Next]_avars, ~disturbed'
               PROVE  \E k \in Slots : /\ \A j \in Slots \ {k} : tick'[j] = Idle
                                       /\ Fits(k, tick'[k], meta', last', noticed')
    BY DEF AInv, Peace
  <1> USE AutomationConstantsOK
  <1> DEFINE OK(k) == /\ \A j \in Slots \ {k} : tick'[j] = Idle
                      /\ Fits(k, tick'[k], meta', last', noticed')
  <1>o. Nothing \in Outcomes /\ Bodies \subseteq Outcomes /\ Errors \subseteq Outcomes
    BY DEF Outcomes
  <1>t. \A k \in Slots : tick[k] \in Ticks /\ tick[k].out \in Outcomes /\ tick[k].age \in 0..Every
    BY DEF TypeOK, Ticks
  <1>m. /\ meta \in Meta /\ meta.age \in 0..Every
        /\ meta.hash \in Bodies \cup {Nothing} /\ meta.err \in Errors \cup {Nothing}
    BY DEF TypeOK, Meta
  <1>s. Devices \subseteq Slots /\ Manual \in Slots /\ Command \in Slots
    BY DEF Slots
  <1>i. Idle.pc = "idle" /\ Idle.out = Nothing
    BY DEF Idle
  <1>f. ASSUME NEW k \in Slots, NEW e \in Errors, Fails(k, e), ~disturbed,
               tick[k].pc \in {"fetching", "posting"}, UNCHANGED <<meta, last, noticed>>
        PROVE  OK(k)
    <2>1. /\ \A j \in Slots \ {k} : tick[j] = Idle
          /\ Fits(k, tick[k], meta, last, noticed)
      BY <1>f, <1>i, TheOnlyTick
    <2>2. /\ tick'[k].out = e /\ tick'[k].age = tick[k].age
          /\ tick'[k].pc = (IF e = tick[k].err THEN "writing" ELSE "logging")
          /\ \A j \in Slots \ {k} : tick'[j] = tick[j]
      BY <1>f, FailsTo
    <2>3. CursorFits(tick'[k], meta, last)
      BY <1>f, <2>1, <2>2 DEF Fits, CursorFits
    <2>4. noticed \in {Nothing, meta.err} /\ NoticeFits(tick'[k], meta, noticed)
      BY <1>f, <2>1 DEF Fits, NoticeFits
    <2>5. k \in Devices => SnapshotFits(tick'[k], meta, last, noticed)
      BY <1>f, <2>1, <2>2, <2>4 DEF Fits, SnapshotFits
    <2>6. tick'[k].age <= meta.age
      BY <1>f, <1>i, <2>1, <2>2 DEF Fits
    <2> QED
      BY <1>f, <2>1, <2>2, <2>3, <2>4, <2>5, <2>6 DEF Fits
  <1>g. ASSUME NEW k \in Slots, NEW pc \in {"posting", "writing"}, NEW out \in Outcomes,
               Goes(k, pc, out), ~disturbed, tick[k].pc \notin {"idle", "writing"},
               UNCHANGED meta,
               CursorFits([pc |-> pc, out |-> out], meta, last'),
               NoticeFits([pc |-> pc, out |-> out], meta, noticed'),
               k \in Devices /\ pc = "posting" => tick[k].pc = "fetching" /\ out # last'
        PROVE  OK(k)
    <2>1. /\ \A j \in Slots \ {k} : tick[j] = Idle
          /\ Fits(k, tick[k], meta, last, noticed)
      BY <1>g, <1>i, TheOnlyTick
    <2>2. /\ tick'[k].pc = pc /\ tick'[k].out = out /\ tick'[k].age = tick[k].age
          /\ pc = "posting" => tick'[k].err = tick[k].err
          /\ \A j \in Slots \ {k} : tick'[j] = tick[j]
      BY <1>g, GoesTo
    <2>3. CursorFits(tick'[k], meta, last') /\ NoticeFits(tick'[k], meta, noticed')
      BY <1>g, <2>2 DEF CursorFits, NoticeFits
    <2>4. k \in Devices => SnapshotFits(tick'[k], meta, last', noticed')
      BY <1>g, <2>1, <2>2 DEF Fits, SnapshotFits
    <2>5. tick'[k].age <= meta.age
      BY <1>g, <1>i, <2>1, <2>2 DEF Fits
    <2> QED
      BY <1>g, <2>1, <2>2, <2>3, <2>4, <2>5 DEF Fits
  <1>1. CASE Pass
    <2> PICK k \in Slots : /\ \A j \in Slots \ {k} : tick[j] = Idle
                           /\ Fits(k, tick[k], meta, last, noticed)
      BY <1>1 DEF Pass, Peace
    <2>1. \A j \in Slots : tick'[j] = IF j \in Busy THEN [tick[j] EXCEPT !.age = Older(@)] ELSE Idle
      BY <1>1 DEF Pass
    <2>2. \A j \in Slots \ {k} : tick'[j] = Idle
      BY <2>1 DEF Busy
    <2>3. /\ meta'.age = Older(meta.age)
          /\ meta'.hash = meta.hash /\ meta'.err = meta.err
      BY <1>1, <1>m DEF Pass, Meta
    <2>4. UNCHANGED <<last, noticed>>
      BY <1>1 DEF Pass
    <2>5. CASE tick[k] = Idle
      BY <2>1, <2>2, <2>3, <2>4, <2>5, <1>i
         DEF Busy, Fits, CursorFits, NoticeFits, SnapshotFits
    <2>6. CASE tick[k] # Idle
      <3>1. tick'[k] = [tick[k] EXCEPT !.age = Older(@)]
        BY <2>1, <2>6 DEF Busy
      <3>2. /\ tick'[k].age = Older(tick[k].age)
            /\ tick'[k].pc = tick[k].pc /\ tick'[k].out = tick[k].out
            /\ tick'[k].hash = tick[k].hash /\ tick'[k].err = tick[k].err
        BY <3>1, <1>t DEF Ticks
      <3>3. tick'[k].age <= meta'.age
        BY <3>2, <2>3, <2>6, <1>t, <1>m, OlderTyped DEF Fits
      <3>4. CursorFits(tick'[k], meta', last') /\ NoticeFits(tick'[k], meta', noticed')
        BY <3>2, <2>3, <2>4 DEF Fits, CursorFits, NoticeFits
      <3>5. k \in Devices => SnapshotFits(tick'[k], meta', last', noticed')
        BY <3>2, <2>3, <2>4 DEF Fits, SnapshotFits
      <3> QED
        BY <3>3, <3>4, <3>5, <2>2 DEF Fits
    <2> QED
      BY <2>5, <2>6
  <1>2. CASE \E f \in Bodies \cup Errors : FeedTurns(f)
    BY <1>2 DEF FeedTurns, Peace
  <1>3. CASE \E r \in Devices \cup {Off} : Elect(r)
    <2>1. meta'.age = meta.age /\ meta'.hash = meta.hash /\ meta'.err = meta.err
      BY <1>3, <1>m DEF Elect, Meta
    <2>2. UNCHANGED <<tick, last, noticed, disturbed>>
      BY <1>3 DEF Elect
    <2> PICK k \in Slots : /\ \A j \in Slots \ {k} : tick[j] = Idle
                           /\ Fits(k, tick[k], meta, last, noticed)
      BY <2>2 DEF Peace
    <2>3. Fits(k, tick[k], meta', last, noticed)
      BY <2>1 DEF Fits, CursorFits, NoticeFits, SnapshotFits
    <2> QED
      BY <2>2, <2>3
  <1>4. ASSUME NEW k \in Slots, NEW hash \in Bodies \cup {Nothing},
               NEW err \in Errors \cup {Nothing}, Start(k, hash, err),
               k \in Devices => hash = meta.hash /\ err = meta.err,
               UNCHANGED <<meta, last, noticed>>
        PROVE  OK(k)
    <2>1. /\ tick'[k].pc = "fetching" /\ tick'[k].age = 0
          /\ tick'[k].hash = hash /\ tick'[k].err = err
          /\ \A j \in Slots \ {k} : tick'[j] = tick[j]
          /\ ~disturbed /\ \A j \in Slots : tick[j] = Idle
      BY <1>4, StartsAs
    <2>2. CursorFits(Idle, meta, last) /\ NoticeFits(Idle, meta, noticed)
      BY <2>1 DEF Peace, Fits
    <2>3. CursorFits(tick'[k], meta, last) /\ NoticeFits(tick'[k], meta, noticed)
      BY <2>1, <2>2, <1>i DEF CursorFits, NoticeFits
    <2>4. k \in Devices => SnapshotFits(tick'[k], meta, last, noticed)
      BY <1>4, <2>1 DEF SnapshotFits
    <2> QED
      BY <1>4, <2>1, <2>3, <2>4, <1>m DEF Fits
  <1>5. CASE \E d \in Devices : StartScheduled(d)
    BY <1>5, <1>4, <1>m, <1>s DEF StartScheduled
  <1>6. CASE \E k \in Slots, e \in Errors \cup {Nothing} : StartOther(k, e)
    BY <1>6, <1>4 DEF StartOther
  <1>7. CASE Answered
    <2>0. /\ tick[Command].pc = "fetching" /\ ~disturbed
          /\ UNCHANGED <<meta, last, noticed>>
      BY <1>7 DEF Answered
    <2>1. ASSUME Goes(Command, "writing", Nothing)
          PROVE  OK(Command)
      <3>1. Fits(Command, tick[Command], meta, last, noticed)
        BY <2>0, <1>i, <1>s, TheOnlyTick
      <3>2. /\ CursorFits([pc |-> "writing", out |-> Nothing], meta, last')
            /\ NoticeFits([pc |-> "writing", out |-> Nothing], meta, noticed')
        BY <2>0, <3>1 DEF Fits, CursorFits, NoticeFits
      <3> QED
        BY <2>0, <2>1, <3>2, <1>g, <1>o, <1>s
    <2> QED
      BY <1>7, <2>0, <2>1, <1>f, <1>s DEF Answered
  <1>8. ASSUME NEW k \in Slots, Fetched(k)
        PROVE  OK(k)
    <2>0. /\ tick[k].pc = "fetching" /\ ~disturbed
          /\ UNCHANGED <<meta, last, noticed>>
      BY <1>8 DEF Fetched
    <2>1. Fits(k, tick[k], meta, last, noticed)
      BY <2>0, <1>i, TheOnlyTick
    <2>2. ASSUME NEW pc \in {"posting", "writing"}, NEW out \in Bodies \cup {Nothing},
                 Goes(k, pc, out), pc = "writing" => out = Nothing,
                 k \in Devices /\ pc = "posting" => out # tick[k].hash
          PROVE  OK(k)
      <3>1. /\ CursorFits([pc |-> pc, out |-> out], meta, last')
            /\ NoticeFits([pc |-> pc, out |-> out], meta, noticed')
        BY <2>0, <2>1, <2>2 DEF Fits, CursorFits, NoticeFits
      <3>2. k \in Devices /\ pc = "posting" => out # last'
        BY <2>0, <2>1, <2>2 DEF Fits, CursorFits, SnapshotFits
      <3> QED
        BY <2>0, <2>2, <3>1, <3>2, <1>g, <1>o
    <2>3. CASE feed \in Errors /\ Fails(k, feed)
      BY <2>0, <2>3, <1>f
    <2>4. CASE Goes(k, "writing", Nothing)
      BY <2>2, <2>4
    <2>5. CASE feed \in Bodies /\ ~Repeats(k) /\ Goes(k, "posting", feed)
      BY <2>2, <2>5 DEF Repeats
    <2> QED
      BY <1>8, <2>3, <2>4, <2>5 DEF Fetched
  <1>9. ASSUME NEW k \in Slots, Posted(k)
        PROVE  OK(k)
    <2>0. /\ tick[k].pc = "posting" /\ ~disturbed /\ Goes(k, "writing", tick[k].out)
          /\ UNCHANGED <<meta, noticed>>
          /\ last' = tick[k].out
      BY <1>9 DEF Posted
    <2>1. Fits(k, tick[k], meta, last, noticed)
      BY <2>0, <1>i, TheOnlyTick
    <2>2. tick[k].out \in Bodies
      BY <2>0 DEF Stages
    <2>3. /\ CursorFits([pc |-> "writing", out |-> tick[k].out], meta, last')
          /\ NoticeFits([pc |-> "writing", out |-> tick[k].out], meta, noticed')
      BY <2>0, <2>1, <2>2 DEF Fits, CursorFits, NoticeFits
    <2> QED
      BY <2>0, <2>3, <1>g, <1>t
  <1>10. ASSUME NEW k \in Slots, Told(k) \/ NotTold(k)
         PROVE  OK(k)
    <2>0. /\ tick[k].pc = "logging" /\ ~disturbed /\ Goes(k, "writing", tick[k].out)
          /\ UNCHANGED <<meta, last>> /\ noticed' \in {Nothing, tick[k].out}
      BY <1>10 DEF Told, NotTold
    <2>1. Fits(k, tick[k], meta, last, noticed) /\ tick[k].out \in Errors
      BY <2>0, <1>i, TheOnlyTick DEF Stages
    <2>2. /\ CursorFits([pc |-> "writing", out |-> tick[k].out], meta, last')
          /\ NoticeFits([pc |-> "writing", out |-> tick[k].out], meta, noticed')
      BY <2>0, <2>1 DEF Fits, CursorFits, NoticeFits
    <2> QED
      BY <2>0, <2>2, <1>g, <1>t
  <1>11. ASSUME NEW k \in Slots, Written(k)
         PROVE  OK(k)
    <2>0. /\ tick[k].pc = "writing" /\ tick' = [tick EXCEPT ![k] = Idle]
          /\ meta' = tickStatusPatch(meta, tick[k])
          /\ noticed' = (IF tick[k].out = noticed THEN noticed ELSE Nothing)
          /\ last' = last
          /\ ~disturbed \/ (Busy = {k} /\ tick[k].out \in Bodies /\ tick[k].out = last)
      BY <1>11 DEF Written
    <2>1. /\ \A j \in Slots \ {k} : tick[j] = Idle
          /\ tick[k].out \in Bodies => tick[k].out = last
          /\ tick[k].out \notin Bodies => meta.hash = last
      BY <2>0, <1>i, TheOnlyTick DEF Fits, CursorFits, Busy
    <2>2. /\ tick'[k] = Idle
          /\ \A j \in Slots \ {k} : tick'[j] = Idle
      BY <2>0, <2>1 DEF TypeOK
    <2>3. meta'.hash = last'
      BY <2>0, <2>1, <1>m, <1>t DEF tickStatusPatch, Meta
    <2>4. tick[k].out \in Errors => meta'.err = tick[k].out
      BY <2>0, <1>m DEF tickStatusPatch, Meta
    <2>5. noticed' \in {Nothing, meta'.err}
      BY <2>0, <2>4 DEF TypeOK
    <2> QED
      BY <2>2, <2>3, <2>5, <1>i DEF Fits, CursorFits, NoticeFits, SnapshotFits
  <1>12. ASSUME NEW k \in Slots, WriteLost(k) \/ Dies(k)
         PROVE  OK(k)
    <2>0. /\ tick[k].pc # "writing" /\ tick[k] # Idle /\ ~disturbed
          /\ tick' = [tick EXCEPT ![k] = Idle]
          /\ UNCHANGED <<meta, last, noticed>>
      BY <1>12 DEF WriteLost, Dies
    <2>1. /\ \A j \in Slots \ {k} : tick[j] = Idle
          /\ Fits(k, tick[k], meta, last, noticed)
      BY <2>0, TheOnlyTick
    <2>2. /\ tick'[k] = Idle
          /\ \A j \in Slots \ {k} : tick'[j] = Idle
      BY <2>0, <2>1 DEF TypeOK
    <2> QED
      BY <2>0, <2>1, <2>2, <1>i DEF Fits, CursorFits, NoticeFits, SnapshotFits
  <1>13. ASSUME NEW k \in Slots, NEW e \in Errors, PostFails(k, e)
         PROVE  OK(k)
    <2>1. /\ tick[k].pc = "posting" /\ Fails(k, e) /\ ~disturbed
          /\ UNCHANGED <<meta, last, noticed>>
      BY <1>13 DEF PostFails
    <2> QED
      BY <2>1, <1>f
  <1>14. CASE UNCHANGED avars
    BY <1>14 DEF avars, Peace
  <1> QED
    BY <1>1, <1>2, <1>3, <1>5, <1>6, <1>7, <1>8, <1>9, <1>10, <1>11, <1>12, <1>13, <1>14,
       <1>s DEF Next

----------------------------------------------------------------------------

(* The inductive invariant holds in every reachable state. *)
THEOREM AutomationInvariant == Spec => []AInv
PROOF
  <1>1. AInv /\ [Next]_avars => AInv'
    BY TypeStep, StageStep, PeaceStep DEF AInv
  <1> QED
    BY InitAInv, <1>1, PTL DEF Spec

(* Every variable keeps its type: no error is ever recorded as a content. *)
THEOREM AutomationTypeCorrect == Spec => []TypeOK
PROOF
  <1>1. AInv => TypeOK
    BY DEF AInv
  <1> QED
    BY AutomationInvariant, <1>1, PTL

(* A scheduled tick does not post again what the room was given last. *)
THEOREM PostedOnce == Spec => []NoRepost
PROOF
  <1>1. AInv => NoRepost
    <2> SUFFICES ASSUME AInv, ~disturbed, NEW d \in Devices, tick[d].pc = "posting"
                 PROVE  tick[d].out # last
      BY DEF NoRepost
    <2>1. d \in Slots /\ tick[d] # Idle
      BY DEF Slots, Idle
    <2> QED
      BY <2>1, TheOnlyTick DEF AInv, Fits, SnapshotFits
  <1> QED
    BY AutomationInvariant, <1>1, PTL

(* A scheduled tick does not tell the room of a failure it was told of last. *)
THEOREM ToldOnce == Spec => []NoSpam
PROOF
  <1>1. AInv => NoSpam
    <2> SUFFICES ASSUME AInv, ~disturbed, NEW d \in Devices, tick[d].pc = "logging"
                 PROVE  tick[d].out # noticed
      BY DEF NoSpam
    <2>1. d \in Slots /\ tick[d] # Idle
      BY DEF Slots, Idle
    <2> QED
      BY <2>1, TheOnlyTick DEF AInv, Fits, SnapshotFits
  <1> QED
    BY AutomationInvariant, <1>1, PTL

----------------------------------------------------------------------------
(* What mishaps cost.  A tick in progress that was overtaken may set the last run
   back when it ends, and as long as the registry is behind, the next scheduled tick
   starts ahead: the account covers both. *)

Overtaken == Busy \ {front}

Behind == meta.age > ran \/ ahead

AccountTyped ==
    /\ ran \in 0..Every /\ early \in Int /\ ahead \in BOOLEAN
    /\ front \in Busy \cup {Nothing}
    /\ \A k \in Busy : tick[k].pc # "idle"

(* The tick at the front started last of those in progress and of those that have run. *)
FrontIsYoungest ==
    /\ ran <= meta.age
    /\ ahead => front # Nothing
    /\ front # Nothing => /\ tick[front].age <= ran
                          /\ \A k \in Busy : tick[front].age <= tick[k].age

Covered == early >= Cardinality(Overtaken) + If(Behind)

AccountInv == TypeOK /\ Stages /\ AccountTyped /\ FrontIsYoungest /\ Covered

LEMMA SlotsFinite ==
    /\ IsFiniteSet(Busy) /\ Cardinality(Busy) \in Nat
    /\ IsFiniteSet(Overtaken) /\ Cardinality(Overtaken) \in Nat
PROOF
  <1>1. IsFiniteSet({} \cup {Manual}) /\ IsFiniteSet(({} \cup {Manual}) \cup {Command})
    BY FS_EmptySet, FS_AddElement
  <1>2. IsFiniteSet({Manual, Command})
    <2>1. {Manual, Command} = ({} \cup {Manual}) \cup {Command}
      OBVIOUS
    <2> QED
      BY <1>1, <2>1
  <1>3. IsFiniteSet(Slots)
    BY <1>2, WatchConstantsOK, FS_Union DEF Slots
  <1>4. IsFiniteSet(Busy) /\ IsFiniteSet(Overtaken)
    BY <1>3, FS_Subset DEF Busy, Overtaken
  <1> QED
    BY <1>4, FS_CardinalityType

(* Ages of the ticks in progress and the record stay: nothing is to be accounted for. *)
LEMMA NothingEnds ==
    ASSUME AccountInv, TypeOK', Stages', UNCHANGED <<front, ahead, ran, early>>,
           meta'.age = meta.age,
           \A k \in Slots : /\ tick[k] = Idle <=> tick'[k] = Idle
                            /\ tick'[k].age = tick[k].age
                            /\ tick[k] # Idle => tick'[k].pc # "idle"
    PROVE  AccountInv'
PROOF
  <1>1. Busy' = Busy
    BY DEF Busy
  <1>2. Overtaken' = Overtaken /\ Behind' = Behind
    BY <1>1 DEF Overtaken, Behind
  <1>3. AccountTyped'
    BY <1>1 DEF AccountInv, AccountTyped, Busy
  <1>4. FrontIsYoungest'
    BY <1>1, <1>3, WatchConstantsOK DEF AccountInv, FrontIsYoungest, AccountTyped, Busy
  <1>5. Covered'
    BY <1>2 DEF AccountInv, Covered, If
  <1> QED
    BY <1>3, <1>4, <1>5 DEF AccountInv

LEMMA PassCovered ==
    ASSUME AccountInv, TypeOK', Stages', WatchedPass
    PROVE  AccountInv'
PROOF
  <1> USE AutomationConstantsOK
  <1>m. meta.age \in 0..Every /\ meta'.age = Older(meta.age) /\ ran \in 0..Every /\ ran' = Older(ran)
    BY DEF WatchedPass, Pass, AccountInv, TypeOK, Meta, AccountTyped
  <1>k. \A k \in Busy : /\ tick[k].age \in 0..Every /\ tick'[k].age = Older(tick[k].age)
                        /\ tick'[k].pc = tick[k].pc /\ tick'[k].pc # "idle"
    BY DEF WatchedPass, Pass, AccountInv, TypeOK, Ticks, AccountTyped, Busy
  <1>1. Busy' = Busy
    BY <1>k DEF Busy, Idle, WatchedPass, Pass
  <1>2. UNCHANGED <<front, ahead, early>>
    BY DEF WatchedPass
  <1>3. Overtaken' = Overtaken
    BY <1>1, <1>2 DEF Overtaken
  <1>4. AccountTyped'
    BY <1>1, <1>2, <1>k, <1>m, OlderTyped DEF AccountInv, AccountTyped
  <1>5. FrontIsYoungest'
    BY <1>1, <1>2, <1>k, <1>m, OlderTyped, WatchConstantsOK
       DEF AccountInv, FrontIsYoungest, AccountTyped
  <1>6. Behind' => Behind
    BY <1>m, <1>2 DEF Behind, Older, AccountInv, FrontIsYoungest
  <1>7. Covered'
    BY <1>2, <1>3, <1>6, SlotsFinite DEF AccountInv, Covered, If, AccountTyped
  <1> QED
    BY <1>4, <1>5, <1>7 DEF AccountInv

(* A tick that starts is the youngest; if there was one at the front, it is overtaken
   and counted. *)
LEMMA StartCovered ==
    ASSUME AccountInv, TypeOK', Stages', NEW k \in Slots, WatchedStart(k)
    PROVE  AccountInv'
PROOF
  <1> USE AutomationConstantsOK, WatchConstantsOK
  <1>1. /\ tick[k] = Idle /\ tick'[k].pc = "fetching" /\ tick'[k].age = 0
        /\ \A j \in Slots \ {k} : tick'[j] = tick[j]
        /\ meta' = meta
    <2>1. \E hash, err : Start(k, hash, err)
      BY DEF WatchedStart, StartScheduled, StartOther
    <2>2. meta' = meta
      BY DEF WatchedStart, StartScheduled, StartOther
    <2>3. tick \in [Slots -> Ticks]
      BY DEF AccountInv, TypeOK
    <2> QED
      BY <2>1, <2>2, <2>3 DEF Start
  <1>2. /\ front' = k /\ ran' = ran
        /\ early' = early + If(front # Nothing)
        /\ ahead' = (ahead' /\ ran < Every /\ meta.age = Every)
        /\ ahead' \in BOOLEAN
    BY DEF WatchedStart, Starts, StartScheduled, Due
  <1>t. /\ meta.age \in 0..Every /\ ran \in 0..Every /\ early \in Int /\ ran <= meta.age
        /\ \A j \in Slots : tick'[j].age \in 0..Every
    BY DEF AccountInv, TypeOK, Meta, Ticks, AccountTyped, FrontIsYoungest
  <1>3. k \notin Busy /\ Busy' = Busy \cup {k} /\ Overtaken' = Busy
    BY <1>1, <1>2 DEF Busy, Idle, Overtaken
  <1>4. AccountTyped'
    BY <1>1, <1>2, <1>3, <1>t DEF AccountInv, AccountTyped, If, Busy
  <1>5. FrontIsYoungest'
    BY <1>1, <1>2, <1>3, <1>t DEF FrontIsYoungest, Busy
  <1>6. Cardinality(Busy) <= Cardinality(Overtaken) + If(front # Nothing)
    <2>1. CASE front = Nothing
      <3>1. Overtaken = Busy
        BY <2>1 DEF Overtaken, Busy
      <3> QED
        BY <3>1, <2>1, SlotsFinite DEF If
    <2>2. CASE front \in Busy
      <3>1. Cardinality(Overtaken) = Cardinality(Busy) - 1
        BY <2>2, SlotsFinite, FS_RemoveElement DEF Overtaken
      <3>2. front # Nothing
        BY <2>2 DEF Busy
      <3> QED
        BY <3>1, <3>2, SlotsFinite DEF If
    <2> QED
      BY <2>1, <2>2 DEF AccountInv, AccountTyped
  <1>7. Behind' => Behind
    BY <1>1, <1>2, <1>t DEF Behind
  <1>8. Covered'
    BY <1>2, <1>3, <1>6, <1>7, <1>t, SlotsFinite DEF AccountInv, Covered, If
  <1> QED
    BY <1>4, <1>5, <1>8 DEF AccountInv

(* A tick that ends without having been overtaken leaves the registry at its own start,
   or is no run, or is counted as lost; one that was overtaken was counted then. *)
LEMMA EndCovered ==
    ASSUME AccountInv, TypeOK', Stages', NEW k \in Slots, tick[k] # Idle,
           tick' = [tick EXCEPT ![k] = Idle],
           NEW run \in BOOLEAN, NEW credit \in {0, 1}, RunEnds(k, run, credit),
           meta'.age = IF run /\ credit = 0 THEN tick[k].age ELSE meta.age
    PROVE  AccountInv'
PROOF
  <1> USE AutomationConstantsOK, WatchConstantsOK
  <1> DEFINE owed == early + credit - If(run /\ front = k /\ ahead)
  <1>1. /\ ran' = IF run /\ tick[k].age < ran THEN tick[k].age ELSE ran
        /\ front' = IF front = k THEN Nothing ELSE front
        /\ ahead' = (front # k /\ ahead)
        /\ early' = owed \/ (early' = 0 /\ Busy = {k} /\ ran' = meta'.age)
    BY DEF RunEnds
  <1>2. k \in Busy /\ Busy' = Busy \ {k} /\ k # Nothing
    BY DEF Busy, AccountInv, TypeOK
  <1>t. /\ meta.age \in 0..Every /\ ran \in 0..Every /\ early \in Int /\ ran <= meta.age
        /\ \A j \in Slots : tick[j].age \in 0..Every
        /\ owed \in Int /\ ahead \in BOOLEAN
    BY DEF AccountInv, TypeOK, Meta, Ticks, AccountTyped, FrontIsYoungest, If
  <1>s. \A j \in Slots \ {k} : tick'[j] = tick[j]
    BY DEF AccountInv, TypeOK
  <1>3. AccountTyped'
    <2>1. ran' \in 0..Every /\ early' \in Int /\ ahead' \in BOOLEAN
      BY <1>1, <1>t
    <2>2. front' \in Busy' \cup {Nothing}
      BY <1>1, <1>2 DEF AccountInv, AccountTyped
    <2>3. \A j \in Busy' : tick'[j].pc # "idle"
      BY <1>2, <1>s DEF AccountInv, AccountTyped, Busy
    <2> QED
      BY <2>1, <2>2, <2>3 DEF AccountTyped
  <1>4. FrontIsYoungest'
    <2>1. ran' <= meta'.age
      BY <1>1, <1>t
    <2>2. ahead' => front' # Nothing
      BY <1>1 DEF AccountInv, FrontIsYoungest
    <2>3. ASSUME front' # Nothing
          PROVE  /\ tick'[front'].age <= ran'
                 /\ \A j \in Busy' : tick'[front'].age <= tick'[j].age
      <3>1. front' = front /\ front # k /\ front \in Busy /\ front \in Slots
        BY <2>3, <1>1 DEF AccountInv, AccountTyped, Busy
      <3>2. tick[front].age <= ran /\ \A j \in Busy : tick[front].age <= tick[j].age
        BY <2>3, <3>1 DEF AccountInv, FrontIsYoungest
      <3>3. tick'[front] = tick[front] /\ \A j \in Busy' : j \in Busy /\ tick'[j] = tick[j]
        BY <3>1, <1>2, <1>s DEF Busy
      <3> QED
        BY <3>1, <3>2, <3>3, <1>1, <1>2
    <2> QED
      BY <2>1, <2>2, <2>3 DEF FrontIsYoungest
  <1>5. Cardinality(Overtaken') = Cardinality(Overtaken) - If(front # k)
    <2>1. CASE front = k
      <3>1. Overtaken' = Overtaken
        BY <2>1, <1>1, <1>2 DEF Overtaken, Busy
      <3> QED
        BY <3>1, <2>1, SlotsFinite DEF If
    <2>2. CASE front # k
      <3>1. Overtaken' = Overtaken \ {k} /\ k \in Overtaken
        BY <2>2, <1>1, <1>2 DEF Overtaken
      <3> QED
        BY <3>1, <2>2, SlotsFinite, FS_RemoveElement DEF If
    <2> QED
      BY <2>1, <2>2
  <1>6. CASE early' = owed
    <2>1. CASE front # k
      <3>1. early' = early + credit
        BY <2>1, <1>6, <1>t DEF If
      <3>2. Cardinality(Overtaken') = Cardinality(Overtaken) - 1
        BY <2>1, <1>5, SlotsFinite DEF If
      <3>3. early >= Cardinality(Overtaken)
        BY <1>t, SlotsFinite DEF AccountInv, Covered, If
      <3>4. If(Behind') \in {0, 1}
        BY DEF If
      <3>5. early' >= Cardinality(Overtaken') + If(Behind')
        BY <3>1, <3>2, <3>3, <3>4, <1>t, SlotsFinite
      <3> QED
        BY <3>5, <1>3, <1>4 DEF AccountInv, Covered, If
    <2>2. CASE front = k
      <3>1. tick[k].age <= ran
        BY <2>2, <1>2 DEF AccountInv, FrontIsYoungest
      <3>2. run /\ credit = 0 => ~Behind'
        <4> SUFFICES ASSUME run, credit = 0
                     PROVE  ~Behind'
          OBVIOUS
        <4>1. meta'.age = tick[k].age /\ tick[k].age \in 0..Every
          BY <1>t
        <4>2. ran' = tick[k].age
          BY <3>1, <4>1, <1>1, <1>t
        <4>3. ~ahead'
          BY <2>2, <1>1
        <4> QED
          BY <4>1, <4>2, <4>3 DEF Behind
      <3>3. ~run => (Behind' => Behind)
        BY <2>2, <1>1, <1>t DEF Behind
      <3>4. ahead => Behind
        BY DEF Behind
      <3>5. If(Behind') <= If(Behind) + credit - If(run /\ ahead)
        BY <3>2, <3>3, <3>4, <1>t DEF If
      <3>6. early >= Cardinality(Overtaken) + If(Behind)
        BY DEF AccountInv, Covered
      <3>7. Cardinality(Overtaken') = Cardinality(Overtaken)
        BY <1>5, <2>2, SlotsFinite DEF If
      <3>8. owed = early + credit - If(run /\ ahead)
        BY <2>2
      <3> HIDE DEF owed
      <3>9. If(Behind) \in Int /\ If(Behind') \in Int /\ If(run /\ ahead) \in Int
        BY DEF If
      <3>10. owed >= Cardinality(Overtaken') + If(Behind')
        BY <3>5, <3>6, <3>7, <3>8, <3>9, <1>t, SlotsFinite
      <3>11. Covered' <=> early' >= Cardinality(Overtaken') + If(Behind')
        BY DEF Covered, If
      <3> QED
        BY <3>10, <3>11, <1>6, <1>3, <1>4 DEF AccountInv
    <2> QED
      BY <2>1, <2>2, <1>3, <1>4 DEF AccountInv
  <1>7. CASE early' = 0 /\ Busy = {k} /\ ran' = meta'.age
    <2>1. Overtaken' = {} /\ front' = Nothing /\ ~ahead'
      BY <1>7, <1>1, <1>2, <1>4 DEF Overtaken, AccountInv, AccountTyped, FrontIsYoungest
    <2>2. ~Behind'
      BY <1>7, <2>1, <1>1, <1>t DEF Behind
    <2>3. Covered'
      BY <2>1, <2>2, <1>7, FS_EmptySet DEF Covered, If
    <2> QED
      BY <2>3, <1>3, <1>4 DEF AccountInv
  <1> QED
    BY <1>1, <1>6, <1>7

LEMMA WatchedSteps == [WatchedNext]_wvars => [Next]_avars
  BY Zenon DEF WatchedNext, WatchedPass, WatchedStart, WatchedPosted, WatchedPostFails, WatchedWritten,
         WatchedLost, WatchedDies, Unwatched, Next, wvars

LEMMA AccountStep == AccountInv /\ [WatchedNext]_wvars => AccountInv'
PROOF
  <1> SUFFICES ASSUME AccountInv, [WatchedNext]_wvars
               PROVE  AccountInv'
    OBVIOUS
  <1> USE AutomationConstantsOK
  <1>i. TypeOK' /\ Stages'
    BY WatchedSteps, TypeStep, StageStep DEF AccountInv
  <1>t. \A k \in Slots : tick[k] \in Ticks
    BY DEF AccountInv, TypeOK
  <1>g. ASSUME NEW k \in Slots, NEW pc \in {"posting", "logging", "writing"}, NEW out,
               tick[k].pc # "idle", Goes(k, pc, out), meta' = meta,
               UNCHANGED <<front, ahead, ran, early>>
        PROVE  AccountInv'
    <2>1. tick'[k].pc = pc /\ tick'[k].age = tick[k].age /\ \A j \in Slots \ {k} : tick'[j] = tick[j]
      BY <1>g DEF Goes, AccountInv, TypeOK
    <2>2. tick[k] # Idle /\ tick'[k] # Idle
      BY <1>g, <2>1 DEF Idle
    <2>3. \A j \in Slots : /\ tick[j] = Idle <=> tick'[j] = Idle
                           /\ tick'[j].age = tick[j].age
                           /\ tick[j] # Idle => tick'[j].pc # "idle"
      BY <2>1, <2>2, <1>g DEF AccountInv, AccountTyped, Busy
    <2> QED
      BY <2>3, <1>g, <1>i, NothingEnds
  <1>1. CASE WatchedPass
    BY <1>1, <1>i, PassCovered
  <1>2. CASE Unwatched
    <2>h. UNCHANGED <<front, ahead, ran, early>>
      BY <1>2 DEF Unwatched, hvars
    <2>1. CASE \E f \in Bodies \cup Errors : FeedTurns(f)
      BY <2>1, <2>h, <1>i, NothingEnds DEF FeedTurns, AccountInv, AccountTyped, Busy
    <2>2. CASE \E r \in Devices \cup {Off} : Elect(r)
      <3>1. meta'.age = meta.age /\ tick' = tick
        BY <2>2 DEF Elect, AccountInv, TypeOK, Meta
      <3> QED
        BY <3>1, <2>h, <1>i, NothingEnds DEF AccountInv, AccountTyped, Busy
    <2>3. CASE Answered
      BY <2>3, <2>h, <1>g DEF Answered, Fails, Slots
    <2>4. ASSUME NEW k \in Slots, Fetched(k)
          PROVE  AccountInv'
      BY <2>4, <2>h, <1>g DEF Fetched, Fails
    <2>5. ASSUME NEW k \in Slots, Told(k) \/ NotTold(k)
          PROVE  AccountInv'
      BY <2>5, <2>h, <1>g DEF Told, NotTold
    <2> QED
      BY <1>2, <2>1, <2>2, <2>3, <2>4, <2>5 DEF Unwatched
  <1>3. ASSUME NEW k \in Slots, WatchedStart(k)
        PROVE  AccountInv'
    BY <1>3, <1>i, StartCovered
  <1>4. ASSUME NEW k \in Slots, WatchedPosted(k)
        PROVE  AccountInv'
    BY <1>4, <1>g DEF WatchedPosted, Posted
  <1>5. ASSUME NEW k \in Slots, NEW e \in Errors, WatchedPostFails(k, e)
        PROVE  AccountInv'
    BY <1>5, <1>g DEF WatchedPostFails, PostFails, Fails
  <1>6. ASSUME NEW k \in Slots, WatchedWritten(k)
        PROVE  AccountInv'
    <2>1. /\ tick[k] # Idle /\ tick' = [tick EXCEPT ![k] = Idle]
          /\ RunEnds(k, tick[k].out \notin Errors, 0)
          /\ meta' = tickStatusPatch(meta, tick[k])
      BY <1>6 DEF WatchedWritten, Written, Idle
    <2>2. meta'.age = IF tick[k].out \notin Errors THEN tick[k].age ELSE meta.age
      BY <2>1 DEF tickStatusPatch, AccountInv, TypeOK, Meta
    <2> DEFINE run == tick[k].out \notin Errors
    <2>3. run \in BOOLEAN /\ RunEnds(k, run, 0) /\ meta'.age = IF run THEN tick[k].age ELSE meta.age
      BY <2>1, <2>2
    <2> HIDE DEF run
    <2> QED
      BY <2>1, <2>3, <1>i, EndCovered
  <1>7. ASSUME NEW k \in Slots, WatchedLost(k)
        PROVE  AccountInv'
    <2> DEFINE run == tick[k].out \notin Errors
    <2>1. /\ tick[k] # Idle /\ tick' = [tick EXCEPT ![k] = Idle]
          /\ RunEnds(k, run, If(run)) /\ meta' = meta /\ run \in BOOLEAN
      BY <1>7 DEF WatchedLost, WriteLost, Dies, Idle
    <2> HIDE DEF run
    <2>2. If(run) \in {0, 1} /\ (run => If(run) # 0)
      BY DEF If
    <2>3. meta'.age = IF run /\ If(run) = 0 THEN tick[k].age ELSE meta.age
      BY <2>1, <2>2
    <2> QED
      BY <2>1, <2>2, <2>3, <1>i, EndCovered
  <1>8. ASSUME NEW k \in Slots, WatchedDies(k)
        PROVE  AccountInv'
    <2>1. /\ tick[k] # Idle /\ tick' = [tick EXCEPT ![k] = Idle]
          /\ RunEnds(k, FALSE, 0) /\ meta' = meta
      BY <1>8 DEF WatchedDies, Dies
    <2>2. meta'.age = IF FALSE /\ 0 = 0 THEN tick[k].age ELSE meta.age
      BY <2>1
    <2> QED
      BY <2>1, <2>2, <1>i, EndCovered
  <1>9. CASE UNCHANGED wvars
    BY <1>9, <1>i, NothingEnds DEF wvars, avars, hvars, AccountInv, AccountTyped, Busy
  <1> QED
    BY <1>1, <1>2, <1>3, <1>4, <1>5, <1>6, <1>7, <1>8, <1>9 DEF WatchedNext

LEMMA AccountStart == WatchedInit => AccountInv
PROOF
  <1> SUFFICES ASSUME WatchedInit
               PROVE  AccountInv
    OBVIOUS
  <1> USE AutomationConstantsOK
  <1>1. TypeOK /\ Stages
    BY InitAInv DEF WatchedInit, AInv
  <1>2. Busy = {} /\ meta.age = Every
    BY DEF WatchedInit, Init, Busy
  <1>3. Overtaken = {} /\ ~Behind
    BY <1>2 DEF Overtaken, Behind, WatchedInit
  <1>4. Covered
    BY <1>3, FS_EmptySet DEF Covered, If, WatchedInit
  <1>5. front = Nothing /\ ran = Every /\ early = 0 /\ ahead = FALSE
    BY DEF WatchedInit
  <1>6. AccountTyped
    <2>1. Every \in 0..Every /\ 0 \in Int
      OBVIOUS
    <2> QED
      BY <2>1, <1>2, <1>5, Zenon DEF AccountTyped
  <1>7. FrontIsYoungest
    BY <1>2, <1>5 DEF FrontIsYoungest
  <1> QED
    BY <1>1, <1>4, <1>6, <1>7 DEF AccountInv

(* However many ticks overlap, die and lose the write of their outcome, the schedule runs
   ahead of its cadence at most once for each that was overtaken or not recorded. *)
THEOREM AheadAtMostOncePerMishap == WatchedSpec => []AheadOncePerMishap
PROOF
  <1>1. AccountInv => AheadOncePerMishap
    BY SlotsFinite DEF AccountInv, AccountTyped, Covered, AheadOncePerMishap, If
  <1> QED
    BY AccountStart, AccountStep, <1>1, PTL DEF WatchedSpec

----------------------------------------------------------------------------
(* The background tasks of a device.  An operation at the tail of the queue that
   a session has put there is the last word; what it has read stands until somebody
   else writes, or an edit of this device puts another operation behind it. *)

TaskOps == [op : {"sync", "cancel"}, of : Members \cup {Nobody}]

SyncsHaveAccounts == \A i \in 1..Len(ops) : ops[i].op = "sync" => ops[i].of # Nobody

LastIsSync == account # Nobody /\ deferred = Nobody /\ ops # <<>> => ops[Len(ops)].op = "sync"

ReadStands ==
    Len(ops) = 1 /\ saving = Nobody /\ InProgress("sync") /\ desired # NotRead =>
        \A r \in AutoRooms \ unseen : desired[r] = TasksOf(Head(ops).of)[r]

NoAccountNoTasks ==
    ops = <<>> /\ deferred = Nobody /\ ~inDoubt /\ account = Nobody => \A r \in AutoRooms : tasks[r] = NoTask

TasksInv ==
    /\ TasksTypeOK
    /\ SyncsHaveAccounts
    /\ ops = <<>> => desired = NotRead
    /\ LastIsSync
    /\ ReadStands
    /\ NoAccountNoTasks
    /\ TasksFollowRegistry

LEMMA QueueGrows ==
  ASSUME NEW q \in Seq(TaskOps), NEW x \in TaskOps
  PROVE  /\ serialize(q, x) \in Seq(TaskOps)
         /\ serialize(q, x) # <<>>
         /\ Len(serialize(q, x)) = Len(q) + 1
         /\ serialize(q, x)[Len(q) + 1] = x
         /\ \A i \in 1..Len(q) : serialize(q, x)[i] = q[i]
PROOF
  BY DEF serialize

LEMMA QueueShrinks ==
  ASSUME NEW q \in Seq(TaskOps), q # <<>>
  PROVE  /\ Tail(q) \in Seq(TaskOps)
         /\ Len(Tail(q)) = Len(q) - 1
         /\ \A i \in 1..Len(Tail(q)) : Tail(q)[i] = q[i + 1]
         /\ Head(q) = q[1] /\ Head(q) \in TaskOps
         /\ Tail(q) = <<>> => Len(q) = 1
PROOF
  <1>1. /\ Tail(q) \in Seq(TaskOps) /\ Len(Tail(q)) = Len(q) - 1
        /\ \A i \in 1..Len(Tail(q)) : Tail(q)[i] = q[i + 1]
    BY HeadTailProperties
  <1>2. Head(q) = q[1] /\ Head(q) \in TaskOps
    BY HeadTailProperties
  <1>3. Tail(q) = <<>> => Len(q) = 1
    <2> DEFINE t == Tail(q)
    <2>1. Len(t) = Len(q) - 1 /\ Len(q) \in Nat
      BY <1>1, LenProperties
    <2>2. t = <<>> => Len(t) = 0
      BY EmptySeq
    <2> HIDE DEF t
    <2>3. t = <<>> => Len(q) = 1
      BY <2>1, <2>2
    <2> QED
      BY <2>3 DEF t
  <1> QED
    BY <1>1, <1>2, <1>3

LEMMA TasksTyped ==
  ASSUME TasksTypeOK, [TasksNext]_bvars
  PROVE  TasksTypeOK'
PROOF
  <1> USE TasksConstantsOK DEF TasksTypeOK, Tasked, Elections
  <1>o. ops \in Seq(TaskOps)
    BY DEF TaskOps
  <1>c. Cancelling \in TaskOps /\ \A u \in Members \cup {Nobody} : Syncing(u) \in TaskOps
    BY DEF Cancelling, Syncing, TaskOps
  <1>t. \A u : TasksOf(u) \in Tasked
    BY DEF TasksOf
  <1>e. ASSUME ops # <<>>, NEW failed \in BOOLEAN, OperationEnds(failed)
        PROVE  ops' \in Seq(TaskOps) /\ desired' = NotRead /\ inDoubt' \in BOOLEAN
    BY <1>o, <1>e, QueueShrinks DEF OperationEnds, Tears
  <1>1. ASSUME NEW u \in Members \cup {Nobody}, EffectRuns(u)
        PROVE  TasksTypeOK'
    <2>1. ops' \in Seq(TaskOps)
      BY <1>1, <1>o, <1>c, QueueGrows DEF EffectRuns
    <2> QED
      BY <1>1, <2>1 DEF EffectRuns, TaskOps
  <1>2. CASE AfterFirstFrame
    <2>1. ops' \in Seq(TaskOps)
      BY <1>2, <1>o, <1>c, QueueGrows DEF AfterFirstFrame
    <2> QED
      BY <1>2, <2>1 DEF AfterFirstFrame, TaskOps
  <1>3. CASE SheetSyncs
    <2>1. ops' \in Seq(TaskOps)
      BY <1>3, <1>o, <1>c, QueueGrows DEF SheetSyncs
    <2> QED
      BY <1>3, <2>1 DEF SheetSyncs, TaskOps
  <1>4. CASE SheetFails
    BY <1>4 DEF SheetFails
  <1>5. CASE AppKilled
    BY <1>5 DEF AppKilled
  <1>6. ASSUME NEW r \in AutoRooms, Cancelled(r)
        PROVE  TasksTypeOK'
    BY <1>6 DEF Cancelled
  <1>7. ASSUME NEW r \in AutoRooms, Scheduled(r)
        PROVE  TasksTypeOK'
    <2>1. desired \in Tasked /\ desired[r] \in TaskCadences \cup {NoTask}
      BY <1>7 DEF Scheduled
    <2> QED
      BY <1>7, <2>1 DEF Scheduled
  <1>8. ASSUME NEW r \in AutoRooms, NEW e \in Elections, SheetWrites(r, e)
        PROVE  TasksTypeOK'
    BY <1>8 DEF SheetWrites
  <1>9. ASSUME NEW r \in AutoRooms, NEW e \in Elections, EditedElsewhere(r, e)
        PROVE  TasksTypeOK'
    BY <1>9 DEF EditedElsewhere
  <1>10. CASE SpacesRead
    <2>1. \A r \in AutoRooms : TasksOf(Head(ops).of)[r] \in TaskCadences \cup {NoTask}
      BY <1>t
    <2>2. desired' \in Tasked /\ unseen' \subseteq AutoRooms
      BY <1>10, <2>1 DEF SpacesRead
    <2> QED
      BY <1>10, <2>2 DEF SpacesRead
  <1>11. CASE SpacesReadFails
    BY <1>11, <1>e DEF SpacesReadFails, InProgress, TaskOps
  <1>12. CASE OperationFails
    BY <1>12, <1>e DEF OperationFails, InProgress, TaskOps
  <1>13. CASE OperationDone
    BY <1>13, <1>e DEF OperationDone, InProgress, TaskOps
  <1>14. CASE UNCHANGED bvars
    BY <1>14 DEF bvars
  <1> QED
    BY <1>1, <1>2, <1>3, <1>4, <1>5, <1>6, <1>7, <1>8, <1>9, <1>10, <1>11, <1>12, <1>13, <1>14 DEF TasksNext

LEMMA TasksStep ==
  ASSUME TasksInv, [TasksNext]_bvars
  PROVE  TasksInv'
PROOF
  <1>t. TasksTypeOK'
    BY TasksTyped DEF TasksInv
  <1>o. ops \in Seq(TaskOps) /\ Len(ops) \in Nat /\ (ops = <<>> <=> Len(ops) = 0)
    BY EmptySeq, LenProperties DEF TasksInv, TasksTypeOK, TaskOps
  <1>c. Cancelling \in TaskOps /\ \A u \in Members \cup {Nobody} : Syncing(u) \in TaskOps
    BY DEF Cancelling, Syncing, TaskOps
  <1>g. ASSUME NEW x \in TaskOps, ops' = serialize(ops, x), x.op = "sync" => x.of # Nobody, desired' = desired
        PROVE  /\ SyncsHaveAccounts' /\ ops' # <<>> /\ ReadStands' /\ NoAccountNoTasks' /\ TasksFollowRegistry'
               /\ (account' # Nobody /\ deferred' = Nobody => x.op = "sync") => LastIsSync'
    <2>1. /\ ops' # <<>> /\ Len(ops') = Len(ops) + 1 /\ ops'[Len(ops) + 1] = x
          /\ \A i \in 1..Len(ops) : ops'[i] = ops[i]
      BY <1>g, <1>o, QueueGrows
    <2>2. SyncsHaveAccounts'
      BY <1>g, <1>o, <2>1 DEF TasksInv, SyncsHaveAccounts
    <2>3. ReadStands'
      <3> DEFINE n == Len(ops)  m == Len(ops')
      <3>m. m = n + 1 /\ n \in Nat
        BY <1>o, <2>1
      <3> HIDE DEF n, m
      <3>n. m = 1 => n = 0
        BY <3>m
      <3>0. Len(ops') = 1 => ops = <<>>
        BY <3>n, <1>o, Zenon DEF n, m
      <3>1. Len(ops') = 1 => desired' = NotRead
        BY <3>0, <1>g DEF TasksInv
      <3> QED
        BY <3>1 DEF ReadStands, NotRead
    <2>4. (account' # Nobody /\ deferred' = Nobody => x.op = "sync") => LastIsSync'
      BY <2>1 DEF LastIsSync
    <2> QED
      BY <2>1, <2>2, <2>3, <2>4 DEF TasksFollowRegistry, NoAccountNoTasks
  <1>e. ASSUME ops # <<>>, NEW failed \in BOOLEAN, OperationEnds(failed), UNCHANGED <<account, deferred>>
        PROVE  SyncsHaveAccounts' /\ desired' = NotRead /\ ReadStands' /\ LastIsSync'
    <2>1. /\ Len(ops') = Len(ops) - 1 /\ \A i \in 1..Len(ops') : ops'[i] = ops[i + 1]
          /\ Len(ops') \in Nat /\ (ops' = <<>> <=> Len(ops') = 0)
      BY <1>e, <1>o, QueueShrinks, EmptySeq, LenProperties DEF OperationEnds
    <2>2. SyncsHaveAccounts'
      <3> SUFFICES ASSUME NEW i \in 1..Len(ops')
                   PROVE  ops'[i].op = "sync" => ops'[i].of # Nobody
        BY DEF SyncsHaveAccounts
      <3>1. i + 1 \in 1..Len(ops)
        BY <2>1, <1>o
      <3> QED
        BY <2>1, <3>1 DEF TasksInv, SyncsHaveAccounts
    <2>3. LastIsSync'
      <3> SUFFICES ASSUME account' # Nobody, deferred' = Nobody, ops' # <<>>
                   PROVE  ops'[Len(ops')].op = "sync"
        BY DEF LastIsSync
      <3>1. ops'[Len(ops')] = ops[Len(ops)]
        BY <2>1, <1>o
      <3> QED
        BY <1>e, <3>1 DEF TasksInv, LastIsSync
    <2>4. desired' = NotRead
      BY <1>e DEF OperationEnds
    <2> QED
      BY <2>2, <2>3, <2>4 DEF ReadStands, NotRead
  <1>1. ASSUME NEW u \in Members \cup {Nobody}, EffectRuns(u)
        PROVE  TasksInv'
    <2>1. CASE account = Nobody
      <3>1. ops' = ops /\ deferred' # Nobody /\ UNCHANGED <<saving, desired, roomIndex, tasks, unseen, inDoubt>>
        BY <1>1, <2>1 DEF EffectRuns
      <3> QED
        BY <3>1, <1>t DEF TasksInv, SyncsHaveAccounts, LastIsSync, ReadStands, InProgress, TasksOf, NoAccountNoTasks, TasksFollowRegistry
    <2>2. CASE account # Nobody
      <3>1. ops' = serialize(ops, Cancelling) /\ desired' = desired /\ account' = u /\ deferred' = u
        BY <1>1, <2>2 DEF EffectRuns
      <3>2. Cancelling.op # "sync"
        BY DEF Cancelling
      <3> QED
        BY <3>1, <3>2, <1>c, <1>g, <1>t DEF TasksInv
    <2> QED
      BY <2>1, <2>2
  <1>2. CASE AfterFirstFrame
    <2>1. ops' = serialize(ops, Syncing(deferred)) /\ desired' = desired /\ deferred # Nobody
      BY <1>2 DEF AfterFirstFrame
    <2>2. Syncing(deferred) \in TaskOps /\ Syncing(deferred).op = "sync" /\ Syncing(deferred).of # Nobody
      BY <2>1, <1>c DEF Syncing, TasksInv, TasksTypeOK
    <2> QED
      BY <2>1, <2>2, <1>g, <1>t DEF TasksInv
  <1>3. CASE SheetSyncs
    <2>1. ops' = serialize(ops, Syncing(saving)) /\ desired' = desired /\ saving # Nobody
      BY <1>3 DEF SheetSyncs
    <2>2. Syncing(saving) \in TaskOps /\ Syncing(saving).op = "sync" /\ Syncing(saving).of # Nobody
      BY <2>1, <1>c DEF Syncing, TasksInv, TasksTypeOK
    <2> QED
      BY <2>1, <2>2, <1>g, <1>t DEF TasksInv
  <1>4. CASE SheetFails
    <2>1. unseen' = AutoRooms /\ UNCHANGED <<account, deferred, ops, desired, roomIndex, tasks, inDoubt>>
      BY <1>4 DEF SheetFails
    <2> QED
      BY <2>1, <1>t DEF TasksInv, SyncsHaveAccounts, LastIsSync, ReadStands, NoAccountNoTasks, TasksFollowRegistry
  <1>5. CASE AppKilled
    <2>1. ops' = <<>> /\ desired' = NotRead /\ inDoubt'
      BY <1>5 DEF AppKilled
    <2>2. SyncsHaveAccounts'
      BY <2>1, EmptySeq DEF SyncsHaveAccounts
    <2> QED
      BY <2>1, <2>2, <1>t DEF TasksInv, LastIsSync, ReadStands, NotRead, NoAccountNoTasks, TasksFollowRegistry
  <1>k. ASSUME ops # <<>>, UNCHANGED <<account, deferred, saving, ops, desired, roomIndex, unseen, inDoubt>>
        PROVE  TasksInv'
    BY <1>k, <1>t DEF TasksInv, SyncsHaveAccounts, LastIsSync, ReadStands, InProgress, TasksOf, NoAccountNoTasks, TasksFollowRegistry
  <1>6. ASSUME NEW r \in AutoRooms, Cancelled(r)
        PROVE  TasksInv'
    BY <1>6, <1>k DEF Cancelled, InProgress
  <1>7. ASSUME NEW r \in AutoRooms, Scheduled(r)
        PROVE  TasksInv'
    BY <1>7, <1>k DEF Scheduled, InProgress
  <1>8. ASSUME NEW r \in AutoRooms, NEW e \in Elections, SheetWrites(r, e)
        PROVE  TasksInv'
    <2>1. saving' # Nobody /\ account' # Nobody /\ UNCHANGED <<account, deferred, ops, desired>>
      BY <1>8 DEF SheetWrites
    <2> QED
      BY <2>1, <1>t DEF TasksInv, SyncsHaveAccounts, LastIsSync, ReadStands, NoAccountNoTasks, TasksFollowRegistry
  <1>9. ASSUME NEW r \in AutoRooms, NEW e \in Elections, EditedElsewhere(r, e)
        PROVE  TasksInv'
    <2>1. unseen' = unseen \cup {r} /\ UNCHANGED <<account, deferred, saving, ops, desired, tasks, inDoubt>>
      BY <1>9 DEF EditedElsewhere
    <2>2. \A u : \A x \in AutoRooms \ unseen' : TasksOf(u)'[x] = TasksOf(u)[x]
      BY <1>9, <2>1 DEF EditedElsewhere, TasksOf, TasksInv, TasksTypeOK
    <2>3. ReadStands'
      BY <2>1, <2>2 DEF TasksInv, ReadStands, InProgress
    <2>4. TasksFollowRegistry'
      BY <2>1, <2>2 DEF TasksInv, TasksFollowRegistry
    <2> QED
      BY <2>1, <2>3, <2>4, <1>t DEF TasksInv, SyncsHaveAccounts, LastIsSync, NoAccountNoTasks
  <1>10. CASE SpacesRead
    <2>1. ops # <<>> /\ UNCHANGED <<account, deferred, saving, ops, roomIndex, tasks, inDoubt>>
      BY <1>10 DEF SpacesRead, InProgress
    <2>2. ReadStands'
      <3>1. PICK unread \in SUBSET AutoRooms :
               /\ desired' = [r \in AutoRooms |-> IF r \in unread THEN NoTask ELSE TasksOf(Head(ops).of)[r]]
               /\ unseen' = IF unread = {} THEN {} ELSE AutoRooms
        BY <1>10 DEF SpacesRead
      <3>2. \A r \in AutoRooms \ unseen' : desired'[r] = TasksOf(Head(ops).of)[r]
        BY <3>1
      <3>3. \A r \in AutoRooms : TasksOf(Head(ops).of)'[r] = TasksOf(Head(ops).of)[r]
        BY <2>1 DEF TasksOf
      <3> QED
        BY <2>1, <3>2, <3>3 DEF ReadStands
    <2> QED
      BY <2>1, <2>2, <1>t DEF TasksInv, SyncsHaveAccounts, LastIsSync, NoAccountNoTasks, TasksFollowRegistry
  <1>f. ASSUME ops # <<>>, OperationEnds(TRUE), UNCHANGED <<account, deferred>>
        PROVE  TasksInv'
    <2>1. inDoubt'
      BY <1>f DEF OperationEnds, Tears
    <2> QED
      BY <1>f, <1>e, <2>1, <1>t DEF TasksInv, NoAccountNoTasks, TasksFollowRegistry
  <1>11. CASE SpacesReadFails
    BY <1>11, <1>f DEF SpacesReadFails, InProgress
  <1>12. CASE OperationFails
    BY <1>12, <1>f DEF OperationFails, InProgress
  <1>13. CASE OperationDone
    <2>1. /\ ops # <<>> /\ OperationEnds(FALSE) /\ ops' = Tail(ops)
          /\ UNCHANGED <<account, deferred, saving, roomIndex, tasks, unseen>>
      BY <1>13 DEF OperationDone, InProgress, OperationEnds
    <2>2. SyncsHaveAccounts' /\ desired' = NotRead /\ ReadStands' /\ LastIsSync'
      BY <2>1, <1>e
    <2>h. Head(ops) = ops[1] /\ Head(ops) \in TaskOps /\ (ops' = <<>> => Len(ops) = 1)
      BY <2>1, <1>o, QueueShrinks
    <2>3. ASSUME ops' = <<>>, deferred' = Nobody, ~inDoubt'
          PROVE  /\ account' = Nobody => \A r \in AutoRooms : tasks'[r] = NoTask
                 /\ saving' = Nobody => \A r \in AutoRooms \ unseen' :
                       tasks'[r] = TasksOf(account)'[r] \/ TasksOf(account)'[r] \in Unparsable
      <3>u. \A r \in AutoRooms : TasksOf(account)'[r] = TasksOf(account)[r]
        BY <2>1 DEF TasksOf
      <3>1. CASE InProgress("cancel")
        <4>1. \A r \in AutoRooms : tasks[r] = NoTask
          BY <1>13, <3>1 DEF OperationDone, InProgress
        <4>2. account = Nobody
          BY <3>1, <2>3, <2>1, <2>h DEF TasksInv, LastIsSync, InProgress
        <4> QED
          BY <4>1, <4>2, <2>1 DEF TasksOf
      <3>2. CASE InProgress("sync")
        <4>1. Head(ops).of = account
          BY <3>2, <2>1, <2>3 DEF OperationEnds, Tears, InProgress
        <4>2. account # Nobody
          BY <3>2, <4>1, <2>3, <2>h DEF TasksInv, SyncsHaveAccounts, InProgress
        <4>3. /\ desired # NotRead /\ AllCancelled
              /\ \A r \in AutoRooms : desired[r] \in {NoTask, tasks[r]} \cup Unparsable
          BY <1>13, <3>2 DEF OperationDone, InProgress
        <4>4. ASSUME saving' = Nobody, NEW r \in AutoRooms \ unseen'
              PROVE  tasks[r] = TasksOf(account)[r] \/ TasksOf(account)[r] \in Unparsable
          <5>1. desired[r] = TasksOf(account)[r]
            BY <4>4, <4>1, <4>3, <3>2, <2>1, <2>3, <2>h DEF TasksInv, ReadStands
          <5>2. NoTask \notin Unparsable
            BY TasksConstantsOK
          <5> QED
            BY <5>1, <5>2, <4>3 DEF AllCancelled
        <4> QED
          BY <4>2, <4>4, <3>u, <2>1
      <3> QED
        BY <1>13, <3>1, <3>2 DEF OperationDone
    <2>4. NoAccountNoTasks' /\ TasksFollowRegistry'
      BY <2>3 DEF NoAccountNoTasks, TasksFollowRegistry
    <2> QED
      BY <2>2, <2>4, <1>t DEF TasksInv
  <1>14. CASE UNCHANGED bvars
    BY <1>14, <1>t DEF bvars, TasksInv, SyncsHaveAccounts, LastIsSync, ReadStands, InProgress, TasksOf, NoAccountNoTasks,
                       TasksFollowRegistry
  <1> QED
    BY <1>1, <1>2, <1>3, <1>4, <1>5, <1>6, <1>7, <1>8, <1>9, <1>10, <1>11, <1>12, <1>13, <1>14 DEF TasksNext

LEMMA TasksStart == TasksInit => TasksInv
PROOF
  <1> SUFFICES ASSUME TasksInit PROVE TasksInv
    OBVIOUS
  <1> USE TasksConstantsOK DEF TasksInit
  <1>1. TasksTypeOK
    BY EmptySeq DEF TasksTypeOK, Tasked
  <1>2. SyncsHaveAccounts /\ LastIsSync
    BY EmptySeq DEF SyncsHaveAccounts, LastIsSync
  <1>3. ReadStands /\ NoAccountNoTasks /\ TasksFollowRegistry
    BY DEF ReadStands, InProgress, NoAccountNoTasks, TasksFollowRegistry, TasksOf
  <1> QED
    BY <1>1, <1>2, <1>3 DEF TasksInv

(* At every quiet moment the tasks of a device are those that the index wants for the
   account in use, for any accounts, rooms and cadences and any bound on the queue. *)
THEOREM TasksFollow == TasksSpec => []TasksFollowRegistry
PROOF
  <1>1. TasksInv /\ [TasksNext]_bvars => TasksInv'
    BY TasksStep
  <1>2. TasksInv => TasksFollowRegistry
    BY DEF TasksInv
  <1> QED
    BY TasksStart, <1>1, <1>2, PTL DEF TasksSpec

----------------------------------------------------------------------------
(* The room and the tasks side by side. *)

(* An automated room beside the tasks of a device is what each is alone, so that the
   promises hold of the two together. *)
THEOREM RoomBesideTasks ==
  SideBySideSpec => []NoRepost /\ []NoSpam /\ []TasksFollowRegistry /\ []AheadOncePerMishap
PROOF
  <1>1. SideBySideInit => Init /\ WatchedInit /\ TasksInit
    BY DEF SideBySideInit, WatchedInit
  <1>2. [SideBySideNext]_<<part, wvars, bvars>> => [WatchedNext]_wvars /\ [TasksNext]_bvars
    BY Zenon DEF SideBySideNext
  <1>3. [WatchedNext]_wvars => [Next]_avars
    BY WatchedSteps
  <1>4. SideBySideSpec => Spec /\ WatchedSpec /\ TasksSpec
    BY <1>1, <1>2, <1>3, PTL DEF SideBySideSpec, Spec, WatchedSpec, TasksSpec
  <1> QED
    BY <1>4, PostedOnce, ToldOnce, TasksFollow, AheadAtMostOncePerMishap, PTL
=============================================================================
