--------------------------- MODULE CommandsProofs ---------------------------
(***************************************************************************)
(* Proofs about Commands, for any number of tabs, devices, screens and     *)
(* commands: on each device one tab leads at most, and a screen never      *)
(* answers one command twice.                                              *)
(***************************************************************************)
EXTENDS Commands, TLAPS

(* Requests wait where there are locks, in the queue of the tab's device. *)
QueueInv ==
    \A d \in Devices : \A k \in DOMAIN queue[d] :
        /\ d \in HasLocks
        /\ Device[queue[d][k].tab] = d

(* A tab that leads holds the lock. *)
LeaderInv ==
    \A t \in leader : Device[t] \in HasLocks =>
        /\ queue[Device[t]] # <<>>
        /\ Head(queue[Device[t]]) = [tab |-> t, live |-> TRUE]

(* What a screen has taken it does not take again: its watcher remembers, or
   the command is older than the mount, or the screen is gone. *)
Taken(s, c) ==
    /\ c <= authored
    /\ Mounted(s) => c \in processed[s] \/ c <= since[s]

TakenInv ==
    \A s \in Screens, c \in Commands :
        /\ <<s, c>> \in ticks => Taken(s, c) /\ replies[s][c] = 0
        /\ replies[s][c] # 0 => Taken(s, c) /\ replies[s][c] = 1

CInv == TypeOK /\ QueueInv /\ LeaderInv /\ TakenInv

----------------------------------------------------------------------------

(* A screen is a tab and a position in its stack. *)
LEMMA ScreenIs ==
    /\ \A s \in Screens : s[1] \in Tabs /\ s[2] \in 1..MaxDepth[s[1]] /\ s = <<s[1], s[2]>>
    /\ \A t \in Tabs : \A k \in 1..MaxDepth[t] : <<t, k>> \in Screens
  BY DEF Screens, ScreensOf

(* Every dispatched tick is of a command that was fresh, and nothing else
   changes: a watcher remembers what it takes. *)
LEMMA DispatchTakes ==
    ASSUME NEW leading, NEW knowing, NEW shown, TypeOK,
           Dispatch(leading, knowing, shown), NEW s \in Screens, NEW c \in Commands
    PROVE  /\ processed[s] \subseteq processed'[s]
           /\ <<s, c>> \in ticks' => \/ <<s, c>> \in ticks
                                     \/ /\ c \in shown[s] \ processed[s]
                                        /\ c > since[s] /\ Mounted(s)
                                        /\ c \in processed'[s]
  BY DEF Dispatch, Fresh, Active, TypeOK

(* What the watchers take are commands. *)
LEMMA DispatchTyped ==
    ASSUME NEW leading, NEW knowing, NEW shown, TypeOK,
           \A s \in Screens : shown[s] \subseteq Commands,
           Dispatch(leading, knowing, shown)
    PROVE  /\ processed' \in [Screens -> SUBSET Commands]
           /\ ticks' \subseteq Screens \X Commands
  BY DEF Dispatch, Fresh, TypeOK

LEMMA FunctionIsSeq ==
    ASSUME NEW S, NEW n \in Nat, NEW f \in [1..n -> S]
    PROVE  f \in Seq(S)
  OBVIOUS

(* Dropping an entry changes no request but those of its tab. *)
LEMMA AbandonedTyped ==
    ASSUME NEW q \in Seq(Request), NEW t \in Tabs
    PROVE  /\ Abandoned(q, t) \in Seq(Request)
           /\ DOMAIN Abandoned(q, t) = DOMAIN q
           /\ \A k \in DOMAIN q : /\ Abandoned(q, t)[k].tab = q[k].tab
                                  /\ q[k].tab # t => Abandoned(q, t)[k] = q[k]
           /\ q # <<>> => Abandoned(q, t) # <<>>
PROOF
  <1>1. \A k \in DOMAIN q : q[k] \in Request
    OBVIOUS
  <1>2. DOMAIN Abandoned(q, t) = 1..Len(q) /\ Len(q) \in Nat
    BY DEF Abandoned
  <1>3. \A k \in DOMAIN q : Abandoned(q, t)[k] \in Request
    BY <1>1 DEF Abandoned, Request
  <1>4. Abandoned(q, t) \in Seq(Request)
    <2> DEFINE a == Abandoned(q, t)
    <2>1. a \in [1..Len(q) -> Request]
      BY <1>2, <1>3 DEF Abandoned
    <2> HIDE DEF a
    <2>2. Len(q) \in Nat
      BY <1>2
    <2>3. a \in Seq(Request)
      BY <2>1, <2>2, FunctionIsSeq
    <2> QED
      BY <2>3 DEF a
  <1>5. \A k \in DOMAIN q : /\ Abandoned(q, t)[k].tab = q[k].tab
                            /\ q[k].tab # t => Abandoned(q, t)[k] = q[k]
    BY <1>1 DEF Abandoned, Request
  <1>6. q # <<>> => Abandoned(q, t) # <<>>
    BY <1>2
  <1> QED
    BY <1>2, <1>4, <1>5, <1>6

(* How a tab leaves its entry, or joins or makes one. *)
LEMMA ReleaseTyped ==
    ASSUME TypeOK, NEW t \in Tabs, DropEntry(t) \/ Release(t)
    PROVE  queue' \in [Devices -> Seq(Request)] /\ leader' \subseteq leader
PROOF
  <1> USE CommandConstantsOK
  <1>1. CASE UNCHANGED lockVars
    BY <1>1 DEF lockVars, TypeOK
  <1>2. CASE DropEntry(t)
    <2>1. Device[t] \in Devices /\ queue[Device[t]] \in Seq(Request)
      BY DEF TypeOK
    <2>2. Abandoned(queue[Device[t]], t) \in Seq(Request)
      BY <2>1, AbandonedTyped
    <2> QED
      BY <1>2, <2>2 DEF DropEntry, TypeOK
  <1> QED
    BY <1>1, <1>2 DEF Release

LEMMA AcquireTyped ==
    ASSUME TypeOK, NEW t \in Tabs, Acquire(t)
    PROVE  queue' \in [Devices -> Seq(Request)] /\ leader' \subseteq Tabs
PROOF
  <1> DEFINE d == Device[t]
  <1> DEFINE r == [tab |-> t, live |-> TRUE]
  <1>1. d \in Devices /\ queue[d] \in Seq(Request) /\ r \in Request
    BY CommandConstantsOK DEF TypeOK, Request
  <1>2. Append(queue[d], r) \in Seq(Request)
    BY <1>1
  <1>3. leader' \subseteq Tabs
    BY DEF Acquire, lockVars, TypeOK
  <1>4. \/ queue' = queue
        \/ queue' = [queue EXCEPT ![d] = Append(queue[d], r)]
    BY DEF Acquire, lockVars
  <1>5. queue' \in [Devices -> Seq(Request)]
    BY <1>1, <1>2, <1>4 DEF TypeOK
  <1> QED
    BY <1>3, <1>5

(* Queues keep holding requests of their own device, and a leader its lock. *)
LEMMA ReleaseLock ==
    ASSUME TypeOK, QueueInv, LeaderInv, NEW t \in Tabs, DropEntry(t) \/ Release(t)
    PROVE  QueueInv' /\ LeaderInv'
PROOF
  <1> USE CommandConstantsOK
  <1>1. CASE UNCHANGED lockVars
    BY <1>1 DEF lockVars, QueueInv, LeaderInv
  <1>2. CASE DropEntry(t)
    <2> DEFINE d == Device[t]
    <2>1. d \in Devices /\ queue[d] \in Seq(Request) /\ queue \in [Devices -> Seq(Request)]
      BY DEF TypeOK
    <2>2. /\ queue'[d] = Abandoned(queue[d], t)
          /\ \A e \in Devices : e # d => queue'[e] = queue[e]
          /\ leader' = leader \ {t}
      BY <1>2, <2>1 DEF DropEntry
    <2> DEFINE q == queue[d]
    <2> DEFINE a == Abandoned(q, t)
    <2>a. /\ DOMAIN a = DOMAIN q
          /\ \A k \in DOMAIN q : a[k].tab = q[k].tab /\ (q[k].tab # t => a[k] = q[k])
          /\ q # <<>> => a # <<>>
      BY <2>1, AbandonedTyped
    <2> HIDE DEF a
    <2>b. queue'[d] = a
      BY <2>2 DEF a
    <2>3. QueueInv'
      <3> SUFFICES ASSUME NEW e \in Devices, NEW k \in DOMAIN queue'[e]
                   PROVE  e \in HasLocks /\ Device[queue'[e][k].tab] = e
        BY DEF QueueInv
      <3>1. CASE e # d
        BY <2>2, <3>1 DEF QueueInv
      <3>2. CASE e = d
        <4>1. k \in DOMAIN q /\ a[k].tab = q[k].tab
          BY <2>a, <2>b, <3>2
        <4>2. d \in HasLocks /\ Device[q[k].tab] = d
          BY <2>1, <4>1 DEF QueueInv
        <4> QED
          BY <2>b, <3>2, <4>1, <4>2
      <3> QED
        BY <3>1, <3>2
    <2>4. ASSUME NEW u \in leader', Device[u] \in HasLocks
          PROVE  /\ queue'[Device[u]] # <<>>
                 /\ Head(queue'[Device[u]]) = [tab |-> u, live |-> TRUE]
      <3>1. u \in leader /\ u # t /\ Device[u] \in Devices
        BY <2>2, <2>4 DEF TypeOK
      <3>2. queue[Device[u]] # <<>> /\ Head(queue[Device[u]]) = [tab |-> u, live |-> TRUE]
        BY <2>4, <3>1 DEF LeaderInv
      <3>3. CASE Device[u] = d
        <4>1. 1 \in DOMAIN q /\ q[1] = [tab |-> u, live |-> TRUE] /\ q # <<>>
          BY <2>1, <3>2, <3>3
        <4>2. a[1] = q[1] /\ a # <<>>
          BY <2>a, <3>1, <4>1
        <4> QED
          BY <2>b, <3>3, <4>1, <4>2
      <3> QED
        BY <2>2, <3>1, <3>2, <3>3
    <2> QED
      BY <2>3, <2>4 DEF LeaderInv
  <1> QED
    BY <1>1, <1>2 DEF Release

LEMMA AcquireLock ==
    ASSUME TypeOK, QueueInv, LeaderInv, NEW t \in Tabs, Acquire(t)
    PROVE  QueueInv' /\ LeaderInv'
PROOF
  <1> USE CommandConstantsOK
  <1>1. CASE UNCHANGED lockVars
    BY <1>1 DEF lockVars, QueueInv, LeaderInv
  <1>2. CASE leader' = leader \cup {t} /\ UNCHANGED queue /\ Device[t] \notin HasLocks
    BY <1>2 DEF QueueInv, LeaderInv
  <1>3. CASE /\ Device[t] \in HasLocks /\ UNCHANGED leader
             /\ queue' = [queue EXCEPT ![Device[t]] = Append(@, [tab |-> t, live |-> TRUE])]
    <2> DEFINE d == Device[t]
    <2> DEFINE r == [tab |-> t, live |-> TRUE]
    <2>1. d \in Devices /\ queue[d] \in Seq(Request) /\ r \in Request
      BY DEF TypeOK, Request
    <2>2. queue'[d] = Append(queue[d], r) /\ \A e \in Devices : e # d => queue'[e] = queue[e]
      BY <1>3, <2>1 DEF TypeOK
    <2>3. QueueInv'
      BY <1>3, <2>1, <2>2 DEF QueueInv
    <2>4. queue[d] # <<>> => queue'[d] # <<>> /\ Head(queue'[d]) = Head(queue[d])
      BY <2>1, <2>2
    <2>5. LeaderInv'
      BY <1>3, <2>2, <2>4 DEF LeaderInv, TypeOK
    <2> QED
      BY <2>3, <2>5
  <1> QED
    BY <1>1, <1>2, <1>3 DEF Acquire

----------------------------------------------------------------------------
(* The types, the lock, and what was taken: each holds at first. *)

LEMMA InitInv == Init => CInv
PROOF
  <1> SUFFICES ASSUME Init
               PROVE  CInv
    OBVIOUS
  <1> USE CommandConstantsOK DEF Init
  <1>1. queue \in [Devices -> Seq(Request)]
    OBVIOUS
  <1>2. /\ depth \in [Tabs -> Nat] /\ \A t \in Tabs : depth[t] <= MaxDepth[t]
        /\ known \in [Tabs -> Runners] /\ elected \in Runners
    BY DEF Runners
  <1>3. TypeOK
    BY <1>1, <1>2 DEF TypeOK
  <1>4. QueueInv /\ LeaderInv /\ TakenInv
    BY DEF QueueInv, LeaderInv, TakenInv
  <1> QED
    BY <1>3, <1>4 DEF CInv

(* One action changes few variables: the rest is typed as it was. *)
LEMMA TypeStep == TypeOK /\ [Next]_cvars => TypeOK'
PROOF
  <1> SUFFICES ASSUME TypeOK, [Next]_cvars
               PROVE  TypeOK'
    OBVIOUS
  <1> USE CommandConstantsOK
  <1>0. \A z \in Screens : store[z] \subseteq Commands
    BY DEF TypeOK, Commands
  <1>1. ASSUME NEW d \in Devices, Grant(d)
        PROVE  TypeOK'
    <2>1. Head(queue[d]).tab \in Tabs
      <3>1. queue[d] \in Seq(Request) /\ queue[d] # <<>>
        BY <1>1 DEF Grant, TypeOK
      <3>2. Head(queue[d]) \in Request
        BY <3>1
      <3> QED
        BY <3>2 DEF Request
    <2>2. leader' \subseteq Tabs
      BY <1>1, <2>1 DEF Grant, TypeOK
    <2>3. processed' \in [Screens -> SUBSET Commands] /\ ticks' \subseteq Screens \X Commands
      BY <1>1, <1>0, DispatchTyped DEF Grant
    <2> QED
      BY <1>1, <2>2, <2>3 DEF Grant, TypeOK, screenVars, historyVars
  <1>2. ASSUME NEW d \in Devices, Free(d)
        PROVE  TypeOK'
    <2>1. queue' \in [Devices -> Seq(Request)]
      BY <1>2 DEF Free, TypeOK
    <2> QED
      BY <1>2, <2>1 DEF Free, TypeOK, screenVars, historyVars
  <1>3. ASSUME NEW t \in Tabs, OpenRoom(t)
        PROVE  TypeOK'
    <2>1. queue' \in [Devices -> Seq(Request)] /\ leader' \subseteq Tabs
      BY <1>3, AcquireTyped DEF OpenRoom
    <2>2. depth' \in [Tabs -> Nat] /\ \A u \in Tabs : depth'[u] <= MaxDepth[u]
      BY <1>3 DEF OpenRoom, TypeOK
    <2>3. since' \in [Screens -> 0..authored]
      <3> DEFINE z == <<t, depth[t] + 1>>
      <3>1. authored \in 0..authored /\ since \in [Screens -> 0..authored]
        BY DEF TypeOK
      <3>2. since' = [since EXCEPT ![z] = authored]
        BY <1>3 DEF OpenRoom, Baseline
      <3> HIDE DEF z
      <3> QED
        BY <3>1, <3>2
    <2> QED
      BY <1>3, <2>1, <2>2, <2>3 DEF OpenRoom, TypeOK, historyVars
  <1>4. ASSUME NEW t \in Tabs, LeaveRoom(t)
        PROVE  TypeOK'
    <2>1. queue' \in [Devices -> Seq(Request)] /\ leader' \subseteq Tabs
      BY <1>4, ReleaseTyped DEF LeaveRoom, TypeOK
    <2>2. depth' \in [Tabs -> Nat] /\ \A u \in Tabs : depth'[u] <= MaxDepth[u]
      BY <1>4 DEF LeaveRoom, TypeOK
    <2> QED
      BY <1>4, <2>1, <2>2 DEF LeaveRoom, Unmount, TypeOK, historyVars
  <1>5. ASSUME NEW t \in Tabs, CloseTab(t)
        PROVE  TypeOK'
    <2>1. queue' \in [Devices -> Seq(Request)] /\ leader' \subseteq Tabs
      BY <1>5, ReleaseTyped DEF CloseTab, TypeOK
    <2>2. depth' \in [Tabs -> Nat] /\ \A u \in Tabs : depth'[u] <= MaxDepth[u]
      BY <1>5 DEF CloseTab, TypeOK
    <2> QED
      BY <1>5, <2>1, <2>2 DEF CloseTab, Unmount, TypeOK, historyVars
  <1>6. CASE Author
    <2>1. /\ authored' \in 0..MaxCommands
          /\ since' \in [Screens -> 0..authored'] /\ store' \in [Screens -> SUBSET (1..authored')]
      BY <1>6 DEF Author, TypeOK, screenVars
    <2> QED
      BY <1>6, <2>1 DEF Author, TypeOK, lockVars, historyVars
  <1>7. ASSUME NEW s \in Screens, NEW c \in Commands, Receive(s, c)
        PROVE  TypeOK'
    <2>1. store' \in [Screens -> SUBSET (1..authored)]
      BY <1>7 DEF Receive, TypeOK, Commands
    <2>2. processed' \in [Screens -> SUBSET Commands] /\ ticks' \subseteq Screens \X Commands
      <3>1. \A z \in Screens : store'[z] \subseteq Commands
        BY <2>1 DEF TypeOK, Commands
      <3> QED
        BY <1>7, <3>1, DispatchTyped DEF Receive
    <2> QED
      BY <1>7, <2>1, <2>2 DEF Receive, TypeOK, lockVars, historyVars
  <1>8. ASSUME NEW d \in Runners, Elect(d)
        PROVE  TypeOK'
    BY <1>8 DEF Elect, TypeOK, lockVars, screenVars, historyVars
  <1>9. ASSUME NEW t \in Tabs, Refresh(t)
        PROVE  TypeOK'
    <2>1. known' \in [Tabs -> Runners]
      BY <1>9 DEF Refresh, TypeOK
    <2>2. processed' \in [Screens -> SUBSET Commands] /\ ticks' \subseteq Screens \X Commands
      BY <1>9, <1>0, DispatchTyped DEF Refresh
    <2> QED
      BY <1>9, <2>1, <2>2 DEF Refresh, TypeOK, lockVars, screenVars, historyVars
  <1>10. ASSUME NEW s \in Screens, NEW c \in Commands, Reply(s, c)
         PROVE  TypeOK'
    <2>1. replies' \in [Screens -> [Commands -> Nat]]
      BY <1>10 DEF Reply, TypeOK
    <2> QED
      BY <1>10, <2>1 DEF Reply, TypeOK, lockVars, screenVars
  <1>11. ASSUME NEW s \in Screens, NEW c \in Commands, TickFails(s, c)
         PROVE  TypeOK'
    BY <1>11 DEF TickFails, TypeOK, lockVars, screenVars
  <1>12. CASE UNCHANGED cvars
    BY <1>12 DEF cvars, TypeOK
  <1> QED
    BY <1>1, <1>2, <1>3, <1>4, <1>5, <1>6, <1>7, <1>8, <1>9, <1>10, <1>11, <1>12 DEF Next

(* The browser and the screens hand the lock over; nothing else touches it. *)
LEMMA LockStep == TypeOK /\ QueueInv /\ LeaderInv /\ [Next]_cvars => QueueInv' /\ LeaderInv'
PROOF
  <1> SUFFICES ASSUME TypeOK, QueueInv, LeaderInv, [Next]_cvars
               PROVE  QueueInv' /\ LeaderInv'
    OBVIOUS
  <1> USE CommandConstantsOK
  <1>1. ASSUME NEW d \in Devices, Grant(d)
        PROVE  QueueInv' /\ LeaderInv'
    <2> DEFINE h == Head(queue[d]).tab
    <2>1. queue[d] \in Seq(Request) /\ queue[d] # <<>> /\ 1 \in DOMAIN queue[d]
      BY <1>1 DEF Grant, TypeOK
    <2>2. Head(queue[d]) = queue[d][1] /\ queue[d][1] \in Request
      BY <2>1
    <2>3. Head(queue[d]) = [tab |-> h, live |-> TRUE]
      BY <1>1, <2>2 DEF Grant, Request
    <2>4. h \in Tabs /\ Device[h] = d /\ d \in HasLocks
      BY <2>1, <2>2 DEF QueueInv, Request
    <2>5. queue' = queue /\ leader' = leader \cup {h}
      BY <1>1 DEF Grant
    <2> HIDE DEF h
    <2> QED
      BY <2>1, <2>3, <2>4, <2>5 DEF QueueInv, LeaderInv
  <1>2. ASSUME NEW d \in Devices, Free(d)
        PROVE  QueueInv' /\ LeaderInv'
    <2>1. /\ queue[d] \in Seq(Request) /\ queue[d] # <<>>
          /\ queue'[d] = Tail(queue[d]) /\ \A e \in Devices : e # d => queue'[e] = queue[e]
          /\ leader' = leader
      BY <1>2 DEF Free, TypeOK
    <2>2. \A k \in DOMAIN queue'[d] : k + 1 \in DOMAIN queue[d] /\ queue'[d][k] = queue[d][k + 1]
      BY <2>1
    <2>3. QueueInv'
      <3> SUFFICES ASSUME NEW e \in Devices, NEW k \in DOMAIN queue'[e]
                   PROVE  e \in HasLocks /\ Device[queue'[e][k].tab] = e
        BY DEF QueueInv
      <3>1. CASE e # d
        BY <2>1, <3>1 DEF QueueInv
      <3>2. CASE e = d
        BY <2>2, <3>2 DEF QueueInv
      <3> QED
        BY <3>1, <3>2
    <2>4. \A t \in leader : Device[t] \in HasLocks => Device[t] # d
      <3> SUFFICES ASSUME NEW t \in leader, Device[t] \in HasLocks, Device[t] = d
                   PROVE  FALSE
        OBVIOUS
      <3>1. Head(queue[d]) = [tab |-> t, live |-> TRUE]
        BY DEF LeaderInv
      <3>2. Head(queue[d]).live = TRUE
        BY <3>1
      <3>3. ~Head(queue[d]).live
        BY <1>2 DEF Free
      <3> QED
        BY <3>2, <3>3
    <2>5. LeaderInv'
      BY <2>1, <2>4 DEF LeaderInv, TypeOK
    <2> QED
      BY <2>3, <2>5
  <1>3. ASSUME NEW t \in Tabs, OpenRoom(t)
        PROVE  QueueInv' /\ LeaderInv'
    BY <1>3, AcquireLock DEF OpenRoom
  <1>4. ASSUME NEW t \in Tabs, LeaveRoom(t) \/ CloseTab(t)
        PROVE  QueueInv' /\ LeaderInv'
    BY <1>4, ReleaseLock DEF LeaveRoom, CloseTab
  <1>5. CASE UNCHANGED lockVars
    BY <1>5 DEF lockVars, QueueInv, LeaderInv
  <1>6. CASE UNCHANGED cvars
    BY <1>5, <1>6 DEF cvars, lockVars
  <1>7. CASE Author \/ \E d \in Runners : Elect(d)
    BY <1>5, <1>7 DEF Author, Elect
  <1>8. CASE \E t \in Tabs : Refresh(t)
    BY <1>5, <1>8 DEF Refresh
  <1>9. CASE \E s \in Screens, c \in Commands : Receive(s, c) \/ Reply(s, c) \/ TickFails(s, c)
    BY <1>5, <1>9 DEF Receive, Reply, TickFails
  <1> QED
    BY <1>1, <1>2, <1>3, <1>4, <1>6, <1>7, <1>8, <1>9 DEF Next

(* The watchers start nothing they have started before. *)
LEMMA DispatchTaken ==
    ASSUME NEW leading, NEW knowing, NEW shown, TypeOK, TakenInv,
           \A s \in Screens : shown[s] \subseteq 1..authored,
           Dispatch(leading, knowing, shown),
           UNCHANGED <<authored, depth, since, replies>>
    PROVE  TakenInv'
PROOF
  <1> SUFFICES ASSUME NEW s \in Screens, NEW c \in Commands
               PROVE  /\ (<<s, c>> \in ticks => Taken(s, c) /\ replies[s][c] = 0)'
                      /\ (replies[s][c] # 0 => Taken(s, c) /\ replies[s][c] = 1)'
    BY DEF TakenInv
  <1>1. Taken(s, c) => Taken(s, c)'
    BY DispatchTakes DEF Taken, Mounted
  <1>2. CASE <<s, c>> \in ticks \/ <<s, c>> \notin ticks'
    BY <1>1, <1>2 DEF TakenInv
  <1>3. CASE <<s, c>> \notin ticks /\ <<s, c>> \in ticks'
    <2>1. /\ c \in shown[s] /\ c \notin processed[s]
          /\ c > since[s] /\ Mounted(s) /\ c \in processed'[s]
      BY <1>3, DispatchTakes
    <2>2. c <= authored /\ authored \in Nat /\ c \in Nat /\ since[s] \in Nat
      BY <2>1, CommandConstantsOK DEF TypeOK, Commands
    <2>3. ~Taken(s, c)
      BY <2>1, <2>2 DEF Taken
    <2>4. replies[s][c] = 0
      BY <2>3 DEF TakenInv
    <2>5. Taken(s, c)'
      BY <2>1, <2>2 DEF Taken
    <2> QED
      BY <2>4, <2>5
  <1> QED
    BY <1>2, <1>3

(* A screen that unmounts takes nothing more; no other one forgets. *)
LEMMA UnmountTaken ==
    ASSUME TypeOK, TakenInv, NEW on, Unmount(on),
           \A s \in Screens \ on : Mounted(s)' => Mounted(s),
           \A s \in on : ~Mounted(s)',
           ticks' \subseteq ticks, UNCHANGED <<authored, replies>>
    PROVE  TakenInv'
PROOF
  <1>1. ASSUME NEW s \in Screens, NEW c \in Commands, Taken(s, c)
        PROVE  Taken(s, c)'
    <2>1. CASE s \in on
      BY <1>1, <2>1 DEF Taken
    <2>2. CASE s \notin on
      BY <1>1, <2>2 DEF Taken, Unmount
    <2> QED
      BY <2>1, <2>2
  <1> QED
    BY <1>1 DEF TakenInv

LEMMA TakenStep == TypeOK /\ TakenInv /\ [Next]_cvars => TakenInv'
PROOF
  <1> SUFFICES ASSUME TypeOK, TakenInv, [Next]_cvars
               PROVE  TakenInv'
    OBVIOUS
  <1> USE CommandConstantsOK
  <1>0. \A z \in Screens : store[z] \subseteq 1..authored
    BY DEF TypeOK
  <1>1. ASSUME NEW d \in Devices, Grant(d)
        PROVE  TakenInv'
    BY <1>0, <1>1, DispatchTaken DEF Grant, screenVars, historyVars
  <1>2. ASSUME NEW t \in Tabs, Refresh(t)
        PROVE  TakenInv'
    BY <1>0, <1>2, DispatchTaken DEF Refresh, screenVars, historyVars
  <1>3. ASSUME NEW s \in Screens, NEW c \in Commands, Receive(s, c)
        PROVE  TakenInv'
    <2> DEFINE shown == [store EXCEPT ![s] = @ \cup {c}]
    <2>1. \A z \in Screens : shown[z] \subseteq 1..authored
      BY <1>0, <1>3 DEF Receive, TypeOK, Commands
    <2>2. Dispatch(leader, known, shown) /\ UNCHANGED <<authored, depth, since, replies>>
      BY <1>3 DEF Receive, historyVars
    <2> HIDE DEF shown
    <2> QED
      BY <2>1, <2>2, DispatchTaken
  <1>4. ASSUME NEW t \in Tabs, OpenRoom(t)
        PROVE  TakenInv'
    <2> DEFINE z == <<t, depth[t] + 1>>
    <2>1. /\ since' = [since EXCEPT ![z] = authored] /\ depth' = [depth EXCEPT ![t] = @ + 1]
          /\ UNCHANGED <<authored, processed, ticks, replies>>
      BY <1>4 DEF OpenRoom, Baseline, historyVars
    <2>2. depth[t] \in Nat
      BY DEF TypeOK
    <2>3. ASSUME NEW s \in Screens, s # z
          PROVE  Mounted(s)' => Mounted(s)
      <3>1. s[1] \in Tabs /\ s[2] \in Nat /\ s = <<s[1], s[2]>>
        BY ScreenIs DEF TypeOK
      <3>2. CASE s[1] # t
        BY <2>1, <3>1, <3>2 DEF Mounted, TypeOK
      <3>3. CASE s[1] = t
        <4>1. s[2] # depth[t] + 1
          BY <2>3, <3>1, <3>3
        <4>2. depth'[t] = depth[t] + 1
          BY <2>1 DEF TypeOK
        <4> QED
          BY <2>2, <3>1, <3>3, <4>1, <4>2 DEF Mounted
      <3> QED
        BY <3>2, <3>3
    <2>4. ASSUME NEW s \in Screens, NEW c \in Commands, Taken(s, c)
          PROVE  Taken(s, c)'
      <3>1. CASE s = z
        <4>1. since'[s] = authored
          BY <2>1, <3>1 DEF TypeOK
        <4> HIDE DEF z
        <4> QED
          BY <2>1, <2>4, <4>1 DEF Taken
      <3>2. CASE s # z
        <4>1. since'[s] = since[s]
          BY <2>1, <3>2 DEF TypeOK
        <4> QED
          BY <2>1, <2>3, <2>4, <3>2, <4>1 DEF Taken
      <3> QED
        BY <3>1, <3>2
    <2> QED
      BY <2>1, <2>4 DEF TakenInv
  <1>5. ASSUME NEW t \in Tabs, LeaveRoom(t)
        PROVE  TakenInv'
    <2>1. depth' = [depth EXCEPT ![t] = @ - 1] /\ depth[t] \in Nat \ {0}
      BY <1>5 DEF LeaveRoom, TypeOK
    <2>2. \A s \in Screens : Mounted(s)' => Mounted(s)
      BY <2>1, ScreenIs DEF Mounted, TypeOK
    <2>0. PICK z : z = <<t, depth[t]>>
      OBVIOUS
    <2>3. ~Mounted(z)'
      BY <2>0, <2>1 DEF Mounted, TypeOK
    <2>4. Unmount({z}) /\ UNCHANGED <<authored, ticks, replies>>
      BY <1>5, <2>0 DEF LeaveRoom, historyVars
    <2> QED
      BY <2>2, <2>3, <2>4, UnmountTaken
  <1>6. ASSUME NEW t \in Tabs, CloseTab(t)
        PROVE  TakenInv'
    <2>1. depth' = [depth EXCEPT ![t] = 0] /\ depth[t] \in Nat
      BY <1>6 DEF CloseTab, TypeOK
    <2>2. \A s \in Screens : Mounted(s)' => Mounted(s)
      BY <2>1, ScreenIs DEF Mounted, TypeOK
    <2>3. \A s \in ScreensOf(t) : ~Mounted(s)'
      BY <2>1 DEF Mounted, TypeOK, ScreensOf
    <2>4. Unmount(ScreensOf(t)) /\ ticks' \subseteq ticks /\ UNCHANGED <<authored, replies>>
      BY <1>6 DEF CloseTab, historyVars
    <2> QED
      BY <2>2, <2>3, <2>4, UnmountTaken
  <1>7. CASE Author
    <2>1. authored' = authored + 1 /\ authored \in Nat
      BY <1>7 DEF Author, TypeOK
    <2>2. \A s \in Screens, c \in Commands : Taken(s, c) => Taken(s, c)'
      BY <1>7, <2>1 DEF Author, Taken, Mounted, screenVars, Commands
    <2> QED
      BY <1>7, <2>2 DEF Author, TakenInv, historyVars
  <1>8. ASSUME NEW s \in Screens, NEW c \in Commands, Reply(s, c)
        PROVE  TakenInv'
    <2>1. \A z \in Screens, e \in Commands : Taken(z, e)' <=> Taken(z, e)
      BY <1>8 DEF Reply, Taken, Mounted, screenVars
    <2>2. <<s, c>> \in ticks /\ ticks' = ticks \ {<<s, c>>}
      BY <1>8 DEF Reply
    <2>3. Taken(s, c) /\ replies[s][c] = 0
      BY <2>2 DEF TakenInv
    <2>4. replies'[s][c] = 1
      BY <1>8, <2>3 DEF Reply, TypeOK
    <2>5. \A z \in Screens, e \in Commands : <<z, e>> # <<s, c>> => replies'[z][e] = replies[z][e]
      BY <1>8 DEF Reply, TypeOK
    <2> SUFFICES ASSUME NEW z \in Screens, NEW e \in Commands
                 PROVE  /\ (<<z, e>> \in ticks => Taken(z, e) /\ replies[z][e] = 0)'
                        /\ (replies[z][e] # 0 => Taken(z, e) /\ replies[z][e] = 1)'
      BY DEF TakenInv
    <2>6. CASE <<z, e>> = <<s, c>>
      BY <2>1, <2>2, <2>3, <2>4, <2>6
    <2>7. CASE <<z, e>> # <<s, c>>
      BY <2>1, <2>2, <2>5, <2>7 DEF TakenInv
    <2> QED
      BY <2>6, <2>7
  <1>9. CASE UNCHANGED <<authored, depth, since, processed, replies>> /\ ticks' \subseteq ticks
    BY <1>9 DEF TakenInv, Taken, Mounted
  <1>10. CASE UNCHANGED cvars
    BY <1>9, <1>10 DEF cvars
  <1>11. CASE (\E d \in Devices : Free(d)) \/ (\E d \in Runners : Elect(d))
    BY <1>9, <1>11 DEF Free, Elect, screenVars, historyVars
  <1>12. ASSUME NEW s \in Screens, NEW c \in Commands, TickFails(s, c)
         PROVE  TakenInv'
    BY <1>9, <1>12 DEF TickFails, screenVars
  <1> QED
    BY <1>1, <1>2, <1>3, <1>4, <1>5, <1>6, <1>7, <1>8, <1>10, <1>11, <1>12 DEF Next

----------------------------------------------------------------------------

(* The inductive invariant holds in every reachable state. *)
THEOREM CommandInvariant == Spec => []CInv
PROOF
  <1>1. CInv /\ [Next]_cvars => CInv'
    BY TypeStep, LockStep, TakenStep DEF CInv
  <1> QED
    BY InitInv, <1>1, PTL DEF Spec

(* Every variable keeps its type: a watcher never has a command older than its
   mount in the future, and requests stay requests. *)
THEOREM CommandTypeCorrect == Spec => []TypeOK
PROOF
  <1>1. CInv => TypeOK
    BY DEF CInv
  <1> QED
    BY CommandInvariant, <1>1, PTL

(* Of the tabs of a device that show the room, one leads at most: the lock entry
   reads leader only from the grant to the release of the Web Lock. *)
THEOREM MutualExclusion == Spec => []OneLeader
PROOF
  <1>1. CInv => OneLeader
    <2> SUFFICES ASSUME CInv, NEW t \in leader, NEW u \in leader, Device[t] = Device[u]
                 PROVE  t = u
      BY DEF OneLeader
    <2>1. t \in Tabs /\ u \in Tabs
      BY DEF CInv, TypeOK
    <2>2. CASE Device[t] \in HasLocks
      <3>1. [tab |-> t, live |-> TRUE] = [tab |-> u, live |-> TRUE]
        BY <2>2 DEF CInv, LeaderInv
      <3> QED
        BY <3>1
    <2>3. CASE Device[t] \notin HasLocks
      BY <2>1, <2>3, SingleInstance
    <2> QED
      BY <2>2, <2>3
  <1> QED
    BY CommandInvariant, <1>1, PTL

(* No screen answers a command twice. *)
THEOREM OneAnswerPerScreen == Spec => []OncePerScreen
PROOF
  <1>1. CInv => OncePerScreen
    <2> SUFFICES ASSUME CInv, NEW s \in Screens, NEW c \in Commands
                 PROVE  replies[s][c] <= 1
      BY DEF OncePerScreen
    <2>1. replies[s][c] = 0 \/ replies[s][c] = 1
      BY DEF CInv, TakenInv
    <2> QED
      BY <2>1
  <1> QED
    BY CommandInvariant, <1>1, PTL
=============================================================================
