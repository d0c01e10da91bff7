---------------------------- MODULE RoomLogProofs ----------------------------
(***************************************************************************)
(* Proofs about module RoomLog, for every set of messages and every bound  *)
(* on the log.                                                             *)
(***************************************************************************)
EXTENDS RoomLog, TLAPS

----------------------------------------------------------------------------
(* The inductive invariant. *)

(* A pull is one of the open screen's cursor, answered past its checkpoint;
   the sends made from a screen needed its cursor. *)
CursorOK ==
    /\ here # {} => HasCursor
    /\ pulling # "idle" => HasCursor
    /\ pulling = "answered" => at <= upto

NotQueuedYet == \A m \in Mine : live[m] # "over" => outq[m] = "no"

CommittedIsLogged == \A m \in Mine : live[m] = "committed" => m \in Upto(Len(slog))

(* Another copy of m that the cursor has not fetched. *)
Ahead(m) == \E i \in (at + 1)..Len(slog) : slog[i] = m

(* An entry the outbox may remove at any moment does not need its bubble. *)
PostedIsShown ==
    screen = "ready" =>
        \A m \in Mine : outq[m] = "posted" /\ m \in Upto(at) => m \in store \/ Ahead(m)

(* A message is in one place, and what is shown is on its way to the log. *)
SendsOK == NotQueuedYet /\ CommittedIsLogged /\ NoGhost

RInv ==
    /\ TypeOK
    /\ CursorOK
    /\ SendsOK

HInv == HeldIsShown /\ PostedIsShown

LEMMA InitRoom == Init => RInv /\ HInv
<1> SUFFICES ASSUME Init PROVE RInv /\ HInv
  OBVIOUS
<1> USE DEF Init
<1>1. slog \in Seq(Msgs) /\ Len(slog) = 0
  OBVIOUS
<1>2. TypeOK
  <2>1. /\ live \in [Mine -> {"unsent", "pending", "committed", "over", "cut"}]
        /\ outq \in [Mine -> {"no", "queued", "posted"}]
    OBVIOUS
  <2>2. kv = 0 /\ at = 0 /\ history = 0 /\ upto = 0 /\ store = {} /\ here = {} /\ late = {}
        /\ screen = "closed" /\ sse = FALSE /\ event = FALSE
        /\ pulling = "idle" /\ again = FALSE
    OBVIOUS
  <2> HIDE DEF Init
  <2>3. slog \in Seq(Msgs) /\ Len(slog) <= MaxLog
    BY <1>1, RoomConstantsOK
  <2>4. kv \in 0..Len(slog) /\ at \in 0..Len(slog) /\ history \in 0..at /\ upto \in 0..Len(slog)
    BY <1>1, <2>2
  <2>5. sse \in BOOLEAN /\ event \in BOOLEAN /\ again \in BOOLEAN
    BY <2>2
  <2> QED
    BY <2>1, <2>2, <2>3, <2>4, <2>5 DEF TypeOK
<1>3. Upto(0) = {}
  BY DEF Upto
<1> QED
  BY <1>1, <1>2, <1>3 DEF RInv, SendsOK, CursorOK, NotQueuedYet, CommittedIsLogged, NoGhost, HInv,
       HeldIsShown, PostedIsShown, HasCursor

(* The log grows at its end only. *)
LEMMA AppendGrows ==
  ASSUME TypeOK, NEW m \in Msgs, ServerAppend(m)
  PROVE  /\ slog' \in Seq(Msgs) /\ Len(slog') = Len(slog) + 1 /\ Len(slog') <= MaxLog
         /\ slog'[Len(slog) + 1] = m
         /\ \A i \in 1..Len(slog) : slog'[i] = slog[i]
         /\ event' \in BOOLEAN /\ sse' = sse
  BY RoomConstantsOK DEF TypeOK, ServerAppend

(* What an append does to the facts about the log. *)
LEMMA AppendKeeps ==
  ASSUME RInv, NEW m \in Msgs, ServerAppend(m)
  PROVE  /\ Upto(Len(slog))' = Upto(Len(slog)) \cup {m}
         /\ \A n \in 0..Len(slog) : Upto(n)' = Upto(n)
         /\ \A n \in 0..Len(slog) : \A k :
               (\E i \in (n + 1)..Len(slog) : slog[i] = k)
                  => \E i \in (n + 1)..Len(slog') : slog'[i] = k
         /\ \A n \in 0..Len(slog) : \E i \in (n + 1)..Len(slog') : slog'[i] = m
<1>1. /\ Len(slog) \in Nat /\ Len(slog') = Len(slog) + 1
      /\ slog'[Len(slog) + 1] = m
      /\ \A i \in 1..Len(slog) : slog'[i] = slog[i]
  BY AppendGrows DEF RInv, TypeOK
<1>2. Upto(Len(slog))' = Upto(Len(slog)) \cup {m}
  <2>1. \A i : i \in 1..Len(slog') <=> i \in 1..Len(slog) \/ i = Len(slog) + 1
    BY <1>1
  <2> QED
    BY <1>1, <2>1 DEF Upto
<1>3. \A n \in 0..Len(slog) : Upto(n)' = Upto(n)
  BY <1>1 DEF Upto
<1> QED
  BY <1>1, <1>2, <1>3

LEMMA RoomTypes == TypeOK /\ CursorOK /\ [Next]_rvars => TypeOK' /\ CursorOK'
<1> SUFFICES ASSUME TypeOK, CursorOK, [Next]_rvars PROVE TypeOK' /\ CursorOK'
  OBVIOUS
<1> USE RoomConstantsOK DEF TypeOK, CursorOK, HasCursor, AskPull, NextPull, ForgetScreen,
        screenVars, pullVars, netVars, sendVars
<1>1. CASE Open
  BY <1>1 DEF Open
<1>2. CASE Connect
  BY <1>2 DEF Connect, SeededWith
<1>3. CASE PaintHistory
  <2>1. Upto(IF HistoryLive THEN at ELSE history) \subseteq Msgs
    BY DEF Upto
  <2> QED
    BY <1>3, <2>1 DEF PaintHistory
<1>4. CASE Close
  <2>1. /\ slog' \in Seq(Msgs) /\ Len(slog') <= MaxLog /\ kv' \in 0..Len(slog')
        /\ screen' \in {"closed", "opening", "painting", "ready"}
        /\ at' \in 0..Len(slog') /\ history' \in 0..at' /\ upto' \in 0..Len(slog')
    BY <1>4 DEF Close
  <2>2. store' \subseteq Msgs /\ here' \subseteq Mine /\ late' \subseteq 0..Len(slog')
    BY <1>4 DEF Close
  <2>3. sse' \in BOOLEAN /\ event' \in BOOLEAN /\ again' \in BOOLEAN
    BY <1>4 DEF Close
  <2>4. /\ live' \in [Mine -> {"unsent", "pending", "committed", "over", "cut"}]
        /\ outq' \in [Mine -> {"no", "queued", "posted"}]
    BY <1>4 DEF Close
  <2>5. pulling' \in {"idle", "asked", "answered"} /\ CursorOK'
    BY <1>4 DEF Close
  <2> QED
    BY <2>1, <2>2, <2>3, <2>4, <2>5
<1>5. CASE Focus
  BY <1>5 DEF Focus
<1>6. CASE SseEvent
  BY <1>6 DEF SseEvent
<1>7. CASE Poll
  BY <1>7 DEF Poll
<1>8. CASE SseUp
  BY <1>8 DEF SseUp
<1>9. CASE SseDown
  BY <1>9 DEF SseDown
<1>10. CASE PullAnswered
  BY <1>10 DEF PullAnswered
<1>11. CASE PullDelivered
  <2>0. {slog[i] : i \in (at + 1)..upto} \subseteq Msgs
    OBVIOUS
  <2>1. /\ slog' \in Seq(Msgs) /\ Len(slog') <= MaxLog /\ kv' \in 0..Len(slog')
        /\ screen' \in {"closed", "opening", "painting", "ready"}
        /\ at' \in 0..Len(slog') /\ history' \in 0..at' /\ upto' \in 0..Len(slog')
    BY <1>11, <2>0 DEF PullDelivered, MergeUpto
  <2>2. store' \subseteq Msgs /\ here' \subseteq Mine /\ late' \subseteq 0..Len(slog')
    BY <1>11, <2>0 DEF PullDelivered, MergeUpto
  <2>3. sse' \in BOOLEAN /\ event' \in BOOLEAN /\ again' \in BOOLEAN
    BY <1>11, <2>0 DEF PullDelivered, MergeUpto
  <2>4. /\ live' \in [Mine -> {"unsent", "pending", "committed", "over", "cut"}]
        /\ outq' \in [Mine -> {"no", "queued", "posted"}]
    BY <1>11, <2>0 DEF PullDelivered, MergeUpto
  <2>5. pulling' \in {"idle", "asked", "answered"} /\ CursorOK'
    BY <1>11, <2>0 DEF PullDelivered, MergeUpto
  <2> QED
    BY <2>1, <2>2, <2>3, <2>4, <2>5
<1>12. CASE PullFailed
  <2>1. /\ slog' \in Seq(Msgs) /\ Len(slog') <= MaxLog /\ kv' \in 0..Len(slog')
        /\ screen' \in {"closed", "opening", "painting", "ready"}
        /\ at' \in 0..Len(slog') /\ history' \in 0..at' /\ upto' \in 0..Len(slog')
    BY <1>12 DEF PullFailed
  <2>2. store' \subseteq Msgs /\ here' \subseteq Mine /\ late' \subseteq 0..Len(slog')
    BY <1>12 DEF PullFailed
  <2>3. sse' \in BOOLEAN /\ event' \in BOOLEAN /\ again' \in BOOLEAN
    BY <1>12 DEF PullFailed
  <2>4. /\ live' \in [Mine -> {"unsent", "pending", "committed", "over", "cut"}]
        /\ outq' \in [Mine -> {"no", "queued", "posted"}]
    BY <1>12 DEF PullFailed
  <2>5. pulling' \in {"idle", "asked", "answered"} /\ CursorOK'
    BY <1>12 DEF PullFailed
  <2> QED
    BY <2>1, <2>2, <2>3, <2>4, <2>5
<1>13. CASE SweepAnswered
  BY <1>13 DEF SweepAnswered
<1>14. ASSUME NEW n \in 0..MaxLog, PersistLate(n) PROVE TypeOK' /\ CursorOK'
  BY <1>14 DEF PersistLate
<1>15. ASSUME NEW m \in Theirs, OthersSend(m) PROVE TypeOK' /\ CursorOK'
  BY <1>15, AppendGrows DEF OthersSend, Msgs
<1>16. ASSUME NEW m \in Mine, SendQueued(m) PROVE TypeOK' /\ CursorOK'
  BY <1>16 DEF SendQueued
<1>17. ASSUME NEW m \in Mine, SendLive(m) PROVE TypeOK' /\ CursorOK'
  BY <1>17 DEF SendLive, Msgs
<1>18. ASSUME NEW m \in Mine, LiveCommit(m) PROVE TypeOK' /\ CursorOK'
  BY <1>18, AppendGrows DEF LiveCommit, Msgs
<1>19. ASSUME NEW m \in Mine, LiveAck(m) PROVE TypeOK' /\ CursorOK'
  <2>1. /\ slog' \in Seq(Msgs) /\ Len(slog') <= MaxLog /\ kv' \in 0..Len(slog')
        /\ screen' \in {"closed", "opening", "painting", "ready"}
        /\ at' \in 0..Len(slog') /\ history' \in 0..at' /\ upto' \in 0..Len(slog')
    BY <1>19 DEF LiveAck
  <2>2. store' \subseteq Msgs /\ here' \subseteq Mine /\ late' \subseteq 0..Len(slog')
    BY <1>19 DEF LiveAck
  <2>3. sse' \in BOOLEAN /\ event' \in BOOLEAN /\ again' \in BOOLEAN
    BY <1>19 DEF LiveAck
  <2>4. /\ live' \in [Mine -> {"unsent", "pending", "committed", "over", "cut"}]
        /\ outq' \in [Mine -> {"no", "queued", "posted"}]
    BY <1>19 DEF LiveAck
  <2>5. pulling' \in {"idle", "asked", "answered"} /\ CursorOK'
    BY <1>19 DEF LiveAck
  <2> QED
    BY <2>1, <2>2, <2>3, <2>4, <2>5
<1>20. ASSUME NEW m \in Mine, LiveFail(m) PROVE TypeOK' /\ CursorOK'
  BY <1>20 DEF LiveFail, Rollback
<1>21. ASSUME NEW m \in Mine, OutboxPost(m) PROVE TypeOK' /\ CursorOK'
  BY <1>21, AppendGrows DEF OutboxPost, Msgs
<1>22. ASSUME NEW m \in Mine, OutboxConfirm(m) PROVE TypeOK' /\ CursorOK'
  BY <1>22 DEF OutboxConfirm
<1>23. CASE Crash
  <2>1. /\ slog' \in Seq(Msgs) /\ Len(slog') <= MaxLog /\ kv' \in 0..Len(slog')
        /\ screen' \in {"closed", "opening", "painting", "ready"}
        /\ at' \in 0..Len(slog') /\ history' \in 0..at' /\ upto' \in 0..Len(slog')
    BY <1>23 DEF Crash, Awaiting
  <2>2. store' \subseteq Msgs /\ here' \subseteq Mine /\ late' \subseteq 0..Len(slog')
    BY <1>23 DEF Crash, Awaiting
  <2>3. sse' \in BOOLEAN /\ event' \in BOOLEAN /\ again' \in BOOLEAN
    BY <1>23 DEF Crash, Awaiting
  <2>4. /\ live' \in [Mine -> {"unsent", "pending", "committed", "over", "cut"}]
        /\ outq' \in [Mine -> {"no", "queued", "posted"}]
    BY <1>23 DEF Crash, Awaiting
  <2>5. pulling' \in {"idle", "asked", "answered"} /\ CursorOK'
    BY <1>23 DEF Crash, Awaiting
  <2> QED
    BY <2>1, <2>2, <2>3, <2>4, <2>5
<1>24. CASE UNCHANGED rvars
  BY <1>24 DEF rvars
<1> QED
  BY <1>1, <1>2, <1>3, <1>4, <1>5, <1>6, <1>7, <1>8, <1>9, <1>10, <1>11, <1>12, <1>13, <1>14, <1>15, <1>16, <1>17, <1>18, <1>19, <1>20, <1>21, <1>22, <1>23, <1>24 DEF Next

LEMMA NextRoom == RInv /\ [Next]_rvars => RInv'
<1> SUFFICES ASSUME RInv, [Next]_rvars PROVE RInv'
  OBVIOUS
<1> USE DEF RInv, SendsOK
<1>1. TypeOK' /\ CursorOK'
  BY RoomTypes
(* Steps that touch neither the log nor what is sent, and paint nothing. *)
<1>2. ASSUME UNCHANGED <<slog, live, outq>>,
             (store' = store /\ here' = here) \/ store' = {}
      PROVE  SendsOK'
  <2>1. NotQueuedYet'
    BY <1>2 DEF NotQueuedYet
  <2>2. CommittedIsLogged'
    BY <1>2 DEF CommittedIsLogged, Upto
  <2>3. NoGhost'
    BY <1>2 DEF NoGhost, Upto, Awaiting
  <2> QED
    BY <2>1, <2>2, <2>3
<1>3. CASE Open
  BY <1>1, <1>3, <1>2 DEF Open, AskPull, NextPull, ForgetScreen, screenVars, pullVars, netVars, sendVars
<1>4. CASE Connect
  BY <1>1, <1>4, <1>2 DEF Connect, SeededWith, AskPull, NextPull, ForgetScreen, screenVars, pullVars, netVars, sendVars
<1>5. CASE Close
  BY <1>1, <1>5, <1>2 DEF Close, AskPull, NextPull, ForgetScreen, screenVars, pullVars, netVars, sendVars
<1>6. CASE Focus
  BY <1>1, <1>6, <1>2 DEF Focus, AskPull, NextPull, ForgetScreen, screenVars, pullVars, netVars, sendVars
<1>7. CASE SseEvent
  BY <1>1, <1>7, <1>2 DEF SseEvent, AskPull, NextPull, ForgetScreen, screenVars, pullVars, netVars, sendVars
<1>8. CASE Poll
  BY <1>1, <1>8, <1>2 DEF Poll, AskPull, NextPull, ForgetScreen, screenVars, pullVars, netVars, sendVars
<1>9. CASE SseUp
  BY <1>1, <1>9, <1>2 DEF SseUp, AskPull, NextPull, ForgetScreen, screenVars, pullVars, netVars, sendVars
<1>10. CASE SseDown
  BY <1>1, <1>10, <1>2 DEF SseDown, AskPull, NextPull, ForgetScreen, screenVars, pullVars, netVars, sendVars
<1>11. CASE PullAnswered
  BY <1>1, <1>11, <1>2 DEF PullAnswered, AskPull, NextPull, ForgetScreen, screenVars, pullVars, netVars, sendVars
<1>12. CASE PullFailed
  BY <1>1, <1>12, <1>2 DEF PullFailed, AskPull, NextPull, ForgetScreen, screenVars, pullVars, netVars, sendVars
<1>13. CASE SweepAnswered
  BY <1>1, <1>13, <1>2 DEF SweepAnswered, AskPull, NextPull, ForgetScreen, screenVars, pullVars, netVars, sendVars
<1>14. CASE UNCHANGED rvars
  BY <1>1, <1>14, <1>2 DEF rvars
<1>15. ASSUME NEW n \in 0..MaxLog, PersistLate(n) PROVE SendsOK'
  BY <1>15, <1>2 DEF PersistLate, AskPull, NextPull, ForgetScreen, screenVars, pullVars, netVars, sendVars
<1>16. CASE PaintHistory
  <2>1. store' \subseteq Upto(Len(slog)) /\ UNCHANGED <<slog, live, outq>>
    BY <1>16 DEF PaintHistory, sendVars, Upto, TypeOK
  <2> QED
    BY <1>1, <2>1 DEF NotQueuedYet, CommittedIsLogged, NoGhost, Upto
<1>17. CASE PullDelivered
  <2>1. UNCHANGED <<slog, live, outq, here>>
    BY <1>17 DEF PullDelivered, sendVars
  <2>2. store' \subseteq store \cup Upto(Len(slog))
    BY <1>17 DEF PullDelivered, MergeUpto, Upto, TypeOK
  <2> QED
    BY <1>1, <2>1, <2>2 DEF NotQueuedYet, CommittedIsLogged, NoGhost, Upto, Awaiting
<1>18. ASSUME NEW m \in Theirs, OthersSend(m) PROVE SendsOK'
  <2>1. Upto(Len(slog))' = Upto(Len(slog)) \cup {m}
    BY <1>18, AppendKeeps DEF OthersSend, Msgs
  <2> QED
    BY <1>18, <2>1 DEF OthersSend, screenVars, sendVars, NotQueuedYet, CommittedIsLogged, NoGhost, Awaiting
<1>19. ASSUME NEW m \in Mine, SendQueued(m) PROVE SendsOK'
  BY <1>19 DEF SendQueued, screenVars, TypeOK, NotQueuedYet, CommittedIsLogged, NoGhost, Upto, Awaiting
<1>20. ASSUME NEW m \in Mine, SendLive(m) PROVE SendsOK'
  BY <1>20 DEF SendLive, TypeOK, NotQueuedYet, CommittedIsLogged, NoGhost, Upto, Awaiting
<1>21. ASSUME NEW m \in Mine, LiveCommit(m) PROVE SendsOK'
  <2>1. Upto(Len(slog))' = Upto(Len(slog)) \cup {m}
    BY <1>21, AppendKeeps DEF LiveCommit, Msgs
  <2> QED
    BY <1>21, <2>1 DEF LiveCommit, screenVars, TypeOK, NotQueuedYet, CommittedIsLogged, NoGhost, Awaiting
<1>22. ASSUME NEW m \in Mine, LiveAck(m) PROVE SendsOK'
  BY <1>22 DEF LiveAck, screenVars, TypeOK, NotQueuedYet, CommittedIsLogged, NoGhost, Upto, Awaiting
<1>23. ASSUME NEW m \in Mine, LiveFail(m) PROVE SendsOK'
  BY <1>23 DEF LiveFail, Rollback, TypeOK, NotQueuedYet, CommittedIsLogged, NoGhost, Upto, Awaiting
<1>24. ASSUME NEW m \in Mine, OutboxPost(m) PROVE SendsOK'
  <2>1. Upto(Len(slog))' = Upto(Len(slog)) \cup {m}
    BY <1>24, AppendKeeps DEF OutboxPost, Msgs
  <2> QED
    BY <1>24, <2>1 DEF OutboxPost, screenVars, TypeOK, NotQueuedYet, CommittedIsLogged, NoGhost, Awaiting
<1>25. ASSUME NEW m \in Mine, OutboxConfirm(m) PROVE SendsOK'
  BY <1>25 DEF OutboxConfirm, screenVars, TypeOK, NotQueuedYet, CommittedIsLogged, NoGhost, Upto, Awaiting
<1>26. CASE Crash
  BY <1>1, <1>26 DEF Crash, ForgetScreen, TypeOK, NotQueuedYet, CommittedIsLogged, NoGhost, Upto, Awaiting
<1> QED
  BY <1>1, <1>2, <1>3, <1>4, <1>5, <1>6, <1>7, <1>8, <1>9, <1>10, <1>11, <1>12, <1>13, <1>14, <1>15, <1>16, <1>17, <1>18, <1>19, <1>20, <1>21, <1>22, <1>23, <1>24, <1>25, <1>26 DEF Next

----------------------------------------------------------------------------
(* Nothing is lost behind the checkpoint. *)

LEMMA NextHeld ==
  ASSUME HistoryLive, RInv, HInv, [Next]_rvars
  PROVE  HInv'
<1> USE DEF RInv
(* Steps that change neither the log nor the cursor nor the store nor the outbox. *)
<1>1. ASSUME UNCHANGED <<slog, at, store, outq>>, screen' = "ready" => screen = "ready"
      PROVE  HInv'
  BY <1>1 DEF HInv, HeldIsShown, PostedIsShown, Pending, Ahead, Upto
<1>2. ASSUME screen' # "ready" PROVE HInv'
  BY <1>2 DEF HInv, HeldIsShown, PostedIsShown
<1>3. ASSUME store' = Upto(at), UNCHANGED <<slog, at>> PROVE HInv'
  BY <1>3 DEF HInv, HeldIsShown, PostedIsShown, Upto
<1>4. CASE Focus
  BY <1>4, <1>1 DEF Focus, screenVars, sendVars
<1>5. CASE SseEvent
  BY <1>5, <1>1 DEF SseEvent, screenVars, sendVars
<1>6. CASE Poll
  BY <1>6, <1>1 DEF Poll, screenVars, sendVars
<1>7. CASE SseUp
  BY <1>7, <1>1 DEF SseUp, screenVars, sendVars
<1>8. CASE SseDown
  BY <1>8, <1>1 DEF SseDown, screenVars, sendVars
<1>9. CASE PullAnswered
  BY <1>9, <1>1 DEF PullAnswered, screenVars, sendVars
<1>10. CASE PullFailed
  BY <1>10, <1>1 DEF PullFailed, screenVars, sendVars
<1>11. CASE SweepAnswered
  BY <1>11, <1>1 DEF SweepAnswered, screenVars, sendVars
<1>12. CASE UNCHANGED rvars
  BY <1>12, <1>1 DEF rvars
<1>13. ASSUME NEW n \in 0..MaxLog, PersistLate(n) PROVE HInv'
  BY <1>13, <1>1 DEF PersistLate, screenVars, sendVars
<1>14. ASSUME NEW m \in Mine, LiveAck(m) PROVE HInv'
  BY <1>14, <1>1 DEF LiveAck, screenVars, sendVars
<1>15. CASE Open
  BY <1>15, <1>2 DEF Open, ForgetScreen
<1>16. CASE Close
  BY <1>16, <1>2 DEF Close, ForgetScreen
<1>17. CASE Crash
  BY <1>17, <1>2 DEF Crash, ForgetScreen
<1>18. CASE Connect
  <2>1. CASE kv = 0
    <3>1. at' = 0 /\ UNCHANGED slog
      BY <1>18, <2>1 DEF Connect, SeededWith
    <3>2. Upto(at)' = {}
      BY <3>1 DEF Upto
    <3> QED
      BY <3>2 DEF HInv, HeldIsShown, PostedIsShown
  <2>2. CASE kv # 0
    BY <1>18, <2>2, <1>2 DEF Connect
  <2> QED
    BY <2>1, <2>2
<1>19. CASE PaintHistory
  BY <1>19, <1>3 DEF PaintHistory
<1>20. CASE PullDelivered
  <2>1. at \in Nat /\ upto \in Nat /\ at <= upto /\ upto <= Len(slog) /\ Len(slog) \in Nat
    BY <1>20 DEF PullDelivered, CursorOK, TypeOK
  <2>2. /\ UNCHANGED <<slog, screen, outq>> /\ at' = upto
        /\ store' = store \cup {slog[i] : i \in (at + 1)..upto}
    BY <1>20 DEF PullDelivered, MergeUpto, sendVars
  <2>3. ASSUME NEW m PROVE m \in Upto(at)' => m \in Upto(at) \/ m \in store'
    BY <2>1, <2>2 DEF Upto
  <2>4. ASSUME NEW m PROVE Ahead(m) => Ahead(m)' \/ m \in store'
    BY <2>1, <2>2 DEF Ahead
  <2>5. ASSUME NEW m PROVE Pending(m)' <=> Pending(m)
    BY <2>2 DEF Pending
  <2>6. store \subseteq store'
    BY <2>2
  <2>7. HeldIsShown'
    BY <2>2, <2>3, <2>4, <2>5, <2>6 DEF HInv, HeldIsShown, Ahead
  <2>8. PostedIsShown'
    BY <2>2, <2>3, <2>4, <2>6 DEF HInv, PostedIsShown
  <2> QED
    BY <2>7, <2>8 DEF HInv
<1>21. ASSUME NEW m \in Theirs, OthersSend(m) PROVE HInv'
  <2>1. ServerAppend(m) /\ m \in Msgs /\ at \in 0..Len(slog)
    BY <1>21 DEF OthersSend, Msgs, TypeOK
  <2>2. UNCHANGED <<screen, at, store>>
    BY <1>21 DEF OthersSend, screenVars
  <2>3. /\ Upto(at)' = Upto(at) /\ Ahead(m)'
        /\ \A k : Ahead(k) => Ahead(k)'
    BY <2>1, <2>2, AppendKeeps DEF Ahead, Upto
  <2>4. UNCHANGED outq
    BY <1>21 DEF OthersSend, sendVars
  <2>5. HeldIsShown'
    BY <2>2, <2>3, <2>4 DEF HInv, HeldIsShown, Pending, Ahead
  <2>6. PostedIsShown'
    BY <2>2, <2>3, <2>4 DEF HInv, PostedIsShown
  <2> QED
    BY <2>5, <2>6 DEF HInv
<1>22. ASSUME NEW m \in Mine, LiveCommit(m) PROVE HInv'
  <2>1. ServerAppend(m) /\ m \in Msgs /\ at \in 0..Len(slog)
    BY <1>22 DEF LiveCommit, Msgs, TypeOK
  <2>2. UNCHANGED <<screen, at, store>>
    BY <1>22 DEF LiveCommit, screenVars
  <2>3. /\ Upto(at)' = Upto(at) /\ Ahead(m)'
        /\ \A k : Ahead(k) => Ahead(k)'
    BY <2>1, <2>2, AppendKeeps DEF Ahead, Upto
  <2>4. UNCHANGED outq
    BY <1>22 DEF LiveCommit
  <2>5. HeldIsShown'
    BY <2>2, <2>3, <2>4 DEF HInv, HeldIsShown, Pending, Ahead
  <2>6. PostedIsShown'
    BY <2>2, <2>3, <2>4 DEF HInv, PostedIsShown
  <2> QED
    BY <2>5, <2>6 DEF HInv
<1>23. ASSUME NEW m \in Mine, OutboxPost(m) PROVE HInv'
  <2>1. ServerAppend(m) /\ m \in Msgs /\ at \in 0..Len(slog)
    BY <1>23 DEF OutboxPost, Msgs, TypeOK
  <2>2. UNCHANGED <<screen, at, store>>
    BY <1>23 DEF OutboxPost, screenVars
  <2>3. /\ Upto(at)' = Upto(at) /\ Ahead(m)'
        /\ \A k : Ahead(k) => Ahead(k)'
    BY <2>1, <2>2, AppendKeeps DEF Ahead, Upto
  <2>4. \A k \in Mine : (outq[k] # "no") = (outq'[k] # "no") /\ (k # m => outq'[k] = outq[k])
    BY <1>23 DEF OutboxPost, TypeOK
  <2>5. HeldIsShown'
    BY <2>2, <2>3, <2>4 DEF HInv, HeldIsShown, Pending, Ahead
  <2>6. PostedIsShown'
    BY <2>2, <2>3, <2>4 DEF HInv, PostedIsShown
  <2> QED
    BY <2>5, <2>6 DEF HInv
<1>24. ASSUME NEW m \in Mine, SendQueued(m) PROVE HInv'
  <2>1. UNCHANGED <<slog, screen, at, store>> /\ outq' = [outq EXCEPT ![m] = "queued"]
    BY <1>24 DEF SendQueued, screenVars
  <2> QED
    BY <2>1 DEF HInv, HeldIsShown, PostedIsShown, Pending, Ahead, Upto, TypeOK
<1>25. ASSUME NEW m \in Mine, SendLive(m) PROVE HInv'
  BY <1>25 DEF SendLive, HInv, HeldIsShown, PostedIsShown, Pending, Ahead, Upto, TypeOK
<1>26. ASSUME NEW m \in Mine, LiveFail(m) PROVE HInv'
  <2>1. /\ UNCHANGED <<slog, screen, at>> /\ outq' = [outq EXCEPT ![m] = "queued"]
        /\ \A k \in store : k # m => k \in store'
    BY <1>26 DEF LiveFail, Rollback
  <2>2. outq' \in [Mine -> {"no", "queued", "posted"}] /\ outq'[m] = "queued"
        /\ \A k \in Mine : k # m => outq'[k] = outq[k]
    BY <2>1 DEF TypeOK
  <2>3. Upto(at)' = Upto(at) /\ \A k : Ahead(k)' <=> Ahead(k)
    BY <2>1 DEF Upto, Ahead
  <2>4. HeldIsShown'
    BY <2>1, <2>2, <2>3 DEF HInv, HeldIsShown, Pending, Ahead
  <2>5. PostedIsShown'
    BY <2>1, <2>2, <2>3 DEF HInv, PostedIsShown
  <2> QED
    BY <2>4, <2>5 DEF HInv
<1>27. ASSUME NEW m \in Mine, OutboxConfirm(m) PROVE HInv'
  <2>1. UNCHANGED <<slog, screen, at, store>> /\ outq[m] = "posted" /\ outq' = [outq EXCEPT ![m] = "no"]
    BY <1>27 DEF OutboxConfirm, screenVars
  <2> QED
    BY <2>1 DEF HInv, HeldIsShown, PostedIsShown, Pending, Ahead, Upto, TypeOK
<1> QED
  BY <1>4, <1>5, <1>6, <1>7, <1>8, <1>9, <1>10, <1>11, <1>12, <1>13, <1>14, <1>15, <1>16, <1>17, <1>18, <1>19, <1>20, <1>21, <1>22, <1>23, <1>24, <1>25, <1>26, <1>27 DEF Next

----------------------------------------------------------------------------
(* The theorems. *)

THEOREM RoomInvariant == Spec => []RInv
<1>1. Init => RInv
  BY InitRoom
<1> QED
  BY <1>1, NextRoom, PTL DEF Spec

(* Every reachable state of a room and its cursor is well typed: in particular
   neither the checkpoint nor the persisted log is ever past the server's log
   (use-room.ts, stream-log.ts). *)
THEOREM RoomTypeCorrect == Spec => []TypeOK
<1>1. RInv => TypeOK
  BY DEF RInv
<1> QED
  BY <1>1, RoomInvariant, PTL

(* The screen shows nothing the server does not have but the sends still
   awaited: the rollback of use-room.ts:280 removes every bubble whose append
   failed, whatever pulls, sweeps, closings and crashes happen meanwhile. *)
THEOREM NoGhosts == Spec => []NoGhost
<1>1. RInv => NoGhost
  BY DEF RInv, SendsOK
<1> QED
  BY <1>1, RoomInvariant, PTL

(* Provided getDecryptedItems() returns what the cursor holds when it resolves,
   no message the cursor has moved past is missing from a painted screen. *)
THEOREM NothingLostBehind ==
  ASSUME HistoryLive
  PROVE  Spec => []HeldIsShown
<1>1. Init => RInv /\ HInv
  BY InitRoom
<1>2. RInv /\ HInv /\ [Next]_rvars => RInv' /\ HInv'
  BY HistoryLive, NextRoom, NextHeld
<1>3. HInv => HeldIsShown
  BY DEF HInv
<1> QED
  BY <1>1, <1>2, <1>3, PTL DEF Spec
=============================================================================
