-------------------------- MODULE AutomationWatched --------------------------
(***************************************************************************)
(* Automation, with an account of what its mishaps cost.  Ticks may        *)
(* overlap, die, lose the response of a post or the write of an outcome    *)
(* (orchestrator.ts:154-192); each such mishap may let the schedule run    *)
(* ahead of its cadence, or post a content twice.  The account says how    *)
(* often: a mishap is a credit, what it may lead to is a debit.            *)
(***************************************************************************)
EXTENDS Automation, Integers

CONSTANT MaxMishaps    \* bound on the credit of either account

ASSUME WatchConstantsOK == IsFiniteSet(Devices) /\ Nothing \notin Slots

VARIABLES
    front,    \* the tick in progress that no other has started after, or Nothing
    ahead,    \* it was started by the schedule less than Every after the latest run
    ran,      \* how long ago the latest run started, recorded or not
    early,    \* mishaps that may yet bring the next run forward, less those that have
    again     \* mishaps that may yet have a content posted again, less those that have

hvars == <<front, ahead, ran, early, again>>
wvars == <<avars, hvars>>

WatchedInit == Init /\ front = Nothing /\ ahead = FALSE /\ ran = Every /\ early = 0 /\ again = 0

If(p) == IF p THEN 1 ELSE 0

----------------------------------------------------------------------------

WatchedPass == Pass /\ ran' = Older(ran) /\ UNCHANGED <<front, ahead, early, again>>

(* Two ticks that post may find the same thing to post. *)
Posters == Busy \ {Command}

(* A tick that starts while the one before is in progress overtakes it. *)
Starts(k, scheduled) ==
    /\ front' = k
    /\ ahead' = (scheduled /\ ran < Every)
    /\ early' = early + If(front # Nothing)
    /\ again' = again + If(k # Command /\ Posters # {})
    /\ early' <= MaxMishaps /\ again' <= MaxMishaps
    /\ UNCHANGED ran

WatchedStart(k) ==
    \/ k \in Devices /\ StartScheduled(k) /\ Starts(k, TRUE)
    \/ \E e \in Errors \cup {Nothing} : StartOther(k, e) /\ Starts(k, FALSE)

WatchedPosted(k) ==
    /\ Posted(k)
    /\ again' = again - If(k \in Devices /\ tick[k].out = last)
    /\ UNCHANGED <<front, ahead, ran, early>>

(* The post was made although it counts as failed. *)
WatchedPostFails(k, e) ==
    /\ PostFails(k, e)
    /\ again' = again + If(last' # last) /\ again' <= MaxMishaps
    /\ UNCHANGED <<front, ahead, ran, early>>

(* The tick k has run, or not, and ends; `credit' if the registry was not told. *)
RunEnds(k, run, credit) ==
    LET owed == early + credit - If(run /\ front = k /\ ahead)
    IN  /\ ran' = IF run /\ tick[k].age < ran THEN tick[k].age ELSE ran
        /\ front' = IF front = k THEN Nothing ELSE front
        /\ ahead' = (front # k /\ ahead)
        /\ early' = IF Busy = {k} /\ ran' = meta'.age /\ owed > 0 THEN 0 ELSE owed

WatchedWritten(k) ==
    /\ Written(k)
    /\ RunEnds(k, tick[k].out \notin Errors, 0)
    /\ again' = IF disturbed' THEN again ELSE 0

WatchedLost(k) ==
    /\ WriteLost(k) \/ (tick[k].pc = "writing" /\ Dies(k))
    /\ RunEnds(k, tick[k].out \notin Errors, If(tick[k].out \notin Errors))
    /\ again' = again + If(tick[k].out \in Bodies)
    /\ early' <= MaxMishaps /\ again' <= MaxMishaps

WatchedDies(k) ==
    /\ Dies(k) /\ tick[k].pc # "writing"
    /\ RunEnds(k, FALSE, 0)
    /\ UNCHANGED again

(* What no account is kept of. *)
Unwatched ==
    /\ \/ \E f \in Bodies \cup Errors : FeedTurns(f)
       \/ \E r \in Devices \cup {Off} : Elect(r)
       \/ Answered
       \/ \E k \in Slots : Fetched(k) \/ Told(k) \/ NotTold(k)
    /\ UNCHANGED hvars

WatchedNext ==
    \/ WatchedPass
    \/ Unwatched
    \/ \E k \in Slots : \/ WatchedStart(k) \/ WatchedPosted(k)
                        \/ WatchedWritten(k) \/ WatchedLost(k) \/ WatchedDies(k)
    \/ \E k \in Slots, e \in Errors : WatchedPostFails(k, e)

WatchedSpec == WatchedInit /\ [][WatchedNext]_wvars

----------------------------------------------------------------------------

(* `lastRunAt' "advances" with every run (orchestrator.ts:127), and "this gate stays
   the cross-device source of truth" over it (runner-core.ts:149).  But an outcome is
   written with the time of its start, so that a tick that was overtaken sets the last
   run back (orchestrator.ts:136), and a write may be lost (orchestrator.ts:187).  Each
   such mishap brings one run forward, and no more: however many overlap, the schedule
   runs ahead of its cadence at most once for each tick that was overtaken and each
   run that was not recorded; failed runs, which are tried again, are none. *)
AheadOncePerMishap == early >= 0

(* "A feed that keeps returning the same body shouldn't repost every interval"
   (runner-core.ts:128), not even after a mishap: the schedule posts what the room was
   given last at most once for each tick that overlapped another, each post whose
   response was lost (runner-core.ts:141), and each post that was not recorded
   (orchestrator.ts:187). *)
RepostOncePerMishap == again >= 0
=============================================================================
