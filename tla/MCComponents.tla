---------------------------- MODULE MCComponents ----------------------------
(* Components that share no state, side by side: `part' is the one that moves,
   from the start to the end of a behaviour, so that the states of the whole are
   the sum of those of the parts and not their product. *)
EXTENDS LiveEvents, Webhooks, Directory, Session, Unread, Dms, RoomsRegistry, Schedule, Autosave, Desk, Updater,
        MessageView

CONSTANTS i1, i2, s1, s2, s3, h1, h2, h3, o1, o2, p1, sp1, n1, n2, a1, a2, k1, k2, r1, d1,
          t0, t1, t2, e1, e2, v1, v2, v3, m1, m2

TwoIssuers == {i1, i2}
OneCaller == {i1}
ThreeSpaces == {s1, s2, s3}
ThreeHooks == {h1, h2, h3}
TwoOwners == {o1, o2}
OnePost == {p1}
OneListable == {sp1}
TwoNames == {n1, n2}
TwoAccounts == {a1, a2}
TwoCalls == {k1, k2}
TwoConvs == {r1, d1}
OneDM == {d1}
TwoUsers == {e1, e2}
ThreeTexts == {t0, t1, t2}
OneDesk == {e1}
ThreeReleases == {v1, v2, v3}
TwoMessages == {m1, m2}
OneOfEach == [m \in TwoMessages |-> IF m = m1 THEN e1 ELSE e2]

(* Every interval, daily and weekly cadence of the small calendar, and cron
   expressions with every kind of field, one of which never matches. *)
OfDay == [hour : 0..(HoursPerDay - 1), minute : 0..(MinutesPerHour - 1)]
AnyValue == [kind |-> "any"]
Step(n) == [kind |-> "step", n |-> n]
OneOf(S) == [kind |-> "list", of |-> S]
Cadences ==
    {[kind |-> "interval", everyMin |-> n] : n \in 0..2}
    \cup {[kind |-> "daily", hour |-> d.hour, minute |-> d.minute] : d \in OfDay}
    \cup {[kind |-> "weekly", hour |-> d.hour, minute |-> d.minute, weekday |-> w] : d \in OfDay, w \in {0, 3, 6}}
    \cup [kind : {"cron"}, fields : [minute : {AnyValue, Step(2), OneOf({1})}, hour : {AnyValue, OneOf({0, 2}), OneOf({9})},
                                     weekday : {AnyValue, Step(3), OneOf({0})}]]

VARIABLE part

vars == <<part, lvars, wvars, dvars, svars, uvars, mvars, gvars, tvars, nvars, kvars, pvars, viewvars>>

Parts == {"revocation", "events", "webhooks", "directory", "session", "unread", "dms", "rooms",
          "schedule", "autosave", "desk", "updater", "view"}

(* A stream asks of the store only whether there is a list of its caller: with
   streams, one list of the caller will do. *)
FirstLists == \A i \in Issuers : LET most == IF i \in Callers THEN 1 ELSE 0 IN enforced[i] <= most /\ file[i] <= most

(* Reactions, edits and pins do not meet: the events of one kind will do. *)
OneKind == \A i, j \in DOMAIN elog : elog[i].t = elog[j].t

ComponentsInit ==
    /\ part \in Parts
    /\ LiveEventsInit /\ WebhooksInit /\ DirectoryInit /\ SessionInit /\ UnreadInit /\ DmsInit
    /\ RoomsRegistryInit /\ ScheduleInit /\ AutosaveInit /\ DeskInit
    /\ UpdaterInit /\ MessageViewInit
    /\ part # "schedule" => lastRunAt = 0 /\ schedule = [kind |-> "interval", everyMin |-> 0]
    /\ part # "autosave" => commitEmpty
    /\ part # "desk" => mode = "manual"
    /\ part # "updater" => manifest = v1

(* The variables of a component stand still when it is not its turn. *)
Still(turns, same) == IF part \in turns THEN TRUE ELSE same

OthersStill ==
    /\ UNCHANGED part
    /\ Still({"revocation", "events"}, UNCHANGED lvars)
    /\ Still({"webhooks"}, UNCHANGED wvars) /\ Still({"directory"}, UNCHANGED dvars)
    /\ Still({"session"}, UNCHANGED svars) /\ Still({"unread"}, UNCHANGED uvars)
    /\ Still({"dms"}, UNCHANGED mvars) /\ Still({"rooms"}, UNCHANGED gvars)
    /\ Still({"schedule"}, UNCHANGED tvars) /\ Still({"autosave"}, UNCHANGED nvars)
    /\ Still({"desk"}, UNCHANGED kvars) /\ Still({"updater"}, UNCHANGED pvars)
    /\ Still({"view"}, UNCHANGED viewvars)

ComponentsNext ==
    \/ part = "revocation" /\ StoreStep /\ OthersStill
    \/ part = "events" /\ LiveEventsNext /\ FirstLists' /\ OthersStill
    \/ part = "webhooks" /\ WebhooksNext /\ OthersStill
    \/ part = "directory" /\ DirectoryNext /\ OthersStill
    \/ part = "session" /\ SessionNext /\ OthersStill
    \/ part = "unread" /\ UnreadNext /\ OthersStill
    \/ part = "dms" /\ DmsNext /\ OthersStill
    \/ part = "rooms" /\ RoomsRegistryNext /\ OthersStill
    \/ part = "schedule" /\ ScheduleNext /\ OthersStill
    \/ part = "autosave" /\ AutosaveNext /\ OthersStill
    \/ part = "desk" /\ DeskNext /\ OthersStill
    \/ part = "updater" /\ UpdaterNext /\ OthersStill
    \/ part = "view" /\ MessageViewNext /\ OneKind' /\ OthersStill
    \/ part = "view" /\ Len(elog) = MaxEvents /\ UNCHANGED vars   \* the log is full: the bound

ComponentsSpec == ComponentsInit /\ [][ComponentsNext]_vars

(* Every component keeps its variables in their types. *)
ComponentsTypeOK ==
    /\ LiveEventsTypeOK /\ WebhooksTypeOK /\ DirectoryTypeOK /\ SessionTypeOK /\ UnreadTypeOK
    /\ DmsTypeOK /\ RoomsRegistryTypeOK /\ ScheduleTypeOK /\ AutosaveTypeOK /\ DeskTypeOK
    /\ UpdaterTypeOK /\ MessageViewTypeOK
=============================================================================
