------------------------- MODULE MCAutomationTasks -------------------------
(* An automated room and, beside it, the background tasks of a device: they
   share no state here, and `part' is the one that moves. *)
EXTENDS MCAutomation, AutomationWatched, Tasks, TLC

CONSTANTS u1, u2, r1, r2, c1, c2

TwoMembers == {u1, u2}
TwoRooms == {r1, r2}
TwoCadences == {c1, c2}
OneUnparsable == {c2}

(* The two devices of the automation are alike, and so are its two contents. *)
Alike == Permutations(TwoDevices) \cup Permutations(TwoBodies)

VARIABLE part

(* Of the two rooms, one will do with one account and one cadence. *)
PlainSecond == roomIndex[r2] \in [runner : {u1, Nobody}, cadence : {c1}]

SideBySideInit ==
    /\ WatchedInit /\ TasksInit /\ PlainSecond
    /\ part \in {"automation", "tasks"}
    /\ part = "tasks" => feed \in Bodies
    /\ part = "automation" => roomIndex = [r \in TwoRooms |-> [runner |-> Nobody, cadence |-> c1]]

SideBySideNext ==
    \/ part = "automation" /\ WatchedNext /\ UNCHANGED <<part, bvars>>
    \/ part = "tasks" /\ TasksNext /\ PlainSecond' /\ UNCHANGED <<part, wvars>>

SideBySideSpec == SideBySideInit /\ [][SideBySideNext]_<<part, wvars, bvars>>
=============================================================================
