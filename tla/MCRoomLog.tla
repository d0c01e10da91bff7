----------------------------- MODULE MCRoomLog -----------------------------
(* RoomLog with one message of the user's and one of somebody else. *)
EXTENDS RoomLog

CONSTANTS m1, t1

OneOfMine == {m1}
OneOfTheirs == {t1}
=============================================================================
