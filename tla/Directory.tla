----------------------------- MODULE Directory -----------------------------
(***************************************************************************)
(* The directory of public spaces: two projections that the server folds   *)
(* into one list document (apps/server/src/projections.ts), and what the   *)
(* client makes of it (packages/sdk/src/spaces/explore-spaces.ts).         *)
(*                                                                         *)
(* A write and its projection are one step.  An entry is what the document *)
(* has of a space: a count of public rooms, 0 while it has none, and a     *)
(* name.  Images go the way of names.                                      *)
(***************************************************************************)
EXTENDS Naturals

CONSTANTS
    Listable,    \* spaces
    Names,
    NoName,
    MaxRooms     \* bound on the rooms of a space

ASSUME DirectoryConstantsOK == NoName \notin Names /\ MaxRooms \in Nat

VARIABLES
    rooms,       \* of each space, how many rooms are live and public, and how many archived
    name,        \* the name in its access record, NoName before it is created
    entry        \* what the list document has of it

dvars == <<rooms, name, entry>>

Rooms == [live : 0..MaxRooms, archived : 0..MaxRooms]
Entries == [publicRooms : 0..MaxRooms, name : Names \cup {NoName}]
NoEntry == [publicRooms |-> 0, name |-> NoName]

DirectoryInit ==
    /\ rooms = [s \in Listable |-> [live |-> 0, archived |-> 0]]
    /\ name = [s \in Listable |-> NoName]
    /\ entry = [s \in Listable |-> NoEntry]

(* A faulty form: archived rooms count. *)
countAll(r) == r.live + r.archived

countPublicRooms(r) == r.live

(* The index of a created space is written: rooms are added, made public or
   private, archived.  Without a public room the entry goes. *)
projectObjIndex(s, r) ==
    /\ name[s] # NoName
    /\ rooms' = [rooms EXCEPT ![s] = r]
    /\ entry' = [entry EXCEPT ![s] =
           IF countPublicRooms(r) = 0 THEN NoEntry ELSE [@ EXCEPT !.publicRooms = countPublicRooms(r)]]
    /\ UNCHANGED name

(* The access record is written: at creation, and when the space is renamed. *)
projectSpaceRegistry(s, n) ==
    /\ name' = [name EXCEPT ![s] = n]
    /\ entry' = [entry EXCEPT ![s].name = n]
    /\ UNCHANGED rooms

DirectoryNext ==
    \E s \in Listable : \/ \E r \in Rooms : projectObjIndex(s, r)
                        \/ \E n \in Names : projectSpaceRegistry(s, n)

DirectorySpec == DirectoryInit /\ [][DirectoryNext]_dvars

(* loadPublicSpaceIndex: entries without a public room are not shown. *)
Listed == {s \in Listable : entry[s].publicRooms > 0}

----------------------------------------------------------------------------

DirectoryTypeOK ==
    /\ rooms \in [Listable -> Rooms]
    /\ name \in [Listable -> Names \cup {NoName}]
    /\ entry \in [Listable -> Entries]

(* "Returns every discoverable space (>= 1 public room)" and no other
   (explore-spaces.ts:80): a space whose rooms are all private or archived is
   not shown, whether its name or its index was written last. *)
DirectoryExact == Listed = {s \in Listable : rooms[s].live > 0}
=============================================================================
