----------------------------- MODULE Revocation -----------------------------
(***************************************************************************)
(* The server's revocation store (apps/server/src/revocation-store.ts):    *)
(* the lists in force live in memory, a file keeps them over restarts.     *)
(* A list stands for its issuer and its generation; accepting, persisting  *)
(* and booting are synchronous, so that only the death of the process can  *)
(* come between their steps.                                               *)
(***************************************************************************)
EXTENDS Naturals

CONSTANTS
    Issuers,        \* who revokes
    MaxGeneration   \* bound on the generations of a list

ASSUME RevocationConstantsOK == MaxGeneration \in Nat

VARIABLES
    up,         \* the process runs
    enforced,   \* inner: the generation in force of each issuer, 0 for none
    lists,      \* the lists kept for serialization
    file,       \* the lists in the file
    owed        \* history: what was in force at the last write, since the file was last unreadable

rvars == <<up, enforced, lists, file, owed>>

Ledger == [Issuers -> 0..MaxGeneration]

NoLists == [i \in Issuers |-> 0]

RevocationInit ==
    /\ up = TRUE
    /\ enforced = NoLists /\ lists = NoLists /\ file = NoLists /\ owed = NoLists

(* The inner store takes a list only if its generation is a new one. *)
Accepts(i, g) == g > enforced[i]

(* A faulty form: only the list at hand is written. *)
SerializedAlone(ls, i) == [NoLists EXCEPT ![i] = ls[i]]

(* The file is replaced by all the lists: written aside, then renamed. *)
Serialized(ls, i) == ls

Kept(i, g) == [lists EXCEPT ![i] = g]

acceptList(i, g) ==
    /\ up = TRUE
    /\ Accepts(i, g)
    /\ enforced' = [enforced EXCEPT ![i] = g]
    /\ lists' = Kept(i, g)
    /\ \/ /\ file' = Serialized(Kept(i, g), i)
          /\ owed' = [enforced EXCEPT ![i] = g]
       \/ UNCHANGED <<file, owed>>          \* the write fails: reported, and left for the next list
    /\ UNCHANGED up

(* Memory is lost; the lists are those of the next boot. *)
Dead == up' = FALSE /\ enforced' = NoLists /\ lists' = NoLists

Dies == up = TRUE /\ Dead /\ UNCHANGED <<file, owed>>

(* The process dies between accepting a list and answering, with the file
   renamed; before the rename it is the death before acceptList. *)
DiesPersisting(i, g) ==
    /\ up = TRUE
    /\ Accepts(i, g)
    /\ file' = Serialized(Kept(i, g), i)
    /\ owed' = [enforced EXCEPT ![i] = g]
    /\ Dead

(* The lists that a boot keeps for the next serialization. *)
Replayed(f) == f

Boot ==
    /\ up = FALSE
    /\ up' = TRUE
    /\ enforced' = file
    /\ lists' = Replayed(file)
    /\ UNCHANGED <<file, owed>>

(* The file cannot be read or parsed: the store starts empty. *)
BootUnreadable ==
    /\ up = FALSE
    /\ up' = TRUE
    /\ enforced' = NoLists /\ lists' = NoLists
    /\ owed' = NoLists
    /\ UNCHANGED file

RevocationNext ==
    \/ \E i \in Issuers, g \in 1..MaxGeneration : acceptList(i, g) \/ DiesPersisting(i, g)
    \/ Dies \/ Boot \/ BootUnreadable

RevocationSpec == RevocationInit /\ [][RevocationNext]_rvars

isRevoked(i) == enforced[i] > 0

----------------------------------------------------------------------------

RevocationTypeOK ==
    /\ up \in BOOLEAN
    /\ {enforced, lists, file, owed} \subseteq Ledger

(* "the revocation store is file-backed so revokes survive a restart"
   (apps/server/src/index.ts:53): a running server enforces at least every list
   that has reached the file since the file was last unreadable, whoever issued
   it, over any number of deaths, failed writes and lists of others.  What was
   accepted and never written is not promised. *)
StaysRevoked ==
    up => \A i \in Issuers : owed[i] <= enforced[i] /\ owed[i] <= file[i]
=============================================================================
