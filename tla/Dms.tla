-------------------------------- MODULE Dms --------------------------------
(***************************************************************************)
(* A direct message between two people: each may create the space of it,   *)
(* deliver the invite through a shared space or the other's inbox, and     *)
(* accept what the other delivered (packages/sdk/src/starfish/dm.ts,       *)
(* dm-link.ts, dm-inbox.ts, dm-ids.ts).  Each stage ends in an await.      *)
(*                                                                         *)
(* A person's registry document holds the DM spaces it has joined and one  *)
(* mapping for the peer; every write of it is retried on conflict, so that *)
(* it is one step.  Keyrings, caps and sealing are taken to be in order.   *)
(***************************************************************************)
EXTENDS Naturals

CONSTANTS
    NoDm,
    MaxDms    \* bound on the spaces that one person creates

(* The two, in the order of their user ids. *)
People == {1, 2}
Peer(u) == 3 - u

(* A space is its owner and a random number. *)
DmSpaces == [owner : People, n : 1..MaxDms]

ASSUME DmsConstantsOK == NoDm \notin DmSpaces /\ MaxDms \in Nat

VARIABLES
    dms,        \* the mapping of each person for the other
    listing,     \* the DM spaces in each person's list
    inbox,      \* the spaces whose invite was delivered to each
    create,     \* a creation in progress
    scan,       \* a reconcile in progress
    heal,       \* the mapping that a heal is about to write
    mishaps     \* history: a failure; an overlap of a creation with another operation of its person

mvars == <<dms, listing, inbox, create, scan, heal, mishaps>>

MaybeDm == DmSpaces \cup {NoDm}
Creations == [pc : {"idle", "made", "listed", "mapped", "sent", "filed"}, dm : MaybeDm, via : {"carrier", "inbox"}]
NoCreation == [pc |-> "idle", dm |-> NoDm, via |-> "carrier"]

(* `mine' is the mapping as the reconcile knows it, `known' the spaces it skips,
   `dm' the invite being accepted. *)
Scans == [on : BOOLEAN, mine : MaybeDm, known : SUBSET DmSpaces, todo : SUBSET DmSpaces, dm : MaybeDm]
NoScan == [on |-> FALSE, mine |-> NoDm, known |-> {}, todo |-> {}, dm |-> NoDm]

DmsInit ==
    /\ dms = [u \in People |-> NoDm]
    /\ listing = [u \in People |-> {}] /\ inbox = [u \in People |-> {}]
    /\ create = [u \in People |-> NoCreation]
    /\ scan = [u \in People |-> NoScan]
    /\ heal = [u \in People |-> NoDm]
    /\ mishaps = {}

(* A faulty form: one's own space wins. *)
OwnWins(me, mine, theirs) == IF mine = NoDm THEN theirs ELSE mine

dmWinner(me, mine, theirs) ==
    IF mine = NoDm \/ mine = theirs THEN theirs
    ELSE IF me < Peer(me) THEN mine ELSE theirs

----------------------------------------------------------------------------
(* createOrOpenDm and createOrOpenDmViaInbox. *)

Stage(u, pc) == create' = [create EXCEPT ![u].pc = pc]
Map(u, d) == dms' = [dms EXCEPT ![u] = d]
List(u, d) == listing' = [listing EXCEPT ![u] = @ \cup {d}]
Deliver(u, d) == inbox' = [inbox EXCEPT ![Peer(u)] = @ \cup {d}]

(* Opening what is mapped changes nothing; else a space is made, its roster
   with the peer in it, its only room. *)
Create(u, d, via) ==
    /\ create[u].pc = "idle"
    /\ dms[u] = NoDm
    /\ d.owner = u /\ d \notin listing[u] \cup inbox[Peer(u)]
    /\ create' = [create EXCEPT ![u] = [pc |-> "made", dm |-> d, via |-> via]]
    /\ UNCHANGED <<dms, listing, inbox, scan, heal>>

(* Through a shared space: listed, mapped, then delivered. *)
ListFirst(u) ==
    /\ create[u].pc = "made" /\ create[u].via = "carrier"
    /\ List(u, create[u].dm) /\ Stage(u, "listed")
    /\ UNCHANGED <<dms, inbox, scan, heal>>

MapThen(u) ==
    /\ create[u].pc = "listed"
    /\ Map(u, create[u].dm) /\ Stage(u, "mapped")
    /\ UNCHANGED <<listing, inbox, scan, heal>>

DeliverLast(u) ==
    /\ create[u].pc = "mapped"
    /\ Deliver(u, create[u].dm)
    /\ create' = [create EXCEPT ![u] = NoCreation]
    /\ UNCHANGED <<dms, listing, scan, heal>>

(* Through the inbox: delivered, listed, then mapped. *)
DeliverFirst(u) ==
    /\ create[u].pc = "made" /\ create[u].via = "inbox"
    /\ Deliver(u, create[u].dm) /\ Stage(u, "sent")
    /\ UNCHANGED <<dms, listing, scan, heal>>

ListThen(u) ==
    /\ create[u].pc = "sent"
    /\ List(u, create[u].dm) /\ Stage(u, "filed")
    /\ UNCHANGED <<dms, inbox, scan, heal>>

MapLast(u) ==
    /\ create[u].pc = "filed"
    /\ Map(u, create[u].dm)
    /\ create' = [create EXCEPT ![u] = NoCreation]
    /\ UNCHANGED <<listing, inbox, scan, heal>>

----------------------------------------------------------------------------
(* reconcileDmInbox: the registry is read once, the channels one after another. *)

Accepted(u) == {d \in listing[u] : d.owner = Peer(u)}    \* a cap is held of each

reconcileDmInbox(u) ==
    /\ ~scan[u].on
    /\ scan' = [scan EXCEPT ![u] = [NoScan EXCEPT !.on = TRUE, !.mine = dms[u],
                                                  !.known = Accepted(u) \cup ({dms[u]} \cap DmSpaces)]]
    /\ UNCHANGED <<dms, listing, inbox, create, heal>>

Between(u) == scan[u].on /\ scan[u].todo = {} /\ scan[u].dm = NoDm

scanDmInbox(u) ==
    /\ Between(u)
    /\ scan' = [scan EXCEPT ![u].todo = inbox[u] \ scan[u].known]
    /\ UNCHANGED <<dms, listing, inbox, create, heal>>

(* The loser of two is left alone. *)
SkipInvite(u, d) ==
    /\ d \in scan[u].todo /\ scan[u].dm = NoDm
    /\ dmWinner(u, scan[u].mine, d) # d
    /\ scan' = [scan EXCEPT ![u].todo = @ \ {d}]
    /\ UNCHANGED <<dms, listing, inbox, create, heal>>

acceptSpaceInvite(u, d) ==
    /\ d \in scan[u].todo /\ scan[u].dm = NoDm
    /\ dmWinner(u, scan[u].mine, d) = d
    /\ List(u, d)
    /\ scan' = [scan EXCEPT ![u].todo = @ \ {d},
                            ![u].dm = IF scan[u].mine = d THEN NoDm ELSE d]
    /\ UNCHANGED <<dms, inbox, create, heal>>

MapAccepted(u) ==
    /\ scan[u].dm # NoDm
    /\ Map(u, scan[u].dm)
    /\ scan' = [scan EXCEPT ![u].mine = scan[u].dm, ![u].known = @ \cup {scan[u].dm}, ![u].dm = NoDm]
    /\ UNCHANGED <<listing, inbox, create, heal>>

ReconcileDone(u) ==
    /\ Between(u)
    /\ scan' = [scan EXCEPT ![u] = NoScan]
    /\ UNCHANGED <<dms, listing, inbox, create, heal>>

(* healDmMap: a space of the list is mapped if the peer is not. *)
healDmMap(u, d) ==
    /\ heal[u] = NoDm
    /\ dms[u] = NoDm /\ d \in listing[u]
    /\ heal' = [heal EXCEPT ![u] = d]
    /\ UNCHANGED <<dms, listing, inbox, create, scan>>

Healed(u) ==
    /\ heal[u] # NoDm
    /\ Map(u, heal[u])
    /\ heal' = [heal EXCEPT ![u] = NoDm]
    /\ UNCHANGED <<listing, inbox, create, scan>>

(* A request fails or the app dies: what its person had in progress ends there. *)
Stops(u) ==
    /\ create[u] # NoCreation \/ scan[u].on \/ heal[u] # NoDm
    /\ create' = [create EXCEPT ![u] = NoCreation]
    /\ scan' = [scan EXCEPT ![u] = NoScan]
    /\ heal' = [heal EXCEPT ![u] = NoDm]
    /\ UNCHANGED <<dms, listing, inbox>>

Moves(u) ==
    \/ \E d \in DmSpaces : \/ \E via \in {"carrier", "inbox"} : Create(u, d, via)
                           \/ SkipInvite(u, d) \/ acceptSpaceInvite(u, d) \/ healDmMap(u, d)
    \/ ListFirst(u) \/ MapThen(u) \/ DeliverLast(u) \/ DeliverFirst(u) \/ ListThen(u) \/ MapLast(u)
    \/ reconcileDmInbox(u) \/ scanDmInbox(u) \/ MapAccepted(u) \/ ReconcileDone(u) \/ Healed(u)

Overlap(c, s, h) == IF c # NoCreation /\ (s.on \/ h # NoDm) THEN {"overlap"} ELSE {}

DmsNext ==
    \E u \in People :
       \/ Moves(u) /\ mishaps' = mishaps \cup Overlap(create'[u], scan'[u], heal'[u])
       \/ Stops(u) /\ mishaps' = mishaps \cup {"failure"}

DmsSpec == DmsInit /\ [][DmsNext]_mvars

----------------------------------------------------------------------------

DmsTypeOK ==
    /\ dms \in [People -> MaybeDm]
    /\ listing \in [People -> SUBSET DmSpaces] /\ inbox \in [People -> SUBSET DmSpaces]
    /\ create \in [People -> Creations]
    /\ scan \in [People -> Scans]
    /\ heal \in [People -> MaybeDm]
    /\ mishaps \subseteq {"failure", "overlap"}

(* Nothing is in progress, and neither a reconcile nor a heal would change anything. *)
Settled ==
    \A u \in People :
       /\ create[u] = NoCreation /\ ~scan[u].on /\ heal[u] = NoDm
       /\ dms[u] = NoDm => listing[u] = {}
       /\ \A d \in inbox[u] \ (Accepted(u) \cup {dms[u]}) : dmWinner(u, dms[u], d) # d

(* "the space owned by min(userId) wins (a stable, symmetric rule both sides
   compute identically)" (dm-ids.ts:24): without any failure, once all is read, the
   two have the same room, whichever of them created a space and when. *)
SameRoom == Settled /\ "failure" \notin mishaps => dms[1] = dms[2]

(* What does hold: if nothing failed and nobody's creation overlapped with his own
   reconcile or heal, the two end up in the same room, and neither alone in one;
   the creations of both may overlap in any order, by either channel. *)
SameRoomInTurn == Settled /\ mishaps = {} => dms[1] = dms[2]
=============================================================================
