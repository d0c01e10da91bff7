-------------------------------- MODULE Desk --------------------------------
(***************************************************************************)
(* A ticket or room requested from the owner of a space by somebody who is *)
(* no member of it (packages/sdk/src/desk/intake.ts, requester.ts,         *)
(* apps/mobile/src/lib/requests-context.tsx): it is filed in the owner's   *)
(* inbox, and each of the owner's devices may turn it into a node, by hand *)
(* or by the reconcile, or decline it; the requester's inbox has the       *)
(* answers.  A scan of the inbox passes over requests that have a node.    *)
(*                                                                         *)
(* One request: others have nothing in common with it.  First messages and *)
(* replies are left out.                                                   *)
(***************************************************************************)
EXTENDS Naturals

CONSTANTS
    Desks,      \* the owner's devices
    MaxNodes    \* bound on the nodes made for the request

ASSUME DeskConstantsOK == MaxNodes \in Nat

VARIABLES
    filed,      \* the request is in the owner's inbox
    outgoing,   \* what the requester's registry says of it
    mode,       \* the space's intake configuration
    nodes,      \* how many nodes the space's index has for it
    granted,    \* the nodes whose grant is in the requester's inbox
    claimed,    \* those that the requester has claimed
    rejected,   \* a rejection is in the requester's inbox
    declined,   \* the owner's registry says it was declined
    row,        \* it is on the device's list of pending requests
    look,       \* a reading of that list that was not applied yet
    work,       \* what each device does about it, by hand and in its reconcile
    slips       \* history: a work ended half-way, or crossed another one or a decision

kvars == <<filed, outgoing, mode, nodes, granted, claimed, rejected, declined, row, look, work, slips>>
ownerVars == <<mode, nodes, declined, row, look, work>>
answerVars == <<granted, rejected>>
requesterVars == <<filed, outgoing, claimed>>

Workers == Desks \X {"hand", "reconcile"}
Works == [pc : {"idle", "scanned", "creating", "granting", "rejecting", "declining"}, node : 0..MaxNodes]
NoWork == [pc |-> "idle", node |-> 0]

DeskInit ==
    /\ filed = FALSE /\ outgoing = "none" /\ claimed = {}
    /\ mode \in {"manual", "auto"}
    /\ nodes = 0 /\ granted = {}
    /\ rejected = FALSE /\ declined = FALSE
    /\ row = [d \in Desks |-> FALSE] /\ look = [d \in Desks |-> "none"]
    /\ work = [w \in Workers |-> NoWork]
    /\ slips = {}

----------------------------------------------------------------------------
(* The requester. *)

submitNodeRequest ==
    /\ ~filed
    /\ filed' = TRUE
    /\ UNCHANGED <<outgoing, claimed, slips, ownerVars, answerVars>>

(* After the delivery, unless the app died meanwhile. *)
recordOutgoingRequest ==
    /\ filed /\ outgoing = "none"
    /\ outgoing' = "pending"
    /\ UNCHANGED <<filed, claimed, slips, ownerVars, answerVars>>

claimGrantedNodes ==
    /\ granted # claimed
    /\ claimed' = granted
    /\ UNCHANGED <<filed, outgoing, slips, ownerVars, answerVars>>

(* A request that is not on record is not marked. *)
claimRejectedRequests ==
    /\ rejected /\ outgoing = "pending"
    /\ outgoing' = "refused"
    /\ UNCHANGED <<filed, claimed, slips, ownerVars, answerVars>>

----------------------------------------------------------------------------
(* The owner's list of pending requests. *)

(* A faulty form: the index is not asked. *)
ScannedAgain == filed

Scanned == filed /\ nodes = 0

listPending(d) ==
    /\ look[d] = "none"
    /\ look' = [look EXCEPT ![d] = IF Scanned /\ ~declined THEN "pending" ELSE "gone"]
    /\ UNCHANGED <<mode, nodes, declined, row, work, slips, answerVars, requesterVars>>

(* The answer is applied whatever was decided since. *)
ListApplied(d) ==
    /\ look[d] # "none"
    /\ row' = [row EXCEPT ![d] = look[d] = "pending"]
    /\ look' = [look EXCEPT ![d] = "none"]
    /\ UNCHANGED <<mode, nodes, declined, work, slips, answerVars, requesterVars>>

SetMode ==
    /\ mode' \in {"manual", "auto"}
    /\ UNCHANGED <<nodes, declined, row, look, work, slips, answerVars, requesterVars>>

----------------------------------------------------------------------------
(* Accepting and declining; each stage ends in an await. *)

(* History: another work is in progress, or a list shows what has a node by now. *)
Crosses(w) == (\E v \in Workers : work[v] # NoWork) \/ (w[2] = "hand" /\ nodes > 0)

Begins(w, pc) ==
    /\ work[w] = NoWork
    /\ work' = [work EXCEPT ![w].pc = pc]
    /\ slips' = slips \cup (IF Crosses(w) THEN {"crossed"} ELSE {})
    /\ UNCHANGED <<mode, nodes, declined, row, look, answerVars, requesterVars>>

(* By hand what is on the list, one thing at a time. *)
accept(d) == row[d] /\ Begins(<<d, "hand">>, "creating")
decline(d) == row[d] /\ Begins(<<d, "hand">>, "rejecting")

(* reconcileTicketRequests: the inbox is scanned, then the configuration read. *)
reconcileTicketRequests(d) == Scanned /\ Begins(<<d, "reconcile">>, "scanned")

ConfigRead(w) ==
    /\ work[w].pc = "scanned"
    /\ work' = [work EXCEPT ![w].pc = IF mode = "manual" THEN "idle" ELSE "creating"]
    /\ UNCHANGED <<mode, nodes, declined, row, look, slips, answerVars, requesterVars>>

(* createTicketNodeWithReqId, createSharedRoomNodeWithReqId: a node of its own, whatever
   the index holds by now. *)
NodeCreated(w) ==
    /\ work[w].pc = "creating"
    /\ nodes < MaxNodes
    /\ nodes' = nodes + 1
    /\ work' = [work EXCEPT ![w] = [pc |-> "granting", node |-> nodes + 1]]
    /\ UNCHANGED <<mode, declined, row, look, slips, answerVars, requesterVars>>

(* A decision by hand takes the request off the list. *)
OffTheList(w) == row' = IF w[2] = "hand" THEN [row EXCEPT ![w[1]] = FALSE] ELSE row

Granted(w) ==
    /\ work[w].pc = "granting"
    /\ granted' = granted \cup {work[w].node}
    /\ work' = [work EXCEPT ![w] = NoWork]
    /\ OffTheList(w)
    /\ UNCHANGED <<mode, nodes, declined, look, rejected, slips, requesterVars>>

(* A faulty form: the registry is written first. *)
DeclinedFirst(w) ==
    /\ work[w].pc = "rejecting"
    /\ declined' = TRUE
    /\ work' = [work EXCEPT ![w].pc = "declining"]
    /\ UNCHANGED <<mode, nodes, row, look, slips, answerVars, requesterVars>>

rejectResourceRequest(w) ==
    /\ work[w].pc = "rejecting"
    /\ rejected' = TRUE
    /\ work' = [work EXCEPT ![w].pc = "declining"]
    /\ UNCHANGED <<mode, nodes, declined, row, look, granted, slips, requesterVars>>

setRequestDeclined(w) ==
    /\ work[w].pc = "declining"
    /\ declined' = TRUE
    /\ work' = [work EXCEPT ![w] = NoWork]
    /\ OffTheList(w)
    /\ UNCHANGED <<mode, nodes, look, slips, answerVars, requesterVars>>

(* A request to the server fails, or the app dies. *)
WorkFails(w) ==
    /\ work[w] # NoWork
    /\ work' = [work EXCEPT ![w] = NoWork]
    /\ slips' = slips \cup (IF work[w].pc = "granting" THEN {"half-way"} ELSE {})
    /\ UNCHANGED <<mode, nodes, declined, row, look, answerVars, requesterVars>>

DeskNext ==
    \/ submitNodeRequest \/ recordOutgoingRequest \/ claimGrantedNodes \/ claimRejectedRequests
    \/ SetMode
    \/ \E d \in Desks : listPending(d) \/ ListApplied(d) \/ accept(d) \/ decline(d) \/ reconcileTicketRequests(d)
    \/ \E w \in Workers : \/ ConfigRead(w) \/ NodeCreated(w) \/ Granted(w)
                          \/ rejectResourceRequest(w) \/ setRequestDeclined(w) \/ WorkFails(w)

DeskSpec == DeskInit /\ [][DeskNext]_kvars

----------------------------------------------------------------------------

DeskTypeOK ==
    /\ {filed, rejected, declined} \subseteq BOOLEAN /\ slips \subseteq {"half-way", "crossed"}
    /\ outgoing \in {"none", "pending", "refused"} /\ mode \in {"manual", "auto"}
    /\ nodes \in 0..MaxNodes /\ granted \subseteq 1..MaxNodes /\ claimed \subseteq 1..MaxNodes
    /\ row \in [Desks -> BOOLEAN] /\ look \in [Desks -> {"none", "pending", "gone"}]
    /\ work \in [Workers -> Works]

(* "Idempotent: scanResourceRequests skips requests already turned into a ticket ...
   so re-running the reconcile never double-creates" (intake.ts:12-13): a request gets
   one node, whatever fails and however often the reconcile runs, as long as no two
   works overlap and nobody accepts it from a list that is out of date. *)
OneNodeInTurn == "crossed" \notin slips => nodes <= 1

(* No request disappears from the owner's sight without an answer: what was declined
   has been rejected, wherever a decline fails, and every node made for a request is granted
   once nothing is in progress, unless the work failed between the two; and the requester holds
   and sees refused only what the owner answered, whatever devices, modes and
   stale lists had a hand in it. *)
AnsweredWhenGone ==
    /\ declined => rejected
    /\ "half-way" \notin slips /\ (\A w \in Workers : work[w] = NoWork) => granted = 1..nodes
    /\ claimed \subseteq granted /\ (outgoing = "refused" => rejected)
=============================================================================
