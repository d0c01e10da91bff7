---------------------------- MODULE ClientProofs ----------------------------
(***************************************************************************)
(* Proofs about the client: autosave, the desk, the shared cache of rooms, *)
(* the accounts of a device, the unread counts, the updater of the desktop *)
(* shell and direct messages, for any number of texts, devices, reads,     *)
(* accounts, operations, conversations, releases and spaces.               *)
(***************************************************************************)
EXTENDS Autosave, Desk, Dms, RoomsRegistry, Session, Unread, Updater, FiniteSetTheorems, TLAPS

----------------------------------------------------------------------------
(* Autosave.  The last commit of a mount is what the gate compares with. *)

AutosaveInv ==
    /\ AutosaveTypeOK
    /\ timer = TRUE => open = TRUE
    /\ open = TRUE => value \in Texts
    /\ commits.last # NoText => commits.last = committed /\ commits.final = finalized
    /\ finalized = TRUE => commits.last # NoText
    /\ commits.last # NoText => commits.before # commits.last
    /\ commits.last = Blank => commits.final = TRUE /\ commitEmpty = TRUE
    /\ open = FALSE /\ value \notin {NoText, Blank} => committed = value
    /\ open = FALSE /\ value = Blank /\ commitEmpty = TRUE => commits.last = Blank

LEMMA InitAutosave == AutosaveInit => AutosaveInv
PROOF
  <1> SUFFICES ASSUME AutosaveInit
               PROVE  AutosaveInv
    OBVIOUS
  <1>1. commits.last = NoText /\ AutosaveTypeOK
    BY DEF AutosaveInit, AutosaveTypeOK, NoCommits
  <1>2. QED
    BY <1>1, AutosaveConstantsOK DEF AutosaveInit, AutosaveInv

(* A commit of an open field, tentative or final; the field may be closed by it if
   it is final. *)
LEMMA OneCommit ==
  ASSUME AutosaveInv, NEW final \in BOOLEAN, commit(final), open = TRUE,
         UNCHANGED <<commitEmpty, value>>, timer' = FALSE,
         open' = TRUE \/ (open' = FALSE /\ final = TRUE)
  PROVE  AutosaveInv'
PROOF
  <1> USE AutosaveConstantsOK
  <1>0. /\ commitEmpty \in BOOLEAN /\ finalized \in BOOLEAN /\ value \in Texts
        /\ committed \in Texts \cup {NoText}
        /\ commits \in [before : Texts \cup {NoText}, last : Texts \cup {NoText}, final : BOOLEAN]
    BY DEF AutosaveInv, AutosaveTypeOK
  <1>1. CASE shouldCommit(final)
    <2>1. /\ committed' = value /\ finalized' = final
          /\ commits' = [before |-> commits.last, last |-> value, final |-> final]
      BY <1>1 DEF commit
    <2>2. AutosaveTypeOK'
      BY <1>0, <2>1 DEF AutosaveInv, AutosaveTypeOK
    <2>3. commits.last # value
      BY <1>0, <1>1 DEF shouldCommit, AutosaveInv
    <2>4. value = Blank => final = TRUE /\ commitEmpty = TRUE
      BY <1>0, <1>1 DEF shouldCommit
    <2>5. commits'.last = value /\ commits'.before = commits.last /\ commits'.final = final
      BY <2>1
    <2>6. QED
      BY <1>0, <2>1, <2>2, <2>3, <2>4, <2>5 DEF AutosaveInv
  <1>2. CASE ~shouldCommit(final)
    <2>1. UNCHANGED <<committed, finalized, commits>>
      BY <1>2 DEF commit
    <2>2. AutosaveTypeOK'
      BY <1>0, <2>1 DEF AutosaveInv, AutosaveTypeOK
    <2>3. value # Blank => committed = value
      BY <1>2 DEF shouldCommit
    <2>4. value = Blank /\ final = TRUE /\ commitEmpty = TRUE => value = committed /\ finalized = TRUE
      BY <1>0, <1>2 DEF shouldCommit
    <2>5. QED
      BY <1>0, <2>1, <2>2, <2>3, <2>4 DEF AutosaveInv
  <1>3. QED
    BY <1>1, <1>2

LEMMA NextAutosave == AutosaveInv /\ [AutosaveNext]_nvars => AutosaveInv'
PROOF
  <1> SUFFICES ASSUME AutosaveInv, [AutosaveNext]_nvars
               PROVE  AutosaveInv'
    OBVIOUS
  <1> USE AutosaveConstantsOK
  <1>1. CASE UNCHANGED nvars
    BY <1>1 DEF AutosaveInv, AutosaveTypeOK, nvars
  <1>2. ASSUME NEW text \in Texts, Mount(text)
        PROVE  AutosaveInv'
    BY <1>2 DEF Mount, NoCommits, AutosaveInv, AutosaveTypeOK
  <1>3. ASSUME NEW text \in Texts, onChangeText(text)
        PROVE  AutosaveInv'
    BY <1>3 DEF onChangeText, AutosaveInv, AutosaveTypeOK
  <1>4. CASE Tick
    BY <1>4, OneCommit DEF Tick, AutosaveInv
  <1>5. CASE Blur
    BY <1>5, OneCommit DEF Blur, flush
  <1>6. CASE Unmount
    BY <1>6, OneCommit DEF Unmount, flush
  <1>7. QED
    BY <1>1, <1>2, <1>3, <1>4, <1>5, <1>6 DEF AutosaveNext

(* Type correctness of autosave. *)
THEOREM AutosaveTypes == AutosaveSpec => []AutosaveTypeOK
PROOF
  <1>1. AutosaveInv => AutosaveTypeOK
    BY DEF AutosaveInv
  <1>2. QED
    BY <1>1, InitAutosave, NextAutosave, PTL DEF AutosaveSpec

(* No text is committed twice running, no blank one unless it means something, and
   a field that was closed has committed its last text
   (apps/mobile/src/lib/use-autosave.ts:47). *)
THEOREM AutosaveCommitsOnce == AutosaveSpec => []CommitsEachOnce
PROOF
  <1>1. AutosaveInv => CommitsEachOnce
    BY DEF AutosaveInv, AutosaveTypeOK, CommitsEachOnce
  <1>2. QED
    BY <1>1, InitAutosave, NextAutosave, PTL DEF AutosaveSpec

----------------------------------------------------------------------------
(* The desk. *)

(* Whoever is about to record a refusal has sent it, and nothing is refused or
   claimed that was not answered. *)
Answers ==
    /\ declined = TRUE => rejected = TRUE
    /\ outgoing = "refused" => rejected = TRUE
    /\ \A w \in Workers : work[w].pc = "declining" => rejected = TRUE
    /\ claimed \subseteq granted

(* Every node is granted, or is about to be by the work that made it. *)
Grantings ==
    /\ granted \subseteq 1..nodes
    /\ \A w \in Workers : IF work[w].pc = "granting" THEN work[w].node \in 1..nodes ELSE work[w].node = 0
    /\ "half-way" \notin slips =>
          \A n \in 1..nodes : n \in granted \/ \E w \in Workers : work[w].pc = "granting" /\ work[w].node = n

(* Uncrossed, one work is in progress at most, and one that may still make a node
   makes the first. *)
InTurn ==
    "crossed" \notin slips =>
        /\ nodes <= 1
        /\ \A v, w \in Workers : work[v] # NoWork /\ work[w] # NoWork => v = w
        /\ \A w \in Workers : work[w].pc \in {"scanned", "creating"} => nodes = 0

DeskInv == DeskTypeOK /\ Answers /\ Grantings /\ InTurn

LEMMA InitDesk == DeskInit => DeskInv
PROOF
  <1> SUFFICES ASSUME DeskInit
               PROVE  DeskInv
    OBVIOUS
  <1> USE DeskConstantsOK
  <1>1. NoWork \in Works
    BY DEF NoWork, Works
  <1>2. DeskTypeOK
    <2>1. work \in [Workers -> Works] /\ row \in [Desks -> BOOLEAN]
      BY <1>1 DEF DeskInit
    <2>2. look \in [Desks -> {"none", "pending", "gone"}]
      BY DEF DeskInit
    <2>3. filed \in BOOLEAN /\ rejected \in BOOLEAN /\ declined \in BOOLEAN /\ slips = {}
      BY DEF DeskInit
    <2>4. /\ outgoing \in {"none", "pending", "refused"} /\ mode \in {"manual", "auto"}
          /\ nodes \in 0..MaxNodes /\ granted = {} /\ claimed = {}
      BY DEF DeskInit
    <2>5. QED
      BY <2>1, <2>2, <2>3, <2>4 DEF DeskTypeOK
  <1>3. \A w \in Workers : work[w] = NoWork /\ work[w].pc = "idle" /\ work[w].node = 0
    BY DEF DeskInit, NoWork
  <1>4. Answers /\ Grantings /\ InTurn
    BY <1>3 DEF DeskInit, Answers, Grantings, InTurn
  <1>5. QED
    BY <1>2, <1>4 DEF DeskInv

LEMMA NextDesk == DeskInv /\ [DeskNext]_kvars => DeskInv'
PROOF
  <1> SUFFICES ASSUME DeskInv, [DeskNext]_kvars
               PROVE  DeskInv'
    OBVIOUS
  <1> USE DeskConstantsOK
  <1>0. /\ filed \in BOOLEAN /\ rejected \in BOOLEAN /\ declined \in BOOLEAN
        /\ nodes \in 0..MaxNodes /\ granted \subseteq 1..MaxNodes /\ claimed \subseteq 1..MaxNodes
        /\ outgoing \in {"none", "pending", "refused"} /\ mode \in {"manual", "auto"}
        /\ slips \subseteq {"half-way", "crossed"}
        /\ row \in [Desks -> BOOLEAN] /\ look \in [Desks -> {"none", "pending", "gone"}]
        /\ work \in [Workers -> Works]
    BY DEF DeskInv, DeskTypeOK
  <1>a. \A w \in Workers : work[w] = NoWork <=> work[w].pc = "idle"
    BY <1>0 DEF DeskInv, Grantings, NoWork, Works
  <1>b. NoWork \in Works /\ NoWork.pc = "idle" /\ NoWork.node = 0
    BY DEF NoWork, Works
  <1>1. CASE UNCHANGED kvars
    BY <1>1 DEF DeskInv, DeskTypeOK, Answers, Grantings, InTurn, kvars
  <1>2. CASE submitNodeRequest \/ recordOutgoingRequest \/ claimGrantedNodes \/ claimRejectedRequests \/ SetMode
             \/ \E d \in Desks : listPending(d) \/ ListApplied(d)
    <2>1. UNCHANGED <<work, nodes, granted, rejected, declined, slips>>
      BY <1>2 DEF submitNodeRequest, recordOutgoingRequest, claimGrantedNodes, claimRejectedRequests, SetMode,
                  listPending, ListApplied, ownerVars, answerVars
    <2>2. DeskTypeOK'
      BY <1>0, <1>2, <2>1 DEF DeskTypeOK, submitNodeRequest, recordOutgoingRequest, claimGrantedNodes,
                  claimRejectedRequests, SetMode, listPending, ListApplied, ownerVars, answerVars, requesterVars
    <2>3. /\ outgoing' = "refused" => rejected = TRUE
          /\ claimed' \subseteq granted
      BY <1>0, <1>2 DEF DeskInv, Answers, submitNodeRequest, recordOutgoingRequest, claimGrantedNodes,
                  claimRejectedRequests, SetMode, listPending, ListApplied, requesterVars
    <2>4. QED
      BY <2>1, <2>2, <2>3 DEF DeskInv, Answers, Grantings, InTurn
  <1>3. ASSUME NEW w \in Workers, NEW pc \in {"scanned", "creating", "rejecting"}, Begins(w, pc),
               w[2] # "hand" => nodes = 0
        PROVE  DeskInv'
    <2>1. work' = [work EXCEPT ![w].pc = pc] /\ work[w] = NoWork
      BY <1>3 DEF Begins
    <2>2. /\ UNCHANGED <<filed, outgoing, claimed, mode, nodes, granted, rejected, declined, row, look>>
          /\ slips' = slips \cup (IF Crosses(w) THEN {"crossed"} ELSE {})
      BY <1>3 DEF Begins, answerVars, requesterVars
    <2>3. work' \in [Workers -> Works]
      BY <1>0, <2>1 DEF Works
    <2>4. /\ work'[w].pc = pc /\ work'[w].node = 0
          /\ \A v \in Workers \ {w} : work'[v] = work[v]
      BY <1>0, <1>b, <2>1 DEF Works
    <2>5. slips' \subseteq {"half-way", "crossed"}
      BY <1>0, <2>2
    <2>6. DeskTypeOK'
      BY <1>0, <2>2, <2>3, <2>5 DEF DeskTypeOK
    <2>7. Answers'
      BY <2>2, <2>4 DEF DeskInv, Answers
    <2>8. Grantings'
      BY <1>b, <2>1, <2>2, <2>4 DEF DeskInv, Grantings
    <2>9. ASSUME "crossed" \notin slips'
          PROVE  /\ "crossed" \notin slips /\ nodes = 0
                 /\ \A v \in Workers : work[v] = NoWork
      <3>1. ~Crosses(w) /\ "crossed" \notin slips
        BY <2>2, <2>9
      <3>2. QED
        BY <1>0, <1>3, <3>1 DEF Crosses
    <2>10. InTurn'
      BY <1>0, <2>2, <2>4, <2>9 DEF DeskInv, InTurn
    <2>11. QED
      BY <2>6, <2>7, <2>8, <2>10 DEF DeskInv
  <1>4. ASSUME NEW w \in Workers, ConfigRead(w)
        PROVE  DeskInv'
    <2>1. PICK pc \in {"idle", "creating"} : work' = [work EXCEPT ![w].pc = pc]
      BY <1>4 DEF ConfigRead
    <2>2. work[w].pc = "scanned" /\ work[w].node = 0 /\ work[w] # NoWork
      BY <1>4, <1>b DEF ConfigRead, DeskInv, Grantings
    <2>3. UNCHANGED <<filed, outgoing, claimed, mode, nodes, granted, rejected, declined, row, look, slips>>
      BY <1>4 DEF ConfigRead, answerVars, requesterVars
    <2>4. work' \in [Workers -> Works]
      BY <1>0, <2>1 DEF Works
    <2>5. /\ work'[w].pc = pc /\ work'[w].node = 0
          /\ \A v \in Workers \ {w} : work'[v] = work[v]
      BY <1>0, <2>1, <2>2 DEF Works
    <2>6. DeskTypeOK'
      BY <1>0, <2>3, <2>4 DEF DeskTypeOK
    <2>7. Answers' /\ Grantings'
      BY <2>2, <2>3, <2>5 DEF DeskInv, Answers, Grantings
    <2>8. InTurn'
      BY <2>2, <2>3, <2>5 DEF DeskInv, InTurn
    <2>9. QED
      BY <2>6, <2>7, <2>8 DEF DeskInv
  <1>5. ASSUME NEW w \in Workers, NodeCreated(w)
        PROVE  DeskInv'
    <2>1. /\ work[w].pc = "creating" /\ work[w] # NoWork
          /\ nodes' = nodes + 1 /\ nodes' \in 0..MaxNodes
          /\ work' = [work EXCEPT ![w] = [pc |-> "granting", node |-> nodes + 1]]
          /\ UNCHANGED <<filed, outgoing, claimed, mode, granted, rejected, declined, row, look, slips>>
      BY <1>0, <1>5, <1>b DEF NodeCreated, answerVars, requesterVars
    <2>2. /\ work'[w].pc = "granting" /\ work'[w].node = nodes + 1
          /\ \A v \in Workers \ {w} : work'[v] = work[v]
      BY <1>0, <2>1
    <2>3. work' \in [Workers -> Works]
      BY <1>0, <2>1 DEF Works
    <2>4. DeskTypeOK'
      BY <1>0, <2>1, <2>3 DEF DeskTypeOK
    <2>5. Answers'
      BY <2>1, <2>2 DEF DeskInv, Answers
    <2>6. Grantings'
      <3>1. 1..nodes' = (1..nodes) \cup {nodes + 1}
        BY <1>0, <2>1
      <3>2. ASSUME NEW n \in 1..nodes', "half-way" \notin slips
            PROVE  n \in granted \/ \E v \in Workers : work'[v].pc = "granting" /\ work'[v].node = n
        <4>1. CASE n = nodes + 1
          BY <2>2, <4>1
        <4>2. CASE n \in 1..nodes
          <5>1. CASE n \in granted
            BY <5>1
          <5>2. CASE n \notin granted
            <6>1. PICK v \in Workers : work[v].pc = "granting" /\ work[v].node = n
              BY <3>2, <4>2, <5>2 DEF DeskInv, Grantings
            <6>2. QED
              BY <2>1, <2>2, <6>1
          <5>3. QED
            BY <5>1, <5>2
        <4>3. QED
          BY <3>1, <3>2, <4>1, <4>2
      <3>3. QED
        BY <2>1, <2>2, <3>1, <3>2 DEF DeskInv, Grantings
    <2>7. InTurn'
      BY <1>0, <1>a, <2>1, <2>2 DEF DeskInv, InTurn, NoWork
    <2>8. QED
      BY <2>4, <2>5, <2>6, <2>7 DEF DeskInv
  <1>6. ASSUME NEW w \in Workers, Granted(w)
        PROVE  DeskInv'
    <2>1. /\ work[w].pc = "granting"
          /\ granted' = granted \cup {work[w].node} /\ work' = [work EXCEPT ![w] = NoWork]
          /\ UNCHANGED <<filed, outgoing, claimed, mode, nodes, rejected, declined, look, slips>>
      BY <1>6 DEF Granted, requesterVars
    <2>2. row' \in [Desks -> BOOLEAN]
      BY <1>0, <1>6 DEF Granted, OffTheList
    <2>3. /\ work'[w] = NoWork /\ \A v \in Workers \ {w} : work'[v] = work[v]
          /\ work' \in [Workers -> Works]
      BY <1>0, <1>b, <2>1
    <2>4. work[w].node \in 1..nodes
      BY <2>1 DEF DeskInv, Grantings
    <2>5. DeskTypeOK'
      <3>1. granted' \subseteq 1..MaxNodes
        <4>1. nodes \in Nat /\ nodes <= MaxNodes
          BY <1>0
        <4>2. work[w].node \in 1..MaxNodes
          BY <2>4, <4>1
        <4>3. QED
          BY <1>0, <2>1, <4>2
      <3>2. /\ filed' \in BOOLEAN /\ rejected' \in BOOLEAN /\ declined' \in BOOLEAN
            /\ nodes' \in 0..MaxNodes /\ claimed' \subseteq 1..MaxNodes
            /\ outgoing' \in {"none", "pending", "refused"} /\ mode' \in {"manual", "auto"}
            /\ slips' \subseteq {"half-way", "crossed"} /\ look' \in [Desks -> {"none", "pending", "gone"}]
        BY <1>0, <2>1
      <3>3. QED
        BY <2>2, <2>3, <3>1, <3>2 DEF DeskTypeOK
    <2>6. Answers' /\ Grantings'
      BY <1>b, <2>1, <2>3, <2>4 DEF DeskInv, Answers, Grantings
    <2>7. InTurn'
      BY <1>b, <2>1, <2>3 DEF DeskInv, InTurn
    <2>8. QED
      BY <2>5, <2>6, <2>7 DEF DeskInv
  <1>7. ASSUME NEW w \in Workers, rejectResourceRequest(w)
        PROVE  DeskInv'
    <2>1. /\ work[w].pc = "rejecting" /\ rejected' = TRUE
          /\ work' = [work EXCEPT ![w].pc = "declining"]
          /\ UNCHANGED <<filed, outgoing, claimed, mode, nodes, granted, declined, row, look, slips>>
      BY <1>7 DEF rejectResourceRequest, requesterVars
    <2>2. /\ work'[w].pc = "declining" /\ work'[w].node = work[w].node
          /\ \A v \in Workers \ {w} : work'[v] = work[v]
          /\ work' \in [Workers -> Works]
      BY <1>0, <2>1 DEF Works
    <2>3. work[w] # NoWork
      BY <1>b, <2>1
    <2>4. DeskTypeOK'
      BY <1>0, <2>1, <2>2 DEF DeskTypeOK
    <2>5. Answers' /\ Grantings'
      BY <2>1, <2>2 DEF DeskInv, Answers, Grantings
    <2>6. InTurn'
      BY <2>1, <2>2, <2>3 DEF DeskInv, InTurn
    <2>7. QED
      BY <2>4, <2>5, <2>6 DEF DeskInv
  <1>8. ASSUME NEW w \in Workers, setRequestDeclined(w)
        PROVE  DeskInv'
    <2>1. /\ work[w].pc = "declining" /\ declined' = TRUE /\ work' = [work EXCEPT ![w] = NoWork]
          /\ UNCHANGED <<filed, outgoing, claimed, mode, nodes, granted, rejected, look, slips>>
      BY <1>8 DEF setRequestDeclined, answerVars, requesterVars
    <2>2. row' \in [Desks -> BOOLEAN]
      BY <1>0, <1>8 DEF setRequestDeclined, OffTheList
    <2>3. /\ work'[w] = NoWork /\ \A v \in Workers \ {w} : work'[v] = work[v]
          /\ work' \in [Workers -> Works]
      BY <1>0, <1>b, <2>1
    <2>4. DeskTypeOK'
      BY <1>0, <2>1, <2>2, <2>3 DEF DeskTypeOK
    <2>5. Answers' /\ Grantings'
      BY <1>b, <2>1, <2>3 DEF DeskInv, Answers, Grantings
    <2>6. InTurn'
      BY <1>b, <2>1, <2>3 DEF DeskInv, InTurn
    <2>7. QED
      BY <2>4, <2>5, <2>6 DEF DeskInv
  <1>9. ASSUME NEW w \in Workers, WorkFails(w)
        PROVE  DeskInv'
    <2>1. /\ work' = [work EXCEPT ![w] = NoWork]
          /\ slips' = slips \cup (IF work[w].pc = "granting" THEN {"half-way"} ELSE {})
          /\ UNCHANGED <<filed, outgoing, claimed, mode, nodes, granted, rejected, declined, row, look>>
      BY <1>9 DEF WorkFails, answerVars, requesterVars
    <2>2. /\ work'[w] = NoWork /\ \A v \in Workers \ {w} : work'[v] = work[v]
          /\ work' \in [Workers -> Works]
      BY <1>0, <1>b, <2>1
    <2>3. slips' \subseteq {"half-way", "crossed"} /\ slips \subseteq slips'
          /\ (work[w].pc = "granting" => "half-way" \in slips')
      BY <1>0, <2>1
    <2>4. DeskTypeOK'
      BY <1>0, <2>1, <2>2, <2>3 DEF DeskTypeOK
    <2>5. Answers' /\ Grantings'
      BY <1>b, <2>1, <2>2, <2>3 DEF DeskInv, Answers, Grantings
    <2>6. InTurn'
      BY <1>b, <2>1, <2>2, <2>3 DEF DeskInv, InTurn
    <2>7. QED
      BY <2>4, <2>5, <2>6 DEF DeskInv
  <1>10. ASSUME NEW d \in Desks, accept(d) \/ decline(d) \/ reconcileTicketRequests(d)
         PROVE  DeskInv'
    <2>1. <<d, "hand">> \in Workers /\ <<d, "reconcile">> \in Workers
      BY DEF Workers
    <2>2. CASE accept(d) \/ decline(d)
      BY <1>3, <2>1, <2>2 DEF accept, decline
    <2>3. CASE reconcileTicketRequests(d)
      BY <1>3, <2>1, <2>3 DEF reconcileTicketRequests, Scanned
    <2>4. QED
      BY <1>10, <2>2, <2>3
  <1>11. QED
    BY <1>1, <1>2, <1>4, <1>5, <1>6, <1>7, <1>8, <1>9, <1>10 DEF DeskNext

(* What the two devices, the space and the requester hold keeps its types. *)
THEOREM DeskTypes == DeskSpec => []DeskTypeOK
PROOF
  <1>1. DeskInv => DeskTypeOK
    BY DEF DeskInv
  <1>2. QED
    BY <1>1, InitDesk, NextDesk, PTL DEF DeskSpec

(* No request disappears without an answer (packages/sdk/src/desk/intake.ts:266). *)
THEOREM RequestsAreAnswered == DeskSpec => []AnsweredWhenGone
PROOF
  <1>1. DeskInv => AnsweredWhenGone
    <2> SUFFICES ASSUME DeskInv
                 PROVE  AnsweredWhenGone
      OBVIOUS
    <2>1. rejected \in BOOLEAN /\ declined \in BOOLEAN
      BY DEF DeskInv, DeskTypeOK
    <2>2. ASSUME "half-way" \notin slips, \A w \in Workers : work[w] = NoWork
          PROVE  granted = 1..nodes
      <3>1. \A w \in Workers : work[w].pc # "granting"
        BY <2>2 DEF NoWork
      <3>2. QED
        BY <2>2, <3>1 DEF DeskInv, Grantings
    <2>3. QED
      BY <2>1, <2>2 DEF DeskInv, Answers, AnsweredWhenGone
  <1>2. QED
    BY <1>1, InitDesk, NextDesk, PTL DEF DeskSpec

(* In turn, a request gets one node (packages/sdk/src/desk/intake.ts:12). *)
THEOREM OneNodeEach == DeskSpec => []OneNodeInTurn
PROOF
  <1>1. DeskInv => OneNodeInTurn
    BY DEF DeskInv, InTurn, OneNodeInTurn
  <1>2. QED
    BY <1>1, InitDesk, NextDesk, PTL DEF DeskSpec

----------------------------------------------------------------------------
(* The shared cache of rooms. *)

CopiesFit == \A u \in Users : copies[u] = best[u] \/ (copies[u] = NoCopy /\ best[u] = 0)

(* A read is that of the session, and what it may fall back on is the last good
   list, or there never was one. *)
ReadFits(x) ==
    x.pc # "off" =>
        /\ x.uid = user
        /\ x.uid # NoUser =>
              /\ x.prev.loaded = TRUE => x.prev.rooms = best[x.uid]
              /\ x.copy # NoCopy => x.copy = best[x.uid]
              /\ x.pc = "net" /\ x.batch = FALSE /\ x.prev.loaded = FALSE /\ x.copy = NoCopy
                    => best[x.uid] = 0

(* Without a mishap no two reads go on at a time. *)
CacheFits ==
    mishap = {} =>
        /\ CopiesFit
        /\ user # NoUser /\ shown.loaded = TRUE => shown.rooms = best[user]
        /\ \A i \in 1..MaxReads : /\ ReadFits(reads[i])
                                  /\ reads[i].pc # "off" => inflight = i

RoomsRegistryInv ==
    /\ RoomsRegistryTypeOK
    /\ \A i \in 1..MaxReads : reads[i].pc = "disk" => reads[i].uid \in Users /\ reads[i].copy = NoCopy
    /\ CacheFits

LEMMA EntriesAreShown ==
  /\ PENDING \in Shown /\ PENDING.loaded = FALSE /\ [PENDING EXCEPT !.loading = FALSE] \in Shown
  /\ NotReading \in Reads /\ NotReading.pc = "off"
  /\ \A r \in Versions : Loaded(r) \in Shown /\ Loaded(r).rooms = r /\ Loaded(r).loaded = TRUE
  /\ 0 \in Versions
PROOF
  <1>1. 0 \in Versions
    BY RoomsRegistryConstantsOK DEF Versions
  <1>2. PENDING \in Shown /\ PENDING.loaded = FALSE /\ [PENDING EXCEPT !.loading = FALSE] \in Shown
    BY <1>1 DEF PENDING, Shown
  <1>3. NotReading \in Reads /\ NotReading.pc = "off"
    BY <1>2 DEF NotReading, Reads
  <1>4. \A r \in Versions : Loaded(r) \in Shown /\ Loaded(r).rooms = r /\ Loaded(r).loaded = TRUE
    BY DEF Loaded, Shown
  <1>5. QED
    BY <1>1, <1>2, <1>3, <1>4

LEMMA InitRoomsRegistry == RoomsRegistryInit => RoomsRegistryInv
PROOF
  <1> SUFFICES ASSUME RoomsRegistryInit
               PROVE  RoomsRegistryInv
    OBVIOUS
  <1> USE RoomsRegistryConstantsOK, EntriesAreShown
  <1>1. \A i \in 1..MaxReads : reads[i] = NotReading
    BY DEF RoomsRegistryInit
  <1>2. RoomsRegistryTypeOK
    <2>1. version \in Versions /\ \A u \in Users : copies[u] = NoCopy /\ best[u] = 0
      BY DEF RoomsRegistryInit, Versions
    <2>2. QED
      BY <2>1 DEF RoomsRegistryInit, RoomsRegistryTypeOK
  <1>3. CacheFits
    BY <1>1 DEF RoomsRegistryInit, CacheFits, CopiesFit, ReadFits
  <1>4. QED
    BY <1>1, <1>2, <1>3 DEF RoomsRegistryInv

(* A read ends, whatever it leaves in memory, on disk and on record, as long as
   that goes together. *)
LEMMA ReadEnds ==
  ASSUME RoomsRegistryInv, NEW i \in 1..MaxReads, reads[i].pc # "off", ReadOver(i),
         UNCHANGED <<user, version>>, shown' \in Shown,
         copies' \in [Users -> Versions \cup {NoCopy}], best' \in [Users -> Versions],
         mishap' \subseteq {"outlived", "empty"},
         mishap' = {} => /\ mishap = {} /\ CopiesFit'
                         /\ user # NoUser /\ shown'.loaded = TRUE => shown'.rooms = best'[user]
  PROVE  RoomsRegistryInv'
PROOF
  <1>1. reads' = [reads EXCEPT ![i] = NotReading] /\ inflight' = NoRead
    BY DEF ReadOver
  <1>2. reads \in [1..MaxReads -> Reads]
    BY DEF RoomsRegistryInv, RoomsRegistryTypeOK
  <1>3. \A j \in 1..MaxReads : reads'[j] = IF j = i THEN NotReading ELSE reads[j]
    BY <1>1, <1>2
  <1>4. RoomsRegistryTypeOK'
    BY <1>1, <1>2, EntriesAreShown DEF RoomsRegistryInv, RoomsRegistryTypeOK
  <1>5. ASSUME mishap = {}, NEW j \in 1..MaxReads
        PROVE  reads'[j].pc = "off"
    BY <1>3, <1>5, EntriesAreShown DEF RoomsRegistryInv, CacheFits
  <1>6. CacheFits'
    BY <1>5 DEF CacheFits, ReadFits
  <1>7. QED
    BY <1>3, <1>4, <1>6, EntriesAreShown DEF RoomsRegistryInv

(* A read begins over the entry of before, or over none. *)
LEMMA ReadBegins ==
  ASSUME RoomsRegistryInv, NEW i \in 1..MaxReads, NEW prev \in {shown, PENDING}, NEW batch \in BOOLEAN,
         Begin(i, prev, batch), inflight = NoRead
  PROVE  RoomsRegistryInv'
PROOF
  <1> USE RoomsRegistryConstantsOK, EntriesAreShown
  <1>0. /\ reads \in [1..MaxReads -> Reads] /\ user \in Users \cup {NoUser} /\ prev \in Shown
        /\ shown \in Shown
    BY DEF RoomsRegistryInv, RoomsRegistryTypeOK
  <1> DEFINE x == [pc |-> IF batch \/ prev.loaded \/ user = NoUser THEN "net" ELSE "disk",
                   batch |-> batch, uid |-> user, prev |-> prev, copy |-> NoCopy]
  <1>1. /\ reads' = [reads EXCEPT ![i] = x] /\ inflight' = i
        /\ shown' = [prev EXCEPT !.loading = TRUE]
        /\ UNCHANGED <<user, version, copies, best, mishap>>
    BY DEF Begin
  <1>2. /\ x \in Reads /\ x.uid = user /\ x.prev = prev /\ x.copy = NoCopy /\ x.batch = batch
        /\ x.pc \in {"net", "disk"}
        /\ x.pc = "disk" => user # NoUser
        /\ x.pc = "net" => batch = TRUE \/ prev.loaded = TRUE \/ user = NoUser
    BY <1>0 DEF Reads, Shown
  <1> HIDE DEF x
  <1>3. \A j \in 1..MaxReads : reads'[j] = IF j = i THEN x ELSE reads[j]
    BY <1>0, <1>1
  <1>4. shown' \in Shown /\ shown'.rooms = prev.rooms /\ shown'.loaded = prev.loaded
    BY <1>0, <1>1 DEF Shown
  <1>5. RoomsRegistryTypeOK'
    BY <1>0, <1>1, <1>2, <1>4 DEF RoomsRegistryInv, RoomsRegistryTypeOK
  <1>6. ASSUME mishap = {}
        PROVE  /\ CopiesFit'
               /\ user # NoUser /\ prev.loaded = TRUE => prev.rooms = best[user]
               /\ \A j \in 1..MaxReads : reads[j].pc = "off"
    BY <1>1, <1>6 DEF RoomsRegistryInv, CacheFits, CopiesFit
  <1>7. ASSUME mishap = {}
        PROVE  (ReadFits(reads[i]))'
    <2>1. reads'[i] = x
      BY <1>3
    <2>2. x.uid # NoUser => (x.prev.loaded = TRUE => x.prev.rooms = best[x.uid])
      BY <1>2, <1>6, <1>7
    <2>3. x.pc = "net" /\ x.batch = FALSE /\ x.prev.loaded = FALSE /\ x.copy = NoCopy => x.uid = NoUser
      BY <1>2
    <2>4. QED
      BY <1>1, <1>2, <2>1, <2>2, <2>3 DEF ReadFits
  <1>8. CacheFits'
    <2> SUFFICES ASSUME mishap = {}
                 PROVE  CacheFits'
      BY <1>1 DEF CacheFits
    <2>1. ASSUME NEW j \in 1..MaxReads
          PROVE  (ReadFits(reads[j]))' /\ (reads'[j].pc # "off" => inflight' = j)
      <3>1. CASE j = i
        BY <1>1, <1>7, <3>1
      <3>2. CASE j # i
        <4>1. reads'[j].pc = "off"
          BY <1>3, <1>6, <3>2
        <4>2. QED
          BY <4>1 DEF ReadFits
      <3>3. QED
        BY <3>1, <3>2
    <2>2. QED
      BY <1>1, <1>4, <1>6, <2>1 DEF CacheFits
  <1>9. QED
    BY <1>0, <1>2, <1>3, <1>5, <1>8 DEF RoomsRegistryInv

LEMMA NextRoomsRegistry == RoomsRegistryInv /\ [RoomsRegistryNext]_gvars => RoomsRegistryInv'
PROOF
  <1> SUFFICES ASSUME RoomsRegistryInv, [RoomsRegistryNext]_gvars
               PROVE  RoomsRegistryInv'
    OBVIOUS
  <1> USE RoomsRegistryConstantsOK, EntriesAreShown
  <1>0. /\ reads \in [1..MaxReads -> Reads] /\ user \in Users \cup {NoUser} /\ shown \in Shown
        /\ version \in Versions /\ inflight \in 1..MaxReads \cup {NoRead}
        /\ copies \in [Users -> Versions \cup {NoCopy}] /\ best \in [Users -> Versions]
        /\ mishap \subseteq {"outlived", "empty"}
    BY DEF RoomsRegistryInv, RoomsRegistryTypeOK
  <1>1. CASE UNCHANGED gvars
    BY <1>1 DEF RoomsRegistryInv, RoomsRegistryTypeOK, CacheFits, CopiesFit, ReadFits, gvars
  <1>2. CASE AppRestarts
    <2>1. \A i \in 1..MaxReads : reads'[i] = NotReading
      BY <1>2 DEF AppRestarts
    <2>2. RoomsRegistryTypeOK'
      BY <1>0, <1>2 DEF AppRestarts, RoomsRegistryTypeOK
    <2>3. CacheFits'
      BY <1>2, <2>1 DEF AppRestarts, RoomsRegistryInv, CacheFits, CopiesFit, ReadFits
    <2>4. QED
      BY <2>1, <2>2, <2>3 DEF RoomsRegistryInv
  <1>3. ASSUME NEW u \in Users \cup {NoUser}, SessionChanges(u)
        PROVE  RoomsRegistryInv'
    <2>1. RoomsRegistryTypeOK'
      BY <1>0, <1>3 DEF SessionChanges, Forgotten, RoomsRegistryTypeOK
    <2>2. ASSUME mishap' = {}
          PROVE  mishap = {} /\ \A i \in 1..MaxReads : reads[i].pc = "off"
      BY <1>3, <2>2 DEF SessionChanges, Reading
    <2>3. CacheFits'
      BY <1>3, <2>2 DEF SessionChanges, Forgotten, RoomsRegistryInv, CacheFits, CopiesFit, ReadFits
    <2>4. QED
      BY <1>3, <2>1, <2>3 DEF SessionChanges, RoomsRegistryInv
  <1>4. CASE RoomsChange
    <2>1. version' \in Versions
      BY <1>0, <1>4 DEF RoomsChange, Versions
    <2>2. QED
      BY <1>4, <2>1 DEF RoomsChange, RoomsRegistryInv, RoomsRegistryTypeOK, CacheFits, CopiesFit, ReadFits
  <1>5. CASE refreshShared
    BY <1>5 DEF refreshShared, RoomsRegistryInv, RoomsRegistryTypeOK, CacheFits, CopiesFit, ReadFits
  <1>6. ASSUME NEW i \in 1..MaxReads, ensure(i) \/ refresh(i) \/ Prefetch(i)
        PROVE  RoomsRegistryInv'
    BY <1>6, ReadBegins DEF ensure, refresh, Prefetch
  <1>7. ASSUME NEW i \in 1..MaxReads, CopyRead(i)
        PROVE  RoomsRegistryInv'
    <2> DEFINE copy == copies[reads[i].uid]
               x == [reads[i] EXCEPT !.pc = "net", !.copy = copy]
    <2>1. reads[i].pc = "disk" /\ reads[i].uid \in Users /\ reads[i] \in Reads
      BY <1>0, <1>7 DEF CopyRead, RoomsRegistryInv
    <2>2. /\ reads' = [reads EXCEPT ![i] = x]
          /\ shown' = IF copy # NoCopy /\ ~shown.loaded THEN [Loaded(copy) EXCEPT !.loading = TRUE] ELSE shown
          /\ UNCHANGED <<user, version, inflight, copies, best, mishap>>
      BY <1>0, <1>7 DEF CopyRead
    <2>3. copy \in Versions \cup {NoCopy}
      BY <1>0, <2>1
    <2>4. /\ x \in Reads /\ x.pc = "net" /\ x.copy = copy /\ x.uid = reads[i].uid /\ x.prev = reads[i].prev
      BY <2>1, <2>3 DEF Reads
    <2> HIDE DEF x, copy
    <2>5. \A j \in 1..MaxReads : reads'[j] = IF j = i THEN x ELSE reads[j]
      BY <1>0, <2>2
    <2>6. /\ shown' \in Shown
          /\ shown' = shown \/ (copy # NoCopy /\ shown'.rooms = copy)
      <3>1. CASE copy # NoCopy /\ ~shown.loaded
        BY <2>2, <2>3, <3>1 DEF Loaded, Shown
      <3>2. CASE ~(copy # NoCopy /\ ~shown.loaded)
        BY <1>0, <2>2, <3>2
      <3>3. QED
        BY <3>1, <3>2
    <2>7. RoomsRegistryTypeOK'
      BY <1>0, <2>2, <2>4, <2>6 DEF RoomsRegistryTypeOK
    <2>8. CacheFits'
      <3> SUFFICES ASSUME mishap = {}
                   PROVE  CacheFits'
        BY <2>2 DEF CacheFits
      <3>1. CopiesFit /\ ReadFits(reads[i]) /\ \A j \in 1..MaxReads : ReadFits(reads[j])
        BY DEF RoomsRegistryInv, CacheFits
      <3>2. /\ copy # NoCopy => copy = best[reads[i].uid]
            /\ copy = NoCopy => best[reads[i].uid] = 0
            /\ reads[i].uid = user
        BY <1>0, <2>1, <3>1 DEF CopiesFit, ReadFits, copy, Versions
      <3>3. (ReadFits(reads[i]))'
        <4>1. reads'[i] = x /\ user' = user /\ best' = best
          BY <2>2, <2>5
        <4>2. reads[i].prev.loaded = TRUE => reads[i].prev.rooms = best[reads[i].uid]
          BY <2>1, <3>1, RoomsRegistryConstantsOK DEF ReadFits
        <4>3. QED
          BY <2>4, <3>2, <4>1, <4>2 DEF ReadFits
      <3>4. \A j \in 1..MaxReads : (ReadFits(reads[j]))' /\ (reads'[j].pc # "off" => inflight' = j)
        BY <2>1, <2>2, <2>5, <3>1, <3>3 DEF RoomsRegistryInv, CacheFits, ReadFits
      <3>5. user # NoUser /\ shown'.loaded = TRUE => shown'.rooms = best[user]
        BY <2>6, <3>2 DEF RoomsRegistryInv, CacheFits
      <3>6. QED
        BY <2>2, <3>1, <3>4, <3>5 DEF CacheFits, CopiesFit
    <2>9. QED
      BY <2>4, <2>5, <2>7, <2>8 DEF RoomsRegistryInv
  <1>8. ASSUME NEW i \in 1..MaxReads, Answered(i)
        PROVE  RoomsRegistryInv'
    <2>1. /\ reads[i].pc = "net" /\ user # NoUser /\ shown' = Loaded(version) /\ ReadOver(i)
          /\ UNCHANGED <<user, version, mishap>> /\ Persisted(i, version)
          /\ best' = IF reads[i].uid = NoUser THEN best ELSE [best EXCEPT ![reads[i].uid] = version]
      BY <1>8 DEF Answered
    <2>2. /\ copies' \in [Users -> Versions \cup {NoCopy}] /\ best' \in [Users -> Versions]
      BY <1>0, <2>1 DEF Persisted
    <2>3. ASSUME mishap = {}
          PROVE  CopiesFit' /\ shown'.rooms = best'[user]
      <3>1. reads[i].uid = user /\ CopiesFit
        BY <2>1, <2>3 DEF RoomsRegistryInv, CacheFits, ReadFits
      <3>2. \A u \in Users : /\ best'[u] = IF u = user THEN version ELSE best[u]
                             /\ copies'[u] = IF u = user THEN version ELSE copies[u]
        BY <1>0, <2>1, <3>1 DEF Persisted
      <3>3. QED
        BY <1>0, <2>1, <3>1, <3>2 DEF CopiesFit
    <2>4. QED
      BY <1>0, <2>1, <2>2, <2>3, ReadEnds
  <1>9. ASSUME NEW i \in 1..MaxReads, AnsweredToNobody(i)
        PROVE  RoomsRegistryInv'
    <2>1. mishap = {} => CopiesFit'
      BY <1>9 DEF AnsweredToNobody, RoomsRegistryInv, CacheFits, CopiesFit
    <2>2. QED
      BY <1>0, <1>9, <2>1, ReadEnds DEF AnsweredToNobody
  <1>10. ASSUME NEW i \in 1..MaxReads, AnsweredEmpty(i)
         PROVE  RoomsRegistryInv'
    <2>1. copies' \in [Users -> Versions \cup {NoCopy}] /\ mishap' # {} /\ mishap' \subseteq {"outlived", "empty"}
      BY <1>0, <1>10 DEF AnsweredEmpty, Persisted
    <2>2. QED
      BY <1>0, <1>10, <2>1, ReadEnds DEF AnsweredEmpty
  <1>11. ASSUME NEW i \in 1..MaxReads, ReadFails(i)
         PROVE  RoomsRegistryInv'
    <2>1. /\ reads[i].pc = "net" /\ reads[i].batch = FALSE /\ reads[i] \in Reads
          /\ shown' = Fallback(reads[i]) /\ ReadOver(i)
          /\ UNCHANGED <<user, version, copies, best, mishap>>
      BY <1>0, <1>11 DEF ReadFails, Reads
    <2>2. reads[i].prev \in Shown /\ reads[i].copy \in Versions \cup {NoCopy}
      BY <2>1 DEF Reads
    <2>3. /\ shown' \in Shown
          /\ shown'.rooms = IF reads[i].prev.loaded = TRUE THEN reads[i].prev.rooms
                            ELSE IF reads[i].copy # NoCopy THEN reads[i].copy ELSE 0
      BY <2>1, <2>2 DEF Fallback, Loaded, Shown, Versions
    <2>4. ASSUME mishap = {}
          PROVE  CopiesFit' /\ (user # NoUser => shown'.rooms = best[user])
      <3>1. ReadFits(reads[i]) /\ CopiesFit
        BY <2>4 DEF RoomsRegistryInv, CacheFits
      <3>2. CopiesFit'
        BY <2>1, <3>1 DEF CopiesFit
      <3>3. user # NoUser => shown'.rooms = best[user]
        BY <2>1, <2>2, <2>3, <3>1 DEF ReadFits, Shown
      <3>4. QED
        BY <3>2, <3>3
    <2>5. QED
      BY <1>0, <2>1, <2>3, <2>4, ReadEnds
  <1>12. ASSUME NEW i \in 1..MaxReads, BatchRejected(i)
         PROVE  RoomsRegistryInv'
    <2>1. mishap = {} => /\ CopiesFit'
                         /\ user # NoUser /\ shown.loaded = TRUE => shown.rooms = best[user]
      BY <1>12 DEF BatchRejected, RoomsRegistryInv, CacheFits, CopiesFit
    <2>2. QED
      BY <1>0, <1>12, <2>1, ReadEnds DEF BatchRejected
  <1>13. QED
    BY <1>1, <1>2, <1>3, <1>4, <1>5, <1>6, <1>7, <1>8, <1>9, <1>10, <1>11, <1>12 DEF RoomsRegistryNext

(* The entry, the reads and the copies keep their types. *)
THEOREM RoomsRegistryTypes == RoomsRegistrySpec => []RoomsRegistryTypeOK
PROOF
  <1>1. RoomsRegistryInv => RoomsRegistryTypeOK
    BY DEF RoomsRegistryInv
  <1>2. QED
    BY <1>1, InitRoomsRegistry, NextRoomsRegistry, PTL DEF RoomsRegistrySpec

(* A failed read keeps the last good list
   (apps/mobile/src/lib/rooms-registry-context.tsx:201). *)
THEOREM LastGoodIsKept == RoomsRegistrySpec => []KeepsLastGood
PROOF
  <1>1. RoomsRegistryInv => KeepsLastGood
    BY DEF RoomsRegistryInv, RoomsRegistryTypeOK, Shown, CacheFits, KeepsLastGood, ShowsBest
  <1>2. QED
    BY <1>1, InitRoomsRegistry, NextRoomsRegistry, PTL DEF RoomsRegistrySpec

----------------------------------------------------------------------------
(* The accounts of a device. *)

Stages == {"none", "building", "restoring", "saving", "saved", "hydrating", "clearing", "cleared", "warming"}
Kinds == Guarded \cup {"none", "signIn", "unlock", "signOut", "boot"}

(* The operations that write a vault. *)
Writers == Guarded \cup {"signIn"}

(* What a chain has built, and the vault that it is going to write. *)
ChainFits(c) ==
    /\ c.stage \in {"saving", "saved"} => c.kind \in Writers /\ c.next.active = c.acct
    /\ c.stage = "warming" => c.kind = "boot"
    /\ c.stage = "none" => c.kind = "none"
    /\ c.stage \in {"saving", "saved", "restoring", "hydrating", "warming"} => c.acct \in Accounts
    /\ c.stage = "building" /\ c.kind \in {"add", "signIn", "boot"} => c.acct \in Accounts
    /\ c.stage = "building" /\ c.kind \in {"switch", "logout"} => c.acct \in c.seen.accounts
    /\ c.kind = "signIn" => c.seen = NoVault
    /\ c.stage = "saving" => c.next.accounts = c.seen.accounts \cup {c.acct}

(* One writer at a time, and opRef is taken as long as one that takes it is at work. *)
SessionBase ==
    /\ SessionTypeOK
    /\ \A k \in Calls : ChainFits(chain[k])
    /\ \A j, k \in Calls : chain[j].kind \in Writers /\ chain[k].kind \in Writers => j = k
    /\ (opRef = TRUE) <=> (\E k \in Calls : chain[k].kind \in Guarded)
    /\ status = "switching" => opRef = TRUE

LEMMA VaultsFit ==
  /\ NoVault \in Vaults /\ NoChain \in Chains /\ ChainFits(NoChain)
  /\ NoChain.kind = "none" /\ NoChain.stage = "none"
  /\ \A v \in Vaults : /\ v.accounts \in SUBSET Accounts /\ v.active \in Accounts \cup {NoAccount}
                       /\ v # NoVault => v.active \in v.accounts /\ v.active \in Accounts
  /\ \A S \in SUBSET Accounts : \A a \in S : [accounts |-> S, active |-> a] \in Vaults
PROOF
  <1>1. NoVault \in Vaults
    BY DEF NoVault, Vaults
  <1>2. NoChain \in Chains /\ NoChain.kind = "none" /\ NoChain.stage = "none" /\ NoChain.seen = NoVault
    BY <1>1 DEF NoChain, Chains
  <1>3. ChainFits(NoChain)
    BY <1>2 DEF ChainFits, Writers, Guarded
  <1>4. ASSUME NEW v \in Vaults
        PROVE  /\ v.accounts \in SUBSET Accounts /\ v.active \in Accounts \cup {NoAccount}
               /\ v # NoVault => v.active \in v.accounts /\ v.active \in Accounts
    BY DEF Vaults, NoVault
  <1>5. ASSUME NEW S \in SUBSET Accounts, NEW a \in S
        PROVE  [accounts |-> S, active |-> a] \in Vaults
    BY DEF Vaults
  <1>6. QED
    BY <1>1, <1>2, <1>3, <1>4, <1>5

(* One chain goes on, or begins, or ends. *)
LEMMA ChainMoves ==
  ASSUME SessionBase, NEW k \in Calls, NEW c \in Chains, ChainFits(c),
         chain' = [chain EXCEPT ![k] = c], SessionTypeOK',
         c.kind \in Writers => chain[k].kind = c.kind \/ \A j \in Calls : chain[j].kind \notin Writers,
         c.kind \in Guarded => opRef' = TRUE,
         c.kind \notin Guarded =>
             IF chain[k].kind \in Guarded THEN opRef' = FALSE ELSE opRef' = opRef,
         status' = "switching" => opRef' = TRUE
  PROVE  SessionBase' /\ \A j \in Calls : chain'[j] = IF j = k THEN c ELSE chain[j]
PROOF
  <1>1. \A j \in Calls : chain'[j] = IF j = k THEN c ELSE chain[j]
    BY DEF SessionBase, SessionTypeOK
  <1>2. \A j \in Calls : ChainFits(chain'[j])
    BY <1>1 DEF SessionBase
  <1>3. \A i, j \in Calls : chain'[i].kind \in Writers /\ chain'[j].kind \in Writers => i = j
    BY <1>1 DEF SessionBase
  <1>4. (opRef' = TRUE) <=> (\E j \in Calls : chain'[j].kind \in Guarded)
    <2>1. CASE c.kind \in Guarded
      BY <1>1, <2>1
    <2>2. CASE c.kind \notin Guarded /\ chain[k].kind \in Guarded
      <3>1. \A j \in Calls : j # k => chain[j].kind \notin Guarded
        BY <2>2 DEF SessionBase, Writers
      <3>2. QED
        BY <1>1, <2>2, <3>1
    <2>3. CASE c.kind \notin Guarded /\ chain[k].kind \notin Guarded
      BY <1>1, <2>3 DEF SessionBase
    <2>4. QED
      BY <2>1, <2>2, <2>3
  <1>5. SessionBase'
    <2>1. \A j \in Calls : (ChainFits(chain[j]))'
      BY <1>2 DEF ChainFits
    <2>2. QED
      BY <1>3, <1>4, <2>1 DEF SessionBase
  <1>6. QED
    BY <1>1, <1>5

LEMMA InitSession == SessionInit => SessionBase
PROOF
  <1> SUFFICES ASSUME SessionInit
               PROVE  SessionBase
    OBVIOUS
  <1>1. \A k \in Calls : chain[k] = NoChain
    BY DEF SessionInit
  <1>2. SessionTypeOK
    BY VaultsFit DEF SessionInit, SessionTypeOK
  <1>3. QED
    BY <1>1, <1>2, VaultsFit DEF SessionInit, SessionBase, Writers, Guarded

(* A chain that begins. *)
LEMMA Started ==
  ASSUME SessionBase, NEW k \in Calls, NEW c \in Chains, ChainFits(c), Starts(k, c),
         c.kind \in Writers => \A j \in Calls : chain[j].kind \notin Writers,
         UNCHANGED <<disk, session, caches, held, strays>>, vault' \in Vaults,
         status' \in {"loading", "authenticating", "locked", "switching", "ready"},
         IF c.kind \in Guarded THEN opRef' = TRUE ELSE opRef' = opRef,
         status' = "switching" => opRef' = TRUE
  PROVE  SessionBase' /\ \A j \in Calls : chain'[j] = IF j = k THEN c ELSE chain[j]
PROOF
  <1>1. chain[k] = NoChain /\ chain' = [chain EXCEPT ![k] = c] /\ torn' = (torn \/ Overlaps)
    BY DEF Starts
  <1>2. /\ disk \in Vaults /\ session \in Accounts \cup {NoAccount} /\ opRef \in BOOLEAN
        /\ torn \in BOOLEAN /\ chain \in [Calls -> Chains]
        /\ caches \in SUBSET Accounts /\ held \in SUBSET Accounts /\ strays \in SUBSET Accounts
    BY DEF SessionBase, SessionTypeOK
  <1>3. torn' \in BOOLEAN
    BY <1>1
  <1>4. SessionTypeOK'
    BY <1>1, <1>2, <1>3 DEF SessionTypeOK
  <1>5. chain[k].kind \notin Guarded
    BY <1>1, VaultsFit DEF Guarded
  <1>6. QED
    BY <1>1, <1>4, <1>5, ChainMoves

LEMMA Proceeded ==
  ASSUME SessionBase, NEW k \in Calls, NEW stage \in Stages, Proceeds(k, stage)
  PROVE  \E c \in Chains :
            /\ chain' = [chain EXCEPT ![k] = c]
            /\ c.stage = stage /\ c.kind = chain[k].kind /\ c.acct = chain[k].acct
            /\ c.seen = chain[k].seen /\ c.next = chain[k].next
PROOF
  <1> DEFINE c == [chain[k] EXCEPT !.stage = stage]
  <1>1. chain \in [Calls -> Chains]
    BY DEF SessionBase, SessionTypeOK
  <1>2. chain[k] \in Chains
    BY <1>1
  <1>3. c \in Chains
    BY <1>2 DEF Chains, Stages
  <1>4. /\ c.stage = stage /\ c.kind = chain[k].kind /\ c.acct = chain[k].acct
        /\ c.seen = chain[k].seen /\ c.next = chain[k].next
    BY <1>2 DEF Chains
  <1>5. chain' = [chain EXCEPT ![k] = c]
    BY DEF Proceeds
  <1>6. QED
    BY <1>3, <1>4, <1>5

(* What is held is going to stay in the vault that is written. *)
HoldsOn(c) ==
    /\ c.stage = "saved" => held \subseteq c.next.accounts
    /\ c.kind = "switch" /\ c.stage \in {"building", "saving"} => held \subseteq c.seen.accounts
    /\ c.kind = "add" /\ c.stage = "saving" => c.seen = NoVault \/ held \subseteq c.seen.accounts

HeldFits ==
    /\ held \subseteq disk.accounts
    /\ \A k \in Calls : HoldsOn(chain[k])
    /\ vault = NoVault \/ held \subseteq vault.accounts \/ \E k \in Calls : chain[k].stage = "saved"

(* The chain c is the only one at work, and what it leaves behind fits together
   once it has ended. *)
Sole(c) ==
    /\ (session # NoAccount => vault = disk /\ session = vault.active) \/ c.stage \in {"saved", "hydrating", "cleared"}
    /\ caches \ strays \subseteq {session} \/ c.stage = "hydrating"
    /\ c.stage = "saved" => disk = c.next
    /\ c.stage \in {"restoring", "hydrating"} \/ (c.stage = "building" /\ c.kind = "boot")
           => vault = disk /\ vault.active = c.acct
    /\ c.stage = "hydrating" => caches \ strays \subseteq {c.acct}
    /\ c.kind = "signIn" => session = NoAccount

Idle == {"none", "warming"}

SettledFits ==
    torn = FALSE =>
        /\ \A j, k \in Calls : chain[j].stage \notin Idle /\ chain[k].stage \notin Idle => j = k
        /\ \A k \in Calls : chain[k].stage \notin Idle => Sole(chain[k])
        /\ (\A k \in Calls : chain[k].stage \in Idle) => Sole(NoChain)

SessionInv == SessionBase /\ HeldFits /\ SettledFits

LEMMA HeldKept ==
  ASSUME HeldFits, NEW k \in Calls, NEW c \in Chains,
         \A j \in Calls : chain'[j] = IF j = k THEN c ELSE chain[j],
         held' \subseteq held, held' \subseteq disk'.accounts, HoldsOn(c)',
         \/ vault' = NoVault \/ held' \subseteq vault'.accounts
         \/ vault' = vault /\ (chain[k].stage = "saved" => c.stage = "saved")
  PROVE  HeldFits'
PROOF
  <1>1. ASSUME NEW j \in Calls
        PROVE  (HoldsOn(chain[j]))'
    <2>1. CASE j = k
      BY <2>1 DEF HoldsOn
    <2>2. CASE j # k
      BY <2>2 DEF HeldFits, HoldsOn
    <2>3. QED
      BY <2>1, <2>2
  <1>2. vault' = NoVault \/ held' \subseteq vault'.accounts \/ \E j \in Calls : chain'[j].stage = "saved"
    BY DEF HeldFits
  <1>3. QED
    BY <1>1, <1>2 DEF HeldFits

LEMMA SoleKept ==
  ASSUME SettledFits, NEW k \in Calls, NEW c \in Chains,
         \A j \in Calls : chain'[j] = IF j = k THEN c ELSE chain[j],
         torn' = FALSE => /\ \A j \in Calls : j # k => chain[j].stage \in Idle
                          /\ c.stage \notin Idle => Sole(c)'
                          /\ c.stage \in Idle => Sole(NoChain)'
  PROVE  SettledFits'
PROOF
  <1> SUFFICES ASSUME torn' = FALSE
               PROVE  SettledFits'
    BY DEF SettledFits
  <1>1. \A j \in Calls : j # k => chain'[j].stage \in Idle
    OBVIOUS
  <1>2. chain'[k] = c
    OBVIOUS
  <1>3. \A j \in Calls : chain'[j].stage \notin Idle => (Sole(chain[j]))'
    <2>1. SUFFICES ASSUME NEW j \in Calls, chain'[j].stage \notin Idle
                   PROVE  (Sole(chain[j]))'
      OBVIOUS
    <2>2. j = k /\ Sole(c)'
      BY <1>1, <1>2, <2>1
    <2>3. QED
      BY <1>2, <2>2 DEF Sole
  <1>4. QED
    BY <1>1, <1>2, <1>3 DEF SettledFits

(* The only chain at work, where nothing has been torn. *)
LEMMA Alone ==
  ASSUME SettledFits, NEW k \in Calls, chain[k].stage \notin Idle, torn = FALSE
  PROVE  Sole(chain[k]) /\ \A j \in Calls : j # k => chain[j].stage \in Idle
PROOF
  BY DEF SettledFits

(* Nothing was at work where a chain began and nothing has been torn. *)
LEMMA AllIdle ==
  ASSUME SettledFits, NEW k \in Calls, NEW c \in Chains, Starts(k, c), SessionTypeOK, torn' = FALSE
  PROVE  Sole(NoChain) /\ \A j \in Calls : chain[j].stage \in Idle
PROOF
  <1>1. torn = FALSE /\ ~Overlaps
    BY DEF Starts, SessionTypeOK
  <1>2. \A j \in Calls : chain[j].stage \in Idle
    BY <1>1 DEF Overlaps, Idle
  <1>3. QED
    BY <1>1, <1>2 DEF SettledFits

LEMMA InitSessionInv == SessionInit => SessionInv
PROOF
  <1> SUFFICES ASSUME SessionInit
               PROVE  SessionInv
    OBVIOUS
  <1>1. \A k \in Calls : chain[k] = NoChain
    BY DEF SessionInit
  <1>2. HeldFits
    BY <1>1, VaultsFit DEF SessionInit, HeldFits, HoldsOn
  <1>3. SettledFits
    BY <1>1, VaultsFit DEF SessionInit, SettledFits, Sole, Idle
  <1>4. QED
    BY <1>2, <1>3, InitSession DEF SessionInv

LEMMA BeginsWell ==
  ASSUME SessionInv, NEW k \in Calls, NEW c \in Chains, ChainFits(c), Starts(k, c), HoldsOn(c),
         c.stage \in {"building", "clearing"},
         c.kind \in Writers => \A j \in Calls : chain[j].kind \notin Writers,
         c.kind = "signIn" => session = NoAccount,
         UNCHANGED <<disk, session, caches, held, strays>>,
         vault' = vault \/ vault' = disk,
         c.stage = "building" /\ c.kind = "boot" => vault' = disk /\ c.acct = disk.active,
         status' \in {"loading", "authenticating", "locked", "switching", "ready"},
         IF c.kind \in Guarded THEN opRef' = TRUE ELSE opRef' = opRef,
         status' = "switching" => opRef' = TRUE
  PROVE  SessionInv'
PROOF
  <1>1. SessionTypeOK /\ vault \in Vaults /\ disk \in Vaults /\ SessionBase /\ HeldFits /\ SettledFits
    BY DEF SessionInv, SessionBase, SessionTypeOK
  <1>2. SessionBase' /\ \A j \in Calls : chain'[j] = IF j = k THEN c ELSE chain[j]
    BY <1>1, Started
  <1>3. HeldFits'
    <2>1. chain[k].stage # "saved"
      BY VaultsFit DEF Starts
    <2>2. held' \subseteq disk'.accounts /\ HoldsOn(c)'
      BY <1>1 DEF HeldFits, HoldsOn
    <2>3. QED
      BY <1>1, <1>2, <2>1, <2>2, HeldKept
  <1>4. SettledFits'
    <2>1. ASSUME torn' = FALSE
          PROVE  Sole(NoChain) /\ \A j \in Calls : chain[j].stage \in Idle
      BY <1>1, <2>1, AllIdle
    <2>2. ASSUME torn' = FALSE
          PROVE  Sole(c)'
      BY <2>1, <2>2, VaultsFit DEF Sole
    <2>3. c.stage \notin Idle
      BY DEF Idle
    <2>4. QED
      BY <1>1, <1>2, <2>1, <2>2, <2>3, SoleKept
  <1>5. QED
    BY <1>2, <1>3, <1>4 DEF SessionInv

(* The operations that take opRef exclude each other and signing in. *)
LEMMA NoWriter ==
  ASSUME SessionInv, OpFree, ~InFront
  PROVE  \A j \in Calls : chain[j].kind \notin Writers
PROOF
  BY DEF SessionInv, SessionBase, OpFree, InFront, Running, Writers

LEMMA OperationBegins ==
  ASSUME SessionInv, NEW k \in Calls, NEW kind \in Guarded, NEW acct \in Accounts, NEW v \in Vaults,
         StartsOp(k, kind, acct, v), ~InFront,
         kind # "add" => acct \in v.accounts,
         kind = "switch" => v = vault
  PROVE  SessionInv'
PROOF
  <1> DEFINE c == [NoChain EXCEPT !.kind = kind, !.stage = "building", !.acct = acct, !.seen = v]
  <1>1. /\ OpFree /\ Starts(k, c) /\ opRef' = TRUE /\ status' = "switching"
        /\ UNCHANGED <<disk, vault, session, caches, held, strays>>
    BY DEF StartsOp
  <1>2. /\ c \in Chains /\ c.kind = kind /\ c.stage = "building" /\ c.acct = acct /\ c.seen = v
    BY VaultsFit DEF NoChain, Chains
  <1> HIDE DEF c
  <1>3. \A j \in Calls : chain[j].kind \notin Writers
    BY <1>1, NoWriter
  <1>4. ChainFits(c)
    BY <1>2 DEF ChainFits, Guarded
  <1>5. \A j \in Calls : chain[j].stage # "saved"
    BY <1>3 DEF SessionInv, SessionBase, ChainFits
  <1>6. HoldsOn(c)
    <2>1. vault # NoVault => held \subseteq vault.accounts
      BY <1>5 DEF SessionInv, HeldFits
    <2>2. kind = "switch" => vault # NoVault
      BY DEF NoVault
    <2>3. QED
      BY <1>2, <2>1, <2>2 DEF HoldsOn
  <1>7. kind # "signIn" /\ kind # "boot"
    BY DEF Guarded
  <1>8. QED
    BY <1>1, <1>2, <1>3, <1>4, <1>6, <1>7, BeginsWell

(* The chains that begin. *)
LEMMA ChainsBegin ==
  ASSUME SessionInv, NEW k \in Calls,
         \/ BootReady(k) \/ logoutLast(k) \/ unlock(k) \/ fullSignOut(k)
         \/ \E a \in Accounts : addAccount(k, a) \/ switchAccount(k, a) \/ logoutAccount(k, a) \/ signIn(k, a)
  PROVE  SessionInv'
PROOF
  <1>0. /\ disk \in Vaults /\ vault \in Vaults
        /\ status \in {"loading", "authenticating", "locked", "switching", "ready"}
        /\ status = "switching" => opRef = TRUE
    BY DEF SessionInv, SessionBase, SessionTypeOK
  <1>1. CASE BootReady(k)
    <2> DEFINE c == [NoChain EXCEPT !.kind = "boot", !.stage = "building", !.acct = disk.active]
    <2>1. c \in Chains /\ c.kind = "boot" /\ c.stage = "building" /\ c.acct = disk.active
      BY <1>0, VaultsFit DEF NoChain, Chains
    <2>2. /\ Starts(k, c) /\ disk # NoVault /\ vault' = disk /\ status' = "authenticating"
          /\ UNCHANGED <<disk, session, opRef, caches, held, strays>>
      BY <1>1 DEF BootReady
    <2> HIDE DEF c
    <2>3. ChainFits(c) /\ HoldsOn(c) /\ c.kind \notin Writers /\ c.kind \notin Guarded
      BY <1>0, <2>1, <2>2, VaultsFit DEF ChainFits, HoldsOn, Writers, Guarded
    <2>4. QED
      BY <2>1, <2>2, <2>3, BeginsWell
  <1>2. CASE logoutLast(k)
    <2> DEFINE c == [NoChain EXCEPT !.kind = "logout", !.stage = "clearing"]
    <2>1. c \in Chains /\ c.kind = "logout" /\ c.stage = "clearing"
      BY <1>0, VaultsFit DEF NoChain, Chains, Guarded
    <2>2. /\ Starts(k, c) /\ OpFree /\ ~InFront /\ opRef' = TRUE
          /\ UNCHANGED <<disk, vault, session, status, caches, held, strays>>
      BY <1>2 DEF logoutLast
    <2> HIDE DEF c
    <2>3. ChainFits(c) /\ HoldsOn(c) /\ c.kind \in Guarded
      BY <2>1 DEF ChainFits, HoldsOn, Guarded
    <2>4. \A j \in Calls : chain[j].kind \notin Writers
      BY <2>2, NoWriter
    <2>5. QED
      BY <1>0, <2>1, <2>2, <2>3, <2>4, BeginsWell
  <1>3. CASE unlock(k)
    <2> DEFINE c == [NoChain EXCEPT !.kind = "unlock", !.stage = "building"]
    <2>1. c \in Chains /\ c.kind = "unlock" /\ c.stage = "building"
      BY <1>0, VaultsFit DEF NoChain, Chains
    <2>2. /\ Starts(k, c) /\ UNCHANGED <<disk, vault, session, status, opRef, caches, held, strays>>
      BY <1>3 DEF unlock
    <2> HIDE DEF c
    <2>3. ChainFits(c) /\ HoldsOn(c) /\ c.kind \notin Writers /\ c.kind \notin Guarded
      BY <2>1 DEF ChainFits, HoldsOn, Writers, Guarded
    <2>4. QED
      BY <1>0, <2>1, <2>2, <2>3, BeginsWell
  <1>4. CASE fullSignOut(k)
    <2> DEFINE c == [NoChain EXCEPT !.kind = "signOut", !.stage = "clearing"]
    <2>1. c \in Chains /\ c.kind = "signOut" /\ c.stage = "clearing"
      BY <1>0, VaultsFit DEF NoChain, Chains
    <2>2. /\ Starts(k, c) /\ UNCHANGED <<disk, vault, session, status, opRef, caches, held, strays>>
      BY <1>4 DEF fullSignOut
    <2> HIDE DEF c
    <2>3. ChainFits(c) /\ HoldsOn(c) /\ c.kind \notin Writers /\ c.kind \notin Guarded
      BY <2>1 DEF ChainFits, HoldsOn, Writers, Guarded
    <2>4. QED
      BY <1>0, <2>1, <2>2, <2>3, BeginsWell
  <1>5. ASSUME NEW a \in Accounts, addAccount(k, a)
        PROVE  SessionInv'
    BY <1>5, OperationBegins, VaultsFit DEF addAccount, Guarded
  <1>6. ASSUME NEW a \in Accounts, switchAccount(k, a)
        PROVE  SessionInv'
    BY <1>0, <1>6, OperationBegins DEF switchAccount, Guarded
  <1>7. ASSUME NEW a \in Accounts, logoutAccount(k, a)
        PROVE  SessionInv'
    <2> DEFINE v == [vault EXCEPT !.accounts = @ \ {session}, !.active = a]
    <2>1. /\ a \in vault.accounts \ {session} /\ vault.accounts \in SUBSET Accounts
          /\ ~InFront /\ StartsOp(k, "logout", a, v)
      BY <1>0, <1>7, VaultsFit DEF logoutAccount
    <2>2. vault \in [accounts : SUBSET Accounts, active : Accounts \cup {NoAccount}]
      BY <1>0 DEF Vaults
    <2>3. /\ v \in [accounts : SUBSET Accounts, active : Accounts \cup {NoAccount}]
          /\ v.accounts = vault.accounts \ {session} /\ v.active = a
      BY <2>1, <2>2
    <2>4. v \in Vaults /\ a \in v.accounts
      BY <2>1, <2>3 DEF Vaults
    <2> HIDE DEF v
    <2>5. QED
      BY <2>1, <2>4, OperationBegins DEF Guarded
  <1>8. ASSUME NEW a \in Accounts, signIn(k, a)
        PROVE  SessionInv'
    <2> DEFINE c == [NoChain EXCEPT !.kind = "signIn", !.stage = "building", !.acct = a]
    <2>1. c \in Chains /\ c.kind = "signIn" /\ c.stage = "building" /\ c.acct = a /\ c.seen = NoVault
      BY <1>0, VaultsFit DEF NoChain, Chains
    <2>2. /\ Starts(k, c) /\ session = NoAccount /\ ~InFront /\ ~Running(Guarded)
          /\ UNCHANGED <<disk, vault, session, status, opRef, caches, held, strays>>
      BY <1>8 DEF signIn
    <2> HIDE DEF c
    <2>3. ChainFits(c) /\ HoldsOn(c) /\ c.kind \notin Guarded
      BY <2>1 DEF ChainFits, HoldsOn, Guarded
    <2>4. \A j \in Calls : chain[j].kind \notin Writers
      BY <2>2 DEF InFront, Running, Writers
    <2>5. QED
      BY <1>0, <2>1, <2>2, <2>3, <2>4, BeginsWell
  <1>9. QED
    BY <1>1, <1>2, <1>3, <1>4, <1>5, <1>6, <1>7, <1>8

(* A chain at work goes on, or ends. *)
LEMMA GoesOn ==
  ASSUME SessionInv, NEW k \in Calls, NEW c \in Chains, ChainFits(c), chain[k].stage \notin Idle,
         chain' = [chain EXCEPT ![k] = c], SessionTypeOK',
         c.kind = chain[k].kind \/ c.kind = "none",
         IF c.kind = "none" /\ chain[k].kind \in Guarded THEN opRef' = FALSE ELSE opRef' = opRef,
         status' = "switching" => opRef' = TRUE,
         HeldFits',
         torn' = FALSE => torn = FALSE,
         torn' = FALSE /\ Sole(chain[k]) => IF c.stage \in Idle THEN Sole(NoChain)' ELSE Sole(c)'
  PROVE  SessionInv'
PROOF
  <1>1. SessionBase /\ SettledFits
    BY DEF SessionInv
  <1>2. chain[k].kind \in Guarded => opRef = TRUE
    BY <1>1 DEF SessionBase
  <1>3. c.kind \in Guarded => opRef' = TRUE
    BY <1>2 DEF Guarded
  <1>4. c.kind \notin Guarded => IF chain[k].kind \in Guarded THEN opRef' = FALSE ELSE opRef' = opRef
    BY DEF Guarded
  <1>5. c.kind \in Writers => chain[k].kind = c.kind
    BY DEF Writers, Guarded
  <1>6. SessionBase' /\ \A j \in Calls : chain'[j] = IF j = k THEN c ELSE chain[j]
    BY <1>1, <1>3, <1>4, <1>5, ChainMoves
  <1>7. SettledFits'
    <2>1. ASSUME torn' = FALSE
          PROVE  Sole(chain[k]) /\ \A j \in Calls : j # k => chain[j].stage \in Idle
      BY <1>1, <2>1, Alone
    <2>2. QED
      BY <1>1, <1>6, <2>1, SoleKept
  <1>8. QED
    BY <1>6, <1>7 DEF SessionInv

LEMMA SessionTypes ==
  ASSUME SessionInv
  PROVE  /\ SessionBase /\ HeldFits /\ SettledFits /\ chain \in [Calls -> Chains]
         /\ disk \in Vaults /\ vault \in Vaults /\ session \in Accounts \cup {NoAccount}
         /\ status \in {"loading", "authenticating", "locked", "switching", "ready"}
         /\ opRef \in BOOLEAN /\ torn \in BOOLEAN /\ (status = "switching" => opRef = TRUE)
         /\ caches \in SUBSET Accounts /\ held \in SUBSET Accounts /\ strays \in SUBSET Accounts
         /\ \A k \in Calls : chain[k] \in Chains /\ ChainFits(chain[k]) /\ HoldsOn(chain[k])
PROOF
  BY DEF SessionInv, SessionBase, SessionTypeOK, HeldFits

(* What goes on of a chain whose stage alone changes. *)
LEMMA StageChanges ==
  ASSUME SessionInv, NEW k \in Calls, NEW stage \in Stages \ {"none"}, Proceeds(k, stage)
  PROVE  \E c \in Chains :
            /\ chain' = [chain EXCEPT ![k] = c]
            /\ \A j \in Calls : chain'[j] = IF j = k THEN c ELSE chain[j]
            /\ c.stage = stage /\ c.kind = chain[k].kind /\ c.acct = chain[k].acct
            /\ c.seen = chain[k].seen /\ c.next = chain[k].next
PROOF
  <1>1. SessionBase /\ chain \in [Calls -> Chains]
    BY SessionTypes
  <1>2. PICK c \in Chains : /\ chain' = [chain EXCEPT ![k] = c]
                            /\ c.stage = stage /\ c.kind = chain[k].kind /\ c.acct = chain[k].acct
                            /\ c.seen = chain[k].seen /\ c.next = chain[k].next
    BY <1>1, Proceeded
  <1>3. \A j \in Calls : chain'[j] = IF j = k THEN c ELSE chain[j]
    BY <1>1, <1>2
  <1>4. QED
    BY <1>2, <1>3

LEMMA BootSteps ==
  ASSUME SessionInv, BootEmpty \/ BootLocked \/ AppDies \/ \E k \in Calls : BootRestored(k) \/ Warmed(k)
  PROVE  SessionInv'
PROOF
  <1> USE SessionTypes
  <1>1. CASE BootEmpty \/ BootLocked
    <2>1. /\ UNCHANGED <<disk, vault, session, opRef, chain, caches, held, strays, torn>>
          /\ status' \in {"ready", "locked"}
      BY <1>1 DEF BootEmpty, BootLocked
    <2>2. SessionTypeOK'
      BY <2>1 DEF SessionTypeOK
    <2>3. SessionBase'
      BY <2>1, <2>2 DEF SessionBase
    <2>4. HeldFits'
      BY <2>1 DEF HeldFits, HoldsOn
    <2>5. SettledFits'
      BY <2>1 DEF SettledFits, Sole
    <2>6. QED
      BY <2>3, <2>4, <2>5 DEF SessionInv
  <1>2. CASE AppDies
    <2>1. /\ \A k \in Calls : chain'[k] = NoChain
          /\ vault' = NoVault /\ session' = NoAccount /\ status' = "loading" /\ opRef' = FALSE
          /\ caches' = {} /\ strays' = {} /\ torn' = FALSE /\ UNCHANGED <<disk, held>>
      BY <1>2 DEF AppDies
    <2>2. SessionTypeOK'
      BY <1>2, <2>1, VaultsFit DEF AppDies, SessionTypeOK
    <2>3. SessionBase'
      BY <2>1, <2>2, VaultsFit DEF SessionBase, Writers, Guarded
    <2>4. HeldFits'
      BY <2>1, VaultsFit DEF HeldFits, HoldsOn
    <2>5. SettledFits'
      BY <2>1, VaultsFit DEF SettledFits, Sole, Idle
    <2>6. QED
      BY <2>3, <2>4, <2>5 DEF SessionInv
  <1>3. ASSUME NEW k \in Calls, BootRestored(k)
        PROVE  SessionInv'
    <2>1. /\ chain[k].kind = "boot" /\ chain[k].stage = "building" /\ Proceeds(k, "warming")
          /\ session' = chain[k].acct /\ status' = "ready"
          /\ UNCHANGED <<disk, vault, opRef, caches, held, strays, torn>>
      BY <1>3 DEF BootRestored
    <2>2. PICK c \in Chains :
             /\ chain' = [chain EXCEPT ![k] = c]
             /\ \A j \in Calls : chain'[j] = IF j = k THEN c ELSE chain[j]
             /\ c.stage = "warming" /\ c.kind = chain[k].kind /\ c.acct = chain[k].acct
             /\ c.seen = chain[k].seen /\ c.next = chain[k].next
      BY <2>1, StageChanges DEF Stages
    <2>3. chain[k].acct \in Accounts /\ ChainFits(c) /\ c.kind \notin Guarded
      BY <2>1, <2>2 DEF ChainFits, Guarded
    <2>4. SessionTypeOK'
      BY <2>1, <2>2, <2>3 DEF SessionTypeOK
    <2>5. HeldFits'
      BY <2>1, <2>2, HeldKept DEF HeldFits, HoldsOn
    <2>6. Sole(chain[k]) => Sole(NoChain)'
      BY <2>1, SessionConstantsOK, VaultsFit DEF Sole
    <2>7. chain[k].stage \notin Idle /\ c.stage \in Idle
      BY <2>1, <2>2 DEF Idle
    <2>8. QED
      BY <2>1, <2>2, <2>3, <2>4, <2>5, <2>6, <2>7, GoesOn DEF Guarded
  <1>4. ASSUME NEW k \in Calls, Warmed(k)
        PROVE  SessionInv'
    <2> DEFINE a == chain[k].acct
    <2>1. /\ chain[k].stage = "warming" /\ chain' = [chain EXCEPT ![k] = NoChain]
          /\ caches' = caches \cup {a} \/ caches' = caches
          /\ strays' = IF session = a /\ ~Overlaps THEN strays ELSE strays \cup {a}
          /\ UNCHANGED <<disk, vault, session, status, opRef, held, torn>>
      BY <1>4 DEF Warmed, Ends
    <2>2. a \in Accounts /\ chain[k].kind = "boot"
      BY <2>1 DEF ChainFits
    <2> HIDE DEF a
    <2>3. SessionTypeOK'
      BY <2>1, <2>2, VaultsFit DEF SessionTypeOK
    <2>4. SessionBase' /\ \A j \in Calls : chain'[j] = IF j = k THEN NoChain ELSE chain[j]
      BY <2>1, <2>2, <2>3, VaultsFit, ChainMoves DEF Writers, Guarded
    <2>5. HeldFits'
      BY <2>1, <2>4, VaultsFit, HeldKept DEF HeldFits, HoldsOn
    <2>6. SettledFits'
      <3> SUFFICES ASSUME torn = FALSE
                   PROVE  SettledFits'
        BY <2>1 DEF SettledFits
      <3>1. \A j \in Calls : chain'[j].stage \notin Idle => chain[j].stage \notin Idle /\ chain'[j] = chain[j]
        BY <2>4, VaultsFit DEF Idle
      <3>2. ASSUME NEW j \in Calls, chain'[j].stage \notin Idle
            PROVE  (Sole(chain[j]))'
        <4>1. Sole(chain[j]) /\ chain'[j] = chain[j] /\ Overlaps
          BY <3>1, <3>2 DEF SettledFits, Overlaps, Idle
        <4>2. caches' \ strays' \subseteq caches \ strays
          BY <2>1, <4>1
        <4>3. QED
          BY <2>1, <4>1, <4>2 DEF Sole
      <3>3. ASSUME \A j \in Calls : chain'[j].stage \in Idle
            PROVE  Sole(NoChain)'
        <4>1. \A j \in Calls : chain[j].stage \in Idle
          BY <2>1, <2>4, <3>3 DEF Idle
        <4>2. Sole(NoChain)
          BY <4>1 DEF SettledFits
        <4>3. caches \ strays \subseteq {session}
          BY <4>2, VaultsFit DEF Sole
        <4>4. caches' \ strays' \subseteq {session}
          BY <2>1, <4>3
        <4>5. QED
          BY <2>1, <4>2, <4>4, VaultsFit DEF Sole
      <3>4. QED
        BY <3>1, <3>2, <3>3 DEF SettledFits
    <2>7. QED
      BY <2>4, <2>5, <2>6 DEF SessionInv
  <1>5. QED
    BY <1>1, <1>2, <1>3, <1>4

(* A chain that ends, whatever it ends with. *)
LEMMA EndsWell ==
  ASSUME SessionInv, NEW k \in Calls, chain[k].stage \notin Idle, Ends(k),
         vault' \in Vaults, disk' \in Vaults, session' \in Accounts \cup {NoAccount},
         status' \in {"loading", "authenticating", "locked", "switching", "ready"}, torn' \in BOOLEAN,
         caches' \in SUBSET Accounts, strays' \in SUBSET Accounts,
         UNCHANGED <<disk, held>>,
         vault' = NoVault \/ (vault' = vault /\ chain[k].stage # "saved"),
         IF chain[k].kind \in Guarded THEN opRef' = FALSE /\ status' # "switching"
         ELSE opRef' = opRef /\ (status' = status \/ status' # "switching"),
         torn' = FALSE => torn = FALSE,
         torn' = FALSE /\ Sole(chain[k]) => Sole(NoChain)'
  PROVE  SessionInv'
PROOF
  <1> USE SessionTypes
  <1>1. chain' = [chain EXCEPT ![k] = NoChain] /\ \A j \in Calls : chain'[j] = IF j = k THEN NoChain ELSE chain[j]
    BY DEF Ends
  <1>2. opRef' \in BOOLEAN /\ (status' = "switching" => opRef' = TRUE)
    BY DEF Guarded
  <1>3. SessionTypeOK'
    BY <1>1, <1>2, VaultsFit DEF SessionTypeOK
  <1>4. HeldFits'
    BY <1>1, VaultsFit, HeldKept DEF HeldFits, HoldsOn
  <1>5. NoChain.stage \in Idle /\ ChainFits(NoChain) /\ NoChain \in Chains /\ NoChain.kind = "none"
    BY VaultsFit DEF Idle
  <1>6. QED
    BY <1>1, <1>2, <1>3, <1>4, <1>5, GoesOn

LEMMA ChainsEnd ==
  ASSUME SessionInv, NEW k \in Calls, Fails(k) \/ Hydrated(k) \/ HydrateFails(k) \/ SignedOut(k)
  PROVE  SessionInv'
PROOF
  <1> USE SessionTypes
  <1>1. CASE Fails(k)
    <2>1. /\ chain[k].stage \in {"building", "restoring", "saving", "clearing"} /\ Ends(k)
          /\ IF chain[k].kind = "boot" THEN status' = "ready" /\ UNCHANGED opRef ELSE Finally(k)
          /\ UNCHANGED <<disk, vault, session, caches, held, strays, torn>>
      BY <1>1 DEF Fails
    <2>2. IF chain[k].kind \in Guarded THEN opRef' = FALSE /\ status' = "ready"
          ELSE opRef' = opRef /\ (status' = status \/ status' = "ready")
      BY <2>1 DEF Finally, Guarded
    <2>3. Sole(chain[k]) => Sole(NoChain)'
      BY <2>1, VaultsFit DEF Sole
    <2>4. chain[k].stage \notin Idle /\ chain[k].stage # "saved"
      BY <2>1 DEF Idle
    <2>5. status' \in {"loading", "authenticating", "locked", "switching", "ready"}
      BY <2>2
    <2>6. QED
      BY <2>1, <2>2, <2>3, <2>4, <2>5, EndsWell
  <1>2. CASE Hydrated(k)
    <2>1. /\ chain[k].stage = "hydrating" /\ Ends(k)
          /\ caches' = caches \cup {chain[k].acct} /\ session' = chain[k].acct /\ status' = "ready"
          /\ opRef' = IF chain[k].kind \in Guarded THEN FALSE ELSE opRef
          /\ UNCHANGED <<disk, vault, held, strays, torn>>
      BY <1>2 DEF Hydrated, BecomesSession
    <2>2. chain[k].acct \in Accounts
      BY <2>1 DEF ChainFits
    <2>3. Sole(chain[k]) => Sole(NoChain)'
      BY <2>1, VaultsFit DEF Sole
    <2>4. chain[k].stage \notin Idle /\ chain[k].stage # "saved"
      BY <2>1 DEF Idle
    <2>5. QED
      BY <2>1, <2>2, <2>3, <2>4, EndsWell
  <1>3. CASE HydrateFails(k)
    <2>1. /\ chain[k].stage = "hydrating" /\ Ends(k) /\ torn' = TRUE /\ Finally(k)
          /\ caches' = caches \/ caches' = caches \cup {chain[k].acct}
          /\ UNCHANGED <<disk, vault, session, held, strays>>
      BY <1>3 DEF HydrateFails
    <2>2. chain[k].acct \in Accounts
      BY <2>1 DEF ChainFits
    <2>3. IF chain[k].kind \in Guarded THEN opRef' = FALSE /\ status' = "ready"
          ELSE opRef' = opRef /\ status' = status
      BY <2>1 DEF Finally
    <2>4. chain[k].stage \notin Idle /\ chain[k].stage # "saved"
      BY <2>1 DEF Idle
    <2>5. QED
      BY <2>1, <2>2, <2>3, <2>4, EndsWell
  <1>4. CASE SignedOut(k)
    <2>1. /\ chain[k].stage = "cleared" /\ Ends(k)
          /\ vault' = NoVault /\ session' = NoAccount /\ caches' = {} /\ strays' = {} /\ status' = "ready"
          /\ opRef' = IF chain[k].kind \in Guarded THEN FALSE ELSE opRef
          /\ UNCHANGED <<disk, held, torn>>
      BY <1>4 DEF SignedOut, Reset
    <2>2. Sole(NoChain)'
      BY <2>1, VaultsFit DEF Sole
    <2>3. chain[k].stage \notin Idle
      BY <2>1 DEF Idle
    <2>4. QED
      BY <2>1, <2>2, <2>3, VaultsFit, EndsWell
  <1>5. QED
    BY <1>1, <1>2, <1>3, <1>4

LEMMA ChainsGoOn ==
  ASSUME SessionInv, NEW k \in Calls,
         Built(k) \/ Opened(k) \/ Restored(k) \/ Written(k) \/ Committed(k) \/ Cleared(k)
  PROVE  SessionInv'
PROOF
  <1> USE SessionTypes
  <1>0. chain[k] \in Chains /\ ChainFits(chain[k]) /\ HoldsOn(chain[k])
    OBVIOUS
  <1>1. CASE Built(k)
    <2> DEFINE d == chain[k]
               seen == IF d.kind = "add" THEN vault ELSE d.seen
               built == [d EXCEPT !.stage = "saving", !.next = NextVault(d), !.seen = seen]
    <2>1. /\ d.stage = "building" /\ d.kind \in Writers
          /\ chain' = [chain EXCEPT ![k] = built]
          /\ UNCHANGED <<disk, vault, session, status, opRef, caches, held, strays, torn>>
      BY <1>1 DEF Built, Writers
    <2>2. d \in Chains /\ seen \in Vaults
      BY <1>0 DEF Chains
    <2>3. /\ NextVault(d) \in Vaults /\ NextVault(d).active = d.acct
          /\ NextVault(d).accounts = seen.accounts \cup {d.acct} /\ d.acct \in Accounts
      <3>1. CASE d.kind = "add"
        <4>1. d.acct \in Accounts /\ NextVault(d) = [accounts |-> vault.accounts \cup {d.acct}, active |-> d.acct]
          BY <1>0, <2>1, <3>1 DEF ChainFits, NextVault
        <4>2. (vault.accounts \cup {d.acct}) \in SUBSET Accounts
          BY <4>1, VaultsFit
        <4>3. QED
          BY <3>1, <4>1, <4>2, VaultsFit
      <3>2. CASE d.kind = "signIn"
        <4>1. /\ d.acct \in Accounts /\ d.seen = NoVault
              /\ NextVault(d) = [accounts |-> {d.acct}, active |-> d.acct]
          BY <1>0, <2>1, <3>2 DEF ChainFits, NextVault
        <4>2. {d.acct} \in SUBSET Accounts /\ NoVault.accounts = {}
          BY <4>1 DEF NoVault
        <4>3. QED
          BY <3>2, <4>1, <4>2, VaultsFit
      <3>3. CASE d.kind \in {"switch", "logout"}
        <4>1. /\ d.acct \in d.seen.accounts /\ d.seen \in Vaults
              /\ NextVault(d) = [d.seen EXCEPT !.active = d.acct]
          BY <1>0, <2>1, <2>2, <3>3 DEF ChainFits, NextVault
        <4>2. d.seen \in [accounts : SUBSET Accounts, active : Accounts \cup {NoAccount}]
          BY <4>1 DEF Vaults
        <4>3. /\ NextVault(d) \in [accounts : SUBSET Accounts, active : Accounts \cup {NoAccount}]
              /\ NextVault(d).accounts = d.seen.accounts /\ NextVault(d).active = d.acct
          BY <4>1, <4>2
        <4>4. NextVault(d) \in Vaults
          BY <4>1, <4>3 DEF Vaults
        <4>5. QED
          BY <3>3, <4>1, <4>2, <4>3, <4>4
      <3>4. QED
        BY <2>1, <3>1, <3>2, <3>3 DEF Writers, Guarded
    <2>4. PICK c \in Chains : /\ c = built /\ c.stage = "saving" /\ c.kind = d.kind /\ c.acct = d.acct
                              /\ c.next = NextVault(d) /\ c.seen = seen
      <3>1. /\ built \in Chains /\ built.stage = "saving" /\ built.kind = d.kind
            /\ built.acct = d.acct /\ built.next = NextVault(d) /\ built.seen = seen
        BY <2>2, <2>3 DEF Chains
      <3> HIDE DEF built
      <3>2. QED
        BY <3>1
    <2>5. (d.kind = "signIn" => seen = NoVault) /\ (d.kind = "switch" => seen = d.seen) /\ (d.kind = "add" => seen = vault)
      BY <1>0 DEF ChainFits
    <2> HIDE DEF built, seen
    <2>6. ChainFits(c)
      BY <2>1, <2>3, <2>4, <2>5 DEF ChainFits
    <2>7. \A j \in Calls : chain[j].stage # "saved"
      BY <2>1 DEF SessionBase, ChainFits
    <2>8. HoldsOn(c)
      BY <1>0, <2>1, <2>4, <2>5, <2>7 DEF HeldFits, HoldsOn
    <2>9. chain' = [chain EXCEPT ![k] = c] /\ \A j \in Calls : chain'[j] = IF j = k THEN c ELSE chain[j]
      BY <2>1, <2>4
    <2>10. SessionTypeOK'
      BY <2>1, <2>4, <2>9 DEF SessionTypeOK
    <2>11. HeldFits'
      BY <2>1, <2>7, <2>8, <2>9, HeldKept, <2>4 DEF HeldFits, HoldsOn
    <2>12. Sole(d) => Sole(c)'
      BY <2>1, <2>4 DEF Sole
    <2>13. d.stage \notin Idle /\ c.stage \notin Idle /\ c.kind # "none"
      BY <2>1, <2>4 DEF Idle, Writers, Guarded
    <2>14. QED
      BY <2>1, <2>4, <2>6, <2>9, <2>10, <2>11, <2>12, <2>13, GoesOn
  <1>2. CASE Opened(k)
    <2> DEFINE d == chain[k]
               opened == [d EXCEPT !.stage = "restoring", !.acct = disk.active]
    <2>1. /\ d.stage = "building" /\ d.kind = "unlock" /\ disk # NoVault /\ vault' = disk
          /\ chain' = [chain EXCEPT ![k] = opened]
          /\ UNCHANGED <<disk, session, status, opRef, caches, held, strays, torn>>
      BY <1>2 DEF Opened
    <2>2. disk.active \in Accounts
      BY <2>1, VaultsFit
    <2>3. PICK c \in Chains : /\ c = opened /\ c.stage = "restoring" /\ c.kind = "unlock"
                              /\ c.acct = disk.active /\ c.seen = d.seen /\ c.next = d.next
      <3>1. /\ opened \in Chains /\ opened.stage = "restoring" /\ opened.kind = "unlock"
            /\ opened.acct = disk.active /\ opened.seen = d.seen /\ opened.next = d.next
        BY <1>0, <2>1, <2>2 DEF Chains
      <3> HIDE DEF opened
      <3>2. QED
        BY <3>1
    <2> HIDE DEF opened
    <2>4. ChainFits(c) /\ HoldsOn(c)
      BY <2>2, <2>3 DEF ChainFits, HoldsOn
    <2>5. chain' = [chain EXCEPT ![k] = c] /\ \A j \in Calls : chain'[j] = IF j = k THEN c ELSE chain[j]
      BY <2>1, <2>3
    <2>6. SessionTypeOK'
      BY <2>1, <2>3, <2>5 DEF SessionTypeOK
    <2>7. HeldFits'
      BY <2>1, <2>3, <2>4, <2>5, HeldKept DEF HeldFits, HoldsOn
    <2>8. Sole(d) => Sole(c)'
      BY <2>1, <2>3 DEF Sole
    <2>9. d.stage \notin Idle /\ c.stage \notin Idle
      BY <2>1, <2>3 DEF Idle
    <2>10. QED
      BY <2>1, <2>3, <2>4, <2>5, <2>6, <2>7, <2>8, <2>9, GoesOn
  <1>3. CASE Restored(k)
    <2>1. /\ chain[k].stage = "restoring" /\ Proceeds(k, "hydrating")
          /\ UNCHANGED <<disk, vault, session, status, opRef, caches, held, strays, torn>>
      BY <1>3 DEF Restored
    <2>2. PICK c \in Chains :
             /\ chain' = [chain EXCEPT ![k] = c]
             /\ \A j \in Calls : chain'[j] = IF j = k THEN c ELSE chain[j]
             /\ c.stage = "hydrating" /\ c.kind = chain[k].kind /\ c.acct = chain[k].acct
             /\ c.seen = chain[k].seen /\ c.next = chain[k].next
      BY <2>1, StageChanges DEF Stages
    <2>3. ChainFits(c) /\ HoldsOn(c)
      BY <1>0, <2>1, <2>2 DEF ChainFits, HoldsOn
    <2>4. SessionTypeOK'
      BY <2>1, <2>2 DEF SessionTypeOK
    <2>5. HeldFits'
      BY <2>1, <2>2, <2>3, HeldKept DEF HeldFits, HoldsOn
    <2>6. Sole(chain[k]) => Sole(c)'
      BY <2>1, <2>2, SessionConstantsOK DEF Sole
    <2>7. chain[k].stage \notin Idle /\ c.stage \notin Idle
      BY <2>1, <2>2 DEF Idle
    <2>8. c.kind = "none" => chain[k].kind \notin Guarded
      BY <2>2 DEF Guarded
    <2>9. QED
      BY <2>1, <2>2, <2>3, <2>4, <2>5, <2>6, <2>7, <2>8, GoesOn
  <1>4. CASE Written(k)
    <2>1. /\ chain[k].stage = "saving" /\ Proceeds(k, "saved") /\ disk' = chain[k].next
          /\ UNCHANGED <<vault, session, status, opRef, caches, strays, torn>>
      BY <1>4 DEF Written
    <2>2. PICK c \in Chains :
             /\ chain' = [chain EXCEPT ![k] = c]
             /\ \A j \in Calls : chain'[j] = IF j = k THEN c ELSE chain[j]
             /\ c.stage = "saved" /\ c.kind = chain[k].kind /\ c.acct = chain[k].acct
             /\ c.seen = chain[k].seen /\ c.next = chain[k].next
      BY <2>1, StageChanges DEF Stages
    <2>3. /\ c.kind \in Writers /\ c.next.active = c.acct /\ c.acct \in Accounts
          /\ c.next.accounts = c.seen.accounts \cup {c.acct} /\ c.next \in Vaults
          /\ c.kind = "signIn" => c.seen = NoVault
      BY <1>0, <2>1, <2>2 DEF ChainFits, Chains
    <2>4. held' \subseteq c.next.accounts /\ held' \in SUBSET Accounts
      <3>1. CASE c.kind \in {"add", "signIn"}
        <4>1. held' = (IF c.seen = NoVault THEN {} ELSE held) \cup {c.acct}
          BY <1>4, <2>2, <3>1 DEF Written
        <4>2. c.seen = NoVault \/ held \subseteq c.seen.accounts
          BY <1>0, <2>1, <2>2, <2>3, <3>1 DEF HoldsOn
        <4>3. QED
          BY <2>3, <4>1, <4>2
      <3>2. CASE c.kind = "logout"
        <4>1. held' = held \cap c.seen.accounts
          BY <1>4, <2>2, <3>2 DEF Written
        <4>2. QED
          BY <2>3, <4>1
      <3>3. CASE c.kind = "switch"
        <4>1. held' = held
          BY <1>4, <2>2, <3>3 DEF Written
        <4>2. QED
          BY <1>0, <2>1, <2>2, <2>3, <3>3, <4>1 DEF HoldsOn
      <3>4. QED
        BY <2>3, <3>1, <3>2, <3>3 DEF Writers, Guarded
    <2>5. ChainFits(c)
      BY <2>2, <2>3 DEF ChainFits
    <2>6. SessionTypeOK'
      BY <2>1, <2>2, <2>3, <2>4 DEF SessionTypeOK
    <2>7. HeldFits'
      <3>1. \A j \in Calls : j # k => chain[j].kind \notin Writers /\ chain[j].stage # "saved"
        BY <2>2, <2>3 DEF SessionBase, ChainFits
      <3>2. ASSUME NEW j \in Calls
            PROVE  (HoldsOn(chain[j]))'
        <4>1. CASE j = k
          BY <2>2, <2>4, <4>1 DEF HoldsOn
        <4>2. CASE j # k
          BY <2>2, <3>1, <4>2 DEF HoldsOn, Writers, Guarded
        <4>3. QED
          BY <4>1, <4>2
      <3>3. chain'[k].stage = "saved" /\ disk' = c.next
        BY <2>1, <2>2
      <3>4. QED
        BY <2>4, <3>2, <3>3 DEF HeldFits
    <2>8. Sole(chain[k]) => Sole(c)'
      BY <2>1, <2>2 DEF Sole
    <2>9. chain[k].stage \notin Idle /\ c.stage \notin Idle /\ c.kind # "none"
      BY <2>1, <2>2, <2>3 DEF Idle, Writers, Guarded
    <2>10. QED
      BY <2>1, <2>2, <2>5, <2>6, <2>7, <2>8, <2>9, GoesOn
  <1>5. CASE Committed(k)
    <2>1. /\ chain[k].stage = "saved" /\ Proceeds(k, "hydrating") /\ vault' = chain[k].next
          /\ IF chain[k].kind = "signIn" THEN caches' = caches /\ strays' = strays ELSE caches' = {} /\ strays' = {}
          /\ UNCHANGED <<disk, session, status, opRef, held, torn>>
      BY <1>5 DEF Committed, Reset
    <2>2. PICK c \in Chains :
             /\ chain' = [chain EXCEPT ![k] = c]
             /\ \A j \in Calls : chain'[j] = IF j = k THEN c ELSE chain[j]
             /\ c.stage = "hydrating" /\ c.kind = chain[k].kind /\ c.acct = chain[k].acct
             /\ c.seen = chain[k].seen /\ c.next = chain[k].next
      BY <2>1, StageChanges DEF Stages
    <2>3. /\ c.kind \in Writers /\ c.next.active = c.acct /\ c.acct \in Accounts
          /\ c.next \in Vaults /\ held \subseteq c.next.accounts
          /\ c.kind = "signIn" => c.seen = NoVault
      BY <1>0, <2>1, <2>2 DEF ChainFits, HoldsOn, Chains
    <2>4. ChainFits(c) /\ HoldsOn(c)
      BY <2>2, <2>3 DEF ChainFits, HoldsOn
    <2>5. SessionTypeOK'
      BY <2>1, <2>2, <2>3 DEF SessionTypeOK
    <2>6. HeldFits'
      BY <2>1, <2>2, <2>3, <2>4, HeldKept DEF HeldFits, HoldsOn
    <2>7. Sole(chain[k]) => Sole(c)'
      <3> SUFFICES ASSUME Sole(chain[k])
                   PROVE  Sole(c)'
        OBVIOUS
      <3>1. disk = c.next /\ (c.kind = "signIn" => session = NoAccount)
        BY <2>1, <2>2 DEF Sole
      <3>2. caches' \ strays' = {}
        <4>1. CASE c.kind = "signIn"
          <5>1. caches \ strays \subseteq {session} /\ session = NoAccount
            BY <2>1, <3>1, <4>1 DEF Sole
          <5>2. QED
            BY <2>1, <2>2, <4>1, <5>1, SessionConstantsOK
        <4>2. CASE c.kind # "signIn"
          BY <2>1, <2>2, <4>2
        <4>3. QED
          BY <4>1, <4>2
      <3>3. QED
        BY <2>1, <2>2, <2>3, <3>1, <3>2 DEF Sole
    <2>8. chain[k].stage \notin Idle /\ c.stage \notin Idle /\ c.kind # "none"
      BY <2>1, <2>2, <2>3 DEF Idle, Writers, Guarded
    <2>9. QED
      BY <2>1, <2>2, <2>4, <2>5, <2>6, <2>7, <2>8, GoesOn
  <1>6. CASE Cleared(k)
    <2>1. /\ chain[k].stage = "clearing" /\ Proceeds(k, "cleared") /\ disk' = NoVault /\ held' = {}
          /\ UNCHANGED <<vault, session, status, opRef, caches, strays, torn>>
      BY <1>6 DEF Cleared
    <2>2. PICK c \in Chains :
             /\ chain' = [chain EXCEPT ![k] = c]
             /\ \A j \in Calls : chain'[j] = IF j = k THEN c ELSE chain[j]
             /\ c.stage = "cleared" /\ c.kind = chain[k].kind /\ c.acct = chain[k].acct
             /\ c.seen = chain[k].seen /\ c.next = chain[k].next
      BY <2>1, StageChanges DEF Stages
    <2>3. ChainFits(c)
      BY <1>0, <2>1, <2>2 DEF ChainFits
    <2>4. SessionTypeOK'
      BY <2>1, <2>2, VaultsFit DEF SessionTypeOK
    <2>5. HeldFits'
      BY <2>1, <2>2, HeldKept DEF HeldFits, HoldsOn
    <2>6. Sole(chain[k]) => Sole(c)'
      BY <2>1, <2>2 DEF Sole
    <2>7. chain[k].stage \notin Idle /\ c.stage \notin Idle
      BY <2>1, <2>2 DEF Idle
    <2>8. c.kind = "none" => chain[k].kind \notin Guarded
      BY <2>2 DEF Guarded
    <2>9. QED
      BY <2>1, <2>2, <2>3, <2>4, <2>5, <2>6, <2>7, <2>8, GoesOn
  <1>7. QED
    BY <1>1, <1>2, <1>3, <1>4, <1>5, <1>6

LEMMA NextSession == SessionInv /\ [SessionNext]_svars => SessionInv'
PROOF
  <1> SUFFICES ASSUME SessionInv, [SessionNext]_svars
               PROVE  SessionInv'
    OBVIOUS
  <1>1. CASE UNCHANGED svars
    BY <1>1 DEF svars, SessionInv, SessionBase, SessionTypeOK, HeldFits, HoldsOn, SettledFits, Sole
  <1>2. CASE SessionNext
    BY <1>2, BootSteps, ChainsBegin, ChainsGoOn, ChainsEnd DEF SessionNext
  <1>3. QED
    BY <1>1, <1>2

(* The vault, the session, the operations and the caches keep their types. *)
THEOREM SessionTypesHold == SessionSpec => []SessionTypeOK
PROOF
  <1>1. SessionInv => SessionTypeOK
    BY DEF SessionInv, SessionBase
  <1>2. QED
    BY <1>1, InitSessionInv, NextSession, PTL DEF SessionSpec

(* No operation clobbers an account that another one put into the vault
   (apps/mobile/src/lib/session-context.tsx:226). *)
THEOREM AccountsAreKept == SessionSpec => []NoneClobbered
PROOF
  <1>1. SessionInv => NoneClobbered
    BY DEF SessionInv, HeldFits, NoneClobbered
  <1>2. QED
    BY <1>1, InitSessionInv, NextSession, PTL DEF SessionSpec

(* The session is that of the active account of the vault on the disk, once all has
   settled (session-context.tsx:494-514). *)
THEOREM SessionFollowsVault == SessionSpec => []SessionIsActive
PROOF
  <1>1. SessionInv => SessionIsActive
    BY VaultsFit, SessionTypes DEF SessionInv, SettledFits, Sole, Overlaps, Idle, SessionIsActive
  <1>2. QED
    BY <1>1, InitSessionInv, NextSession, PTL DEF SessionSpec

(* The caches have nothing of another account, once all has settled
   (session-context.tsx:132). *)
THEOREM NothingBleeds == SessionSpec => []NoBleeding
PROOF
  <1>1. SessionInv => NoBleeding
    BY VaultsFit, SessionTypes DEF SessionInv, SettledFits, Sole, Overlaps, Idle, NoBleeding
  <1>2. QED
    BY <1>1, InitSessionInv, NextSession, PTL DEF SessionSpec

(* The overlay is up only while an operation is at work, and opRef is taken exactly
   then (session-context.tsx:428). *)
THEOREM OverlaysAreLifted == SessionSpec => []OverlayIsLifted
PROOF
  <1>1. SessionInv => OverlayIsLifted
    BY SessionTypes DEF SessionInv, SessionBase, Running, OverlayIsLifted
  <1>2. QED
    BY <1>1, InitSessionInv, NextSession, PTL DEF SessionSpec

----------------------------------------------------------------------------
(* Unread counts and read marks. *)

(* What has been noted has its count in memory, on the device and in a load under
   way, and none of the marks has come for it. *)
NotedFits ==
    /\ noted \subseteq saved /\ noted \subseteq joined \cup DMs /\ coming \subseteq joined \cup DMs
    /\ hydrated = TRUE => noted \subseteq counts
    /\ hydrated = FALSE => counts = {}
    /\ live = TRUE => hydrated = TRUE /\ mirror = marks
    /\ hydrated = TRUE \/ loading.on = TRUE => signedIn = TRUE
    /\ loading.on = TRUE => /\ live = FALSE /\ noted \subseteq loading.raw
                            /\ \A r \in noted : marks[r] = loading.marks[r]

UnreadInv ==
    /\ UnreadTypeOK
    /\ NotedFits
    /\ live = TRUE => \A r \in counts \ stale : head[r] > marks[r]

LEMMA UnreadTypes ==
  ASSUME UnreadInv
  PROVE  /\ signedIn \in BOOLEAN /\ live \in BOOLEAN /\ hydrated \in BOOLEAN /\ warming \in BOOLEAN
         /\ seeding \in BOOLEAN
         /\ counts \in SUBSET Convs /\ saved \in SUBSET Convs /\ joined \in SUBSET Convs
         /\ coming \in SUBSET Convs /\ noted \in SUBSET Convs /\ stale \in SUBSET Convs
         /\ marks \in Covers /\ synced \in Covers /\ mirror \in Covers /\ head \in Covers /\ theirs \in Covers
         /\ loading \in Loads /\ viewing \in Convs \cup {NoConv} /\ NotedFits
PROOF
  BY DEF UnreadInv, UnreadTypeOK

LEMMA CoversFit ==
  /\ Nowhere \in Covers /\ NoLoad \in Loads /\ NoLoad.on = FALSE
  /\ \A f, g \in Covers : /\ Later(f, g) \in Covers
                          /\ \A r \in Convs : Later(f, g)[r] = IF f[r] > g[r] THEN f[r] ELSE g[r]
  /\ \A f \in Covers : \A r \in Convs : f[r] \in 0..MaxMessages
  /\ \A f \in Covers : \A r \in Convs : \A n \in 0..MaxMessages : [f EXCEPT ![r] = n] \in Covers
PROOF
  <1> USE UnreadConstantsOK
  <1>1. Nowhere \in Covers
    BY DEF Nowhere, Covers
  <1>2. NoLoad \in Loads /\ NoLoad.on = FALSE
    BY <1>1 DEF NoLoad, Loads
  <1>3. \A f, g \in Covers : /\ Later(f, g) \in Covers
                             /\ \A r \in Convs : Later(f, g)[r] = IF f[r] > g[r] THEN f[r] ELSE g[r]
    BY DEF Later, Covers
  <1>4. /\ \A f \in Covers : \A r \in Convs : f[r] \in 0..MaxMessages
        /\ \A f \in Covers : \A r \in Convs : \A n \in 0..MaxMessages : [f EXCEPT ![r] = n] \in Covers
    BY DEF Covers
  <1>5. QED
    BY <1>1, <1>2, <1>3, <1>4

(* There is room for one more message where not all have been written. *)
LEMMA RoomForOne ==
  ASSUME UnreadInv, NEW r \in Convs, Cardinality(Messages) < MaxMessages
  PROVE  head[r] + 1 \in 0..MaxMessages
PROOF
  <1> USE UnreadConstantsOK
  <1>1. head \in Covers /\ head[r] \in 0..MaxMessages
    BY UnreadTypes, CoversFit
  <1>2. IsFiniteSet(1..MaxMessages) /\ IsFiniteSet(1..head[r]) /\ Cardinality(1..head[r]) = head[r]
    <2>1. 1 \in Int /\ MaxMessages \in Int /\ head[r] \in Int /\ head[r] \in Nat
      BY <1>1
    <2>2. IsFiniteSet(1..MaxMessages)
      BY <2>1, FS_Interval
    <2>3. IsFiniteSet(1..head[r]) /\ Cardinality(1..head[r]) = IF 1 > head[r] THEN 0 ELSE head[r] - 1 + 1
      BY <2>1, FS_Interval
    <2>4. QED
      BY <2>1, <2>2, <2>3
  <1>3. IsFiniteSet(Convs \X (1..MaxMessages))
    BY <1>2, FS_Product
  <1>4. Messages \in SUBSET (Convs \X (1..MaxMessages))
    BY DEF Messages
  <1>5. IsFiniteSet(Messages)
    BY <1>3, <1>4, FS_Subset
  <1>6. {r} \X (1..head[r]) \in SUBSET Messages
    BY <1>1 DEF Messages
  <1>7. Cardinality({r} \X (1..head[r])) = head[r]
    <2>1. IsFiniteSet({r}) /\ Cardinality({r}) = 1
      BY FS_Singleton
    <2>2. Cardinality({r} \X (1..head[r])) = Cardinality({r}) * Cardinality(1..head[r])
      BY <1>2, <2>1, FS_Product
    <2>3. QED
      BY <1>1, <1>2, <2>1, <2>2
  <1>8. head[r] <= Cardinality(Messages) /\ Cardinality(Messages) \in Nat
    BY <1>5, <1>6, <1>7, FS_Subset, FS_CardinalityType
  <1>9. QED
    BY <1>1, <1>8

LEMMA InitUnread == UnreadInit => UnreadInv
PROOF
  BY CoversFit DEF UnreadInit, UnreadInv, UnreadTypeOK, NotedFits

(* The marks of the account arrive, in memory alone. *)
LEMMA MarksLater ==
  ASSUME UnreadInv, marks' = Later(marks, synced)
  PROVE  marks' \in Covers /\ \A r \in Convs : marks'[r] >= marks[r] /\ marks[r] \in Nat /\ marks'[r] \in Nat
PROOF
  <1>1. marks \in Covers /\ synced \in Covers
    BY UnreadTypes
  <1>2. marks' \in Covers /\ \A r \in Convs : marks'[r] = IF marks[r] > synced[r] THEN marks[r] ELSE synced[r]
    BY <1>1, CoversFit
  <1>3. \A r \in Convs : marks[r] \in 0..MaxMessages /\ marks'[r] \in 0..MaxMessages /\ synced[r] \in 0..MaxMessages
    BY <1>1, <1>2, CoversFit
  <1>4. QED
    BY <1>2, <1>3

LEMMA NextUnread == UnreadInv /\ [UnreadNext]_uvars => UnreadInv'
PROOF
  <1> SUFFICES ASSUME UnreadInv, [UnreadNext]_uvars
               PROVE  UnreadInv'
    OBVIOUS
  <1> USE UnreadTypes, UnreadConstantsOK
  <1>0. live = TRUE => \A r \in counts \ stale : head[r] > marks[r]
    BY DEF UnreadInv
  <1>1. CASE UNCHANGED uvars
    BY <1>0, <1>1 DEF uvars, marksvars, worldvars, UnreadInv, UnreadTypeOK, NotedFits
  <1>2. CASE SignedInByBoot
    <2>1. /\ signedIn' = TRUE /\ warming' = TRUE
          /\ loading' = [on |-> TRUE, raw |-> saved, marks |-> marks]
          /\ UNCHANGED <<marks, synced, mirror, counts, saved, live, hydrated, seeding, viewing, joined, head,
                         theirs, coming, noted, stale>>
      BY <1>2 DEF SignedInByBoot, LoadStarted, marksvars, worldvars
    <2>2. loading' \in Loads /\ loading'.raw = saved /\ loading'.marks = marks
      BY <2>1 DEF Loads
    <2>3. UnreadTypeOK'
      BY <2>1, <2>2 DEF UnreadTypeOK
    <2>4. live = FALSE /\ hydrated = FALSE
      BY <1>2 DEF SignedInByBoot, NotedFits
    <2>5. NotedFits'
      BY <2>1, <2>2, <2>4 DEF NotedFits
    <2>6. QED
      BY <1>0, <2>1, <2>3, <2>5 DEF UnreadInv
  <1>3. CASE SignedInHydrated
    <2>1. /\ signedIn' = TRUE /\ marks' = Later(marks, synced) /\ noted' = {r \in noted : marks'[r] = marks[r]}
          /\ loading' = [on |-> TRUE, raw |-> saved, marks |-> marks']
          /\ UNCHANGED <<counts, saved, synced, mirror, live, hydrated, warming, seeding, viewing, joined, head,
                         theirs, coming, stale>>
      BY <1>3 DEF SignedInHydrated, LoadStarted, worldvars
    <2>2. marks' \in Covers
      BY <2>1, MarksLater
    <2>3. loading' \in Loads /\ loading'.raw = saved /\ loading'.marks = marks'
      BY <2>1, <2>2 DEF Loads
    <2>4. UnreadTypeOK'
      BY <2>1, <2>2, <2>3 DEF UnreadTypeOK
    <2>5. live = FALSE /\ hydrated = FALSE
      BY <1>3 DEF SignedInHydrated, NotedFits
    <2>6. NotedFits'
      BY <2>1, <2>3, <2>5 DEF NotedFits
    <2>7. QED
      BY <2>1, <2>4, <2>5, <2>6 DEF UnreadInv
  <1>4. CASE SignedOff
    <2>1. /\ signedIn' = FALSE /\ live' = FALSE /\ hydrated' = FALSE /\ warming' = FALSE /\ seeding' = FALSE
          /\ counts' = {} /\ coming' = {} /\ stale' = {} /\ mirror' = Nowhere /\ loading' = NoLoad
          /\ viewing' = NoConv
          /\ UNCHANGED <<saved, marks, synced, joined, head, theirs, noted>>
      BY <1>4 DEF SignedOff, worldvars
    <2>2. UnreadTypeOK'
      BY <2>1, CoversFit DEF UnreadTypeOK
    <2>3. NotedFits'
      BY <2>1, CoversFit DEF NotedFits
    <2>4. QED
      BY <2>1, <2>2, <2>3 DEF UnreadInv
  <1>5. ASSUME NEW S \in SUBSET Convs, SpacesChange(S)
        PROVE  UnreadInv'
    <2>1. /\ signedIn = TRUE /\ joined' = S /\ live' = FALSE /\ coming' = {} /\ noted' = noted \cap S
          /\ loading' = [on |-> TRUE, raw |-> saved, marks |-> marks]
          /\ UNCHANGED <<marks, synced, mirror, signedIn, counts, saved, hydrated, warming, seeding, viewing,
                         head, theirs, stale>>
      BY <1>5 DEF SpacesChange, LoadStarted, marksvars
    <2>2. loading' \in Loads /\ loading'.raw = saved /\ loading'.marks = marks
      BY <2>1 DEF Loads
    <2>3. UnreadTypeOK'
      BY <2>1, <2>2 DEF UnreadTypeOK
    <2>4. NotedFits'
      BY <2>1, <2>2 DEF NotedFits
    <2>5. QED
      BY <2>1, <2>3, <2>4 DEF UnreadInv
  <1>6. CASE LoadDone
    <2> DEFINE gone == ReadSince(counts, loading.marks, marks)
               kept == Pruned(loading.raw)
    <2>1. /\ loading.on = TRUE /\ loading' = NoLoad /\ mirror' = marks /\ counts' = kept
          /\ stale' = {r \in kept : head[r] <= marks[r]}
          /\ saved' = IF kept # loading.raw THEN kept ELSE IF gone # {} THEN counts \ gone ELSE saved
          /\ live' = TRUE /\ hydrated' = TRUE /\ seeding' = (seeding \/ ~hydrated)
          /\ UNCHANGED <<signedIn, marks, synced, warming, viewing, joined, head, theirs, coming, noted>>
      BY <1>6 DEF LoadDone, worldvars
    <2>2. kept \in SUBSET Convs /\ gone \in SUBSET counts
      BY DEF Pruned, ReadSince, Loads
    <2>3. seeding' \in BOOLEAN
      BY <2>1
    <2>4. UnreadTypeOK'
      BY <2>1, <2>2, <2>3, CoversFit DEF UnreadTypeOK
    <2>5. noted \subseteq kept
      BY <2>1 DEF NotedFits, Pruned
    <2>6. noted \cap gone = {}
      <3>1. SUFFICES ASSUME NEW r \in noted, r \in gone
                     PROVE  FALSE
        OBVIOUS
      <3>2. marks[r] > loading.marks[r] /\ marks[r] = loading.marks[r]
        BY <2>1, <3>1 DEF ReadSince, NotedFits
      <3>3. marks[r] \in 0..MaxMessages
        BY CoversFit, <3>1
      <3>4. QED
        BY <3>2, <3>3
    <2>7. noted \subseteq saved'
      <3>1. CASE kept # loading.raw
        BY <2>1, <2>5, <3>1
      <3>2. CASE kept = loading.raw /\ gone # {}
        <4>1. hydrated = TRUE
          BY <2>2, <3>2 DEF NotedFits
        <4>2. QED
          BY <2>1, <2>6, <3>2, <4>1 DEF NotedFits
      <3>3. CASE kept = loading.raw /\ gone = {}
        BY <2>1, <3>3 DEF NotedFits
      <3>4. QED
        BY <3>1, <3>2, <3>3
    <2> HIDE DEF gone, kept
    <2>8. NotedFits'
      BY <2>1, <2>5, <2>7, CoversFit DEF NotedFits
    <2>9. ASSUME NEW r \in counts' \ stale'
          PROVE  head'[r] > marks'[r]
      <3>1. r \in Convs /\ ~(head[r] <= marks[r])
        BY <2>1, <2>2, <2>9
      <3>2. head[r] \in 0..MaxMessages /\ marks[r] \in 0..MaxMessages
        BY <3>1, CoversFit
      <3>3. QED
        BY <2>1, <3>1, <3>2
    <2>10. QED
      BY <2>4, <2>8, <2>9 DEF UnreadInv
  <1>7. CASE hydrateReads
    <2>1. /\ warming' = FALSE /\ marks' = Later(marks, synced)
          /\ noted' = {r \in noted : marks'[r] = marks[r]} /\ stale' = {r \in stale : marks'[r] = marks[r]}
          /\ UNCHANGED <<signedIn, synced, loading, live, hydrated, seeding, viewing, joined, head, theirs, coming>>
      BY <1>7 DEF hydrateReads, worldvars
    <2>2. marks' \in Covers /\ \A r \in Convs : marks'[r] >= marks[r] /\ marks[r] \in Nat /\ marks'[r] \in Nat
      BY <2>1, MarksLater
    <2>3. CASE live = FALSE
      <3>1. UNCHANGED <<mirror, counts, saved>>
        BY <1>7, <2>3 DEF hydrateReads
      <3>2. UnreadTypeOK'
        BY <2>1, <2>2, <3>1 DEF UnreadTypeOK
      <3>3. NotedFits'
        BY <2>1, <2>3, <3>1 DEF NotedFits
      <3>4. QED
        BY <2>1, <2>3, <3>2, <3>3 DEF UnreadInv
    <2>4. CASE live = TRUE
      <3>1. /\ mirror' = Later(mirror, marks') /\ counts' = {r \in counts : ~(marks'[r] > mirror[r])}
            /\ saved' = IF counts' # counts THEN counts' ELSE saved
        BY <1>7, <2>4 DEF hydrateReads, Reconciled, ReadSince
      <3>2. mirror = marks /\ hydrated = TRUE /\ loading.on # TRUE
        BY <2>4 DEF NotedFits
      <3>3. counts' = {r \in counts : marks'[r] = marks[r]}
        BY <2>2, <3>1, <3>2
      <3>4. mirror' = marks'
        <4>1. \A r \in Convs : Later(marks, marks')[r] = marks'[r]
          BY <2>2, CoversFit
        <4>2. Later(marks, marks') \in Covers
          BY <2>2, CoversFit
        <4>3. QED
          BY <2>2, <3>1, <3>2, <4>1, <4>2 DEF Covers
      <3>5. UnreadTypeOK'
        BY <2>1, <2>2, <3>1, <3>3, <3>4 DEF UnreadTypeOK
      <3>6. noted' \subseteq counts' /\ noted' \subseteq saved'
        BY <2>1, <3>1, <3>2, <3>3 DEF NotedFits
      <3>7. NotedFits'
        BY <2>1, <3>2, <3>4, <3>6 DEF NotedFits
      <3>8. \A r \in counts' \ stale' : head'[r] > marks'[r]
        BY <1>0, <2>1, <2>4, <3>3
      <3>9. QED
        BY <3>5, <3>7, <3>8 DEF UnreadInv
    <2>5. QED
      BY <2>3, <2>4
  <1>8. CASE SeedDone
    <2>1. PICK S \in SUBSET {d \in DMs \ counts : head[d] > marks[d]} :
             counts' = counts \cup S /\ saved' = IF S # {} THEN counts' ELSE saved
      BY <1>8 DEF SeedDone
    <2>2. /\ hydrated = TRUE /\ seeding' = FALSE
          /\ UNCHANGED <<signedIn, marks, synced, mirror, loading, live, hydrated, warming, viewing, joined,
                         head, theirs, coming, noted, stale>>
      BY <1>8 DEF SeedDone, marksvars, worldvars
    <2>3. UnreadTypeOK'
      BY <2>1, <2>2 DEF UnreadTypeOK
    <2>4. NotedFits'
      BY <2>1, <2>2 DEF NotedFits
    <2>5. QED
      BY <1>0, <2>1, <2>2, <2>3, <2>4 DEF UnreadInv
  <1>9. ASSUME NEW r \in Convs, TheyWrite(r) \/ IWrite(r)
        PROVE  UnreadInv'
    <2>1. /\ head' = [head EXCEPT ![r] = @ + 1] /\ Cardinality(Messages) < MaxMessages
          /\ UNCHANGED <<signedIn, counts, saved, marks, synced, mirror, loading, live, hydrated, warming,
                         seeding, viewing, joined, noted, stale>>
      BY <1>9 DEF TheyWrite, IWrite, marksvars
    <2>2. head[r] + 1 \in 0..MaxMessages
      BY <2>1, RoomForOne
    <2>3. head' \in Covers /\ theirs' \in Covers
      <3>1. head \in Covers /\ theirs \in Covers
        OBVIOUS
      <3>2. [head EXCEPT ![r] = head[r] + 1] \in Covers /\ [theirs EXCEPT ![r] = head[r] + 1] \in Covers
        BY <2>2, <3>1, CoversFit
      <3>3. theirs' = [theirs EXCEPT ![r] = head[r] + 1] \/ theirs' = theirs
        BY <1>9 DEF TheyWrite, IWrite
      <3>4. QED
        BY <2>1, <3>1, <3>2, <3>3
    <2>4. coming' \in SUBSET Convs /\ coming' \subseteq joined \cup DMs
      BY <1>9 DEF TheyWrite, IWrite, NotedFits
    <2>5. UnreadTypeOK'
      BY <2>1, <2>3, <2>4 DEF UnreadTypeOK
    <2>6. NotedFits'
      BY <2>1, <2>4 DEF NotedFits
    <2>7. ASSUME live = TRUE, NEW q \in counts \ stale
          PROVE  head'[q] > marks[q]
      <3>1. head[q] > marks[q]
        BY <1>0, <2>7
      <3>2. q \in Convs /\ head[q] \in 0..MaxMessages /\ marks[q] \in 0..MaxMessages
        BY CoversFit
      <3>3. head'[q] = head[q] \/ head'[q] = head[q] + 1
        BY <2>1, <3>2 DEF Covers
      <3>4. QED
        BY <3>1, <3>2, <3>3
    <2>8. QED
      BY <2>1, <2>5, <2>6, <2>7 DEF UnreadInv
  <1>10. ASSUME NEW r \in Convs, Event(r)
         PROVE  UnreadInv'
    <2>1. /\ live = TRUE /\ r \in coming /\ coming' = coming \ {r}
          /\ UNCHANGED <<signedIn, marks, synced, mirror, loading, live, hydrated, warming, seeding, viewing,
                         joined, head, theirs>>
      BY <1>10 DEF Event, marksvars, worldvars
    <2>2. hydrated = TRUE /\ loading.on # TRUE
      BY <2>1 DEF NotedFits
    <2>3. CASE viewing = r
      <3>1. UNCHANGED <<counts, saved, noted, stale>>
        BY <1>10, <2>3 DEF Event
      <3>2. UnreadTypeOK'
        BY <2>1, <3>1 DEF UnreadTypeOK
      <3>3. NotedFits'
        BY <2>1, <3>1 DEF NotedFits
      <3>4. QED
        BY <1>0, <2>1, <3>1, <3>2, <3>3 DEF UnreadInv
    <2>4. CASE viewing # r
      <3>1. /\ counts' = counts \cup {r} /\ saved' = counts' /\ noted' = noted \cup {r}
            /\ stale' = IF head[r] <= marks[r] THEN stale \cup {r} ELSE stale
        BY <1>10, <2>4 DEF Event
      <3>2. UnreadTypeOK'
        BY <2>1, <3>1 DEF UnreadTypeOK
      <3>3. NotedFits'
        BY <2>1, <2>2, <3>1 DEF NotedFits
      <3>4. ASSUME NEW q \in counts' \ stale'
            PROVE  head[q] > marks[q]
        <4>1. CASE q = r /\ q \notin counts
          <5>1. ~(head[r] <= marks[r])
            BY <3>1, <3>4, <4>1
          <5>2. head[r] \in 0..MaxMessages /\ marks[r] \in 0..MaxMessages
            BY CoversFit
          <5>3. QED
            BY <4>1, <5>1, <5>2
        <4>2. CASE q \in counts
          BY <1>0, <2>1, <3>1, <3>4, <4>2
        <4>3. QED
          BY <3>1, <3>4, <4>1, <4>2
      <3>5. QED
        BY <2>1, <3>2, <3>3, <3>4 DEF UnreadInv
    <2>5. QED
      BY <2>3, <2>4
  <1>11. ASSUME NEW r \in Convs, markRoomRead(r)
         PROVE  UnreadInv'
    <2>1. /\ hydrated = TRUE /\ viewing' = r
          /\ marks' = [marks EXCEPT ![r] = head[r]] /\ mirror' = [mirror EXCEPT ![r] = head[r]]
          /\ counts' = counts \ {r} /\ saved' = IF r \in counts THEN counts' ELSE saved
          /\ noted' = noted \ {r} /\ stale' = stale \ {r}
          /\ UNCHANGED <<signedIn, synced, loading, live, hydrated, warming, seeding, joined, head, theirs, coming>>
      BY <1>11 DEF markRoomRead, Without, worldvars
    <2>2. head[r] \in 0..MaxMessages
      BY CoversFit
    <2>3. UnreadTypeOK'
      <3>1. marks \in Covers /\ mirror \in Covers
        OBVIOUS
      <3>2. marks' \in Covers /\ mirror' \in Covers
        BY <2>1, <2>2, <3>1, CoversFit
      <3>3. QED
        BY <2>1, <3>2 DEF UnreadTypeOK
    <2>4. \A q \in Convs : q # r => marks'[q] = marks[q]
      BY <2>1 DEF Covers
    <2>5. NotedFits'
      BY <2>1, <2>4 DEF NotedFits
    <2>6. \A q \in counts' \ stale' : q \in counts \ stale /\ q # r /\ q \in Convs
      BY <2>1
    <2>7. QED
      BY <1>0, <2>1, <2>3, <2>4, <2>5, <2>6 DEF UnreadInv
  <1>12. CASE LeaveScreen
    <2>1. /\ viewing' = NoConv
          /\ UNCHANGED <<signedIn, counts, saved, marks, synced, mirror, loading, live, hydrated, warming, seeding,
                         joined, head, theirs, coming, noted, stale>>
      BY <1>12 DEF LeaveScreen, marksvars, worldvars
    <2>2. UnreadTypeOK' /\ NotedFits'
      BY <2>1 DEF UnreadTypeOK, NotedFits
    <2>3. QED
      BY <1>0, <2>1, <2>2 DEF UnreadInv
  <1>13. ASSUME MarksSynced \/ \E r \in Convs : ReadElsewhere(r)
         PROVE  UnreadInv'
    <2>1. UNCHANGED <<signedIn, counts, saved, marks, mirror, loading, live, hydrated, warming, seeding, viewing,
                      joined, head, theirs, coming, noted, stale>>
      BY <1>13 DEF MarksSynced, ReadElsewhere, worldvars
    <2>2. synced' \in Covers
      <3>1. CASE MarksSynced
        BY <3>1, CoversFit DEF MarksSynced
      <3>2. ASSUME NEW r \in Convs, ReadElsewhere(r)
            PROVE  synced' \in Covers
        <4>1. head[r] \in 0..MaxMessages
          BY CoversFit
        <4>2. QED
          BY <3>2, <4>1, CoversFit DEF ReadElsewhere
      <3>3. QED
        BY <1>13, <3>1, <3>2
    <2>3. UnreadTypeOK' /\ NotedFits'
      BY <2>1, <2>2 DEF UnreadTypeOK, NotedFits
    <2>4. QED
      BY <1>0, <2>1, <2>3 DEF UnreadInv
  <1>14. QED
    BY <1>1, <1>2, <1>3, <1>4, <1>5, <1>6, <1>7, <1>8, <1>9, <1>10, <1>11, <1>12, <1>13 DEF UnreadNext

(* The counts, the marks and the load keep their types. *)
THEOREM UnreadTypesHold == UnreadSpec => []UnreadTypeOK
PROOF
  <1>1. UnreadInv => UnreadTypeOK
    BY DEF UnreadInv
  <1>2. QED
    BY <1>1, InitUnread, NextUnread, PTL DEF UnreadSpec

(* What an event counted survives until it is read
   (apps/mobile/src/lib/unread-context.tsx:195). *)
THEOREM CountsSurvive == UnreadSpec => []CountSurvives
PROOF
  <1>1. UnreadInv => CountSurvives
    BY UnreadTypes DEF NotedFits, CountSurvives
  <1>2. QED
    BY <1>1, InitUnread, NextUnread, PTL DEF UnreadSpec

(* A counted conversation has a message that its mark does not cover
   (unread-context.tsx:231). *)
THEOREM ReadStaysRead == UnreadSpec => []ReadIsRead
PROOF
  <1>1. UnreadInv => ReadIsRead
    BY DEF UnreadInv, ReadIsRead
  <1>2. QED
    BY <1>1, InitUnread, NextUnread, PTL DEF UnreadSpec

----------------------------------------------------------------------------
(* Updates of the desktop shell.  What has been downloaded is whole, and stays so
   until a pruning is at it. *)

Checking ==
    /\ check.stage # "idle" => running # NotRunning
    /\ check.stage \in {"downloading", "downloaded", "staged", "pointed"} => check.version \in Releases
    /\ check.stage = "downloaded" => check.got = "whole"
    /\ check.stage \in {"staged", "pointed"} => isValidBundle(check.version)
    /\ check.stage = "pointed" => pointer = check.version

BundlesWhole == \A v \in Releases \ taken : bundle[v] \in {"none", "whole"}

Served == \A v \in Releases \ taken : running = FromDownload(v) => isValidBundle(v)

PointerLeads == pointer # NoVersion => isValidBundle(pointer)

AnnouncedFirst == pending # NoVersion /\ pointer # NoVersion /\ check.stage # "pointed" => pending = pointer

UpdaterInv == UpdaterTypeOK /\ Checking /\ BundlesWhole /\ Served /\ PointerLeads /\ AnnouncedFirst

LEMMA SessionsDiffer ==
  ASSUME NEW v, NEW w
  PROVE  /\ FromDownload(v) # NotRunning /\ FromDownload(v) # FromInstaller
         /\ FromDownload(v) = FromDownload(w) => v = w
PROOF
  BY DEF FromDownload, NotRunning, FromInstaller

LEMMA InitUpdater == UpdaterInit => UpdaterInv
PROOF
  <1> SUFFICES ASSUME UpdaterInit PROVE UpdaterInv
    OBVIOUS
  <1> USE UpdaterConstantsOK DEF UpdaterInit, NotChecking
  <1>1. UpdaterTypeOK
    BY DEF UpdaterTypeOK
  <1>2. Checking /\ BundlesWhole /\ PointerLeads /\ AnnouncedFirst
    BY DEF Checking, BundlesWhole, PointerLeads, AnnouncedFirst
  <1>3. Served
    BY SessionsDiffer DEF Served
  <1> QED
    BY <1>1, <1>2, <1>3 DEF UpdaterInv

LEMMA NextUpdater == UpdaterInv /\ [UpdaterNext]_pvars => UpdaterInv'
PROOF
  <1> SUFFICES ASSUME UpdaterInv, [UpdaterNext]_pvars
               PROVE  UpdaterInv'
    OBVIOUS
  <1> USE UpdaterConstantsOK, SessionsDiffer
          DEF UpdaterInv, UpdaterTypeOK, Checking, BundlesWhole, Served, PointerLeads, AnnouncedFirst, NotChecking, isValidBundle
  <1>1. CASE Launch
    <2>1. /\ running = NotRunning /\ running' = resolveDistDir
          /\ check' = [NotChecking EXCEPT !.stage = "asking"]
          /\ UNCHANGED <<manifest, bundle, pointer, pending, taken>>
      BY <1>1 DEF Launch
    <2>2. \/ running' = FromInstaller
          \/ pointer \in Releases /\ isValidBundle(pointer) /\ running' = FromDownload(pointer)
      BY <2>1 DEF resolveDistDir
    <2>3. running' # NotRunning
      BY <2>2 DEF FromInstaller, NotRunning
    <2>4. Served'
      BY <2>1, <2>2
    <2>5. UpdaterTypeOK'
      BY <2>1, <2>2
    <2>6. Checking' /\ BundlesWhole' /\ PointerLeads' /\ AnnouncedFirst'
      BY <2>1, <2>3
    <2> QED
      BY <2>4, <2>5, <2>6
  <1>2. CASE checkForUpdates
    <2>1. UpdaterTypeOK'
      BY <1>2 DEF checkForUpdates
    <2>2. Checking'
      BY <1>2 DEF checkForUpdates
    <2>3. BundlesWhole'
      BY <1>2 DEF checkForUpdates
    <2>4. Served' /\ PointerLeads' /\ AnnouncedFirst'
      BY <1>2 DEF checkForUpdates
    <2> QED
      BY <2>1, <2>2, <2>3, <2>4
  <1>3. CASE Stop
    <2>1. UpdaterTypeOK'
      BY <1>3 DEF Stop
    <2>2. Checking'
      BY <1>3 DEF Stop
    <2>3. BundlesWhole'
      BY <1>3 DEF Stop
    <2>4. Served' /\ PointerLeads' /\ AnnouncedFirst'
      BY <1>3 DEF Stop
    <2> QED
      BY <2>1, <2>2, <2>3, <2>4
  <1>4. ASSUME NEW v \in Releases, Publish(v)
        PROVE  UpdaterInv'
    BY <1>4 DEF Publish
  <1>5. CASE GotManifest
    <2>1. UpdaterTypeOK'
      BY <1>5 DEF GotManifest
    <2>2. Checking'
      BY <1>5 DEF GotManifest
    <2>3. BundlesWhole'
      BY <1>5 DEF GotManifest
    <2>4. Served' /\ PointerLeads' /\ AnnouncedFirst'
      BY <1>5 DEF GotManifest
    <2> QED
      BY <2>1, <2>2, <2>3, <2>4
  <1>6. CASE Downloaded
    <2>1. UpdaterTypeOK'
      BY <1>6 DEF Downloaded
    <2>2. Checking'
      BY <1>6 DEF Downloaded
    <2>3. BundlesWhole'
      BY <1>6 DEF Downloaded
    <2>4. Served' /\ PointerLeads' /\ AnnouncedFirst'
      BY <1>6 DEF Downloaded
    <2> QED
      BY <2>1, <2>2, <2>3, <2>4
  <1>7. CASE Promoted
    <2>1. UpdaterTypeOK'
      BY <1>7 DEF Promoted
    <2>2. Checking'
      BY <1>7 DEF Promoted
    <2>3. BundlesWhole'
      BY <1>7 DEF Promoted
    <2>4. Served' /\ PointerLeads' /\ AnnouncedFirst'
      BY <1>7 DEF Promoted
    <2> QED
      BY <2>1, <2>2, <2>3, <2>4
  <1>8. CASE PointerWritten
    <2>1. UpdaterTypeOK'
      BY <1>8 DEF PointerWritten
    <2>2. Checking'
      BY <1>8 DEF PointerWritten
    <2>3. BundlesWhole'
      BY <1>8 DEF PointerWritten
    <2>4. Served' /\ PointerLeads' /\ AnnouncedFirst'
      BY <1>8 DEF PointerWritten
    <2> QED
      BY <2>1, <2>2, <2>3, <2>4
  <1>9. CASE Announced
    <2>1. UpdaterTypeOK'
      BY <1>9 DEF Announced, pruneOldVersions
    <2>2. Checking'
      BY <1>9 DEF Announced, pruneOldVersions
    <2>3. BundlesWhole'
      BY <1>9 DEF Announced, pruneOldVersions
    <2>4. Served' /\ PointerLeads' /\ AnnouncedFirst'
      BY <1>9 DEF Announced, pruneOldVersions
    <2> QED
      BY <2>1, <2>2, <2>3, <2>4
  <1>10. CASE UpdateCheckFails
    <2>1. UpdaterTypeOK'
      BY <1>10 DEF UpdateCheckFails
    <2>2. Checking'
      BY <1>10 DEF UpdateCheckFails
    <2>3. BundlesWhole'
      BY <1>10 DEF UpdateCheckFails
    <2>4. Served' /\ PointerLeads' /\ AnnouncedFirst'
      BY <1>10 DEF UpdateCheckFails
    <2> QED
      BY <2>1, <2>2, <2>3, <2>4
  <1>11. CASE UNCHANGED pvars
    BY <1>11 DEF pvars
  <1> QED
    BY <1>1, <1>2, <1>3, <1>4, <1>5, <1>6, <1>7, <1>8, <1>9, <1>10, <1>11 DEF UpdaterNext

(* Type correctness of the updater. *)
THEOREM UpdaterTypes == UpdaterSpec => []UpdaterTypeOK
PROOF
  <1>1. UpdaterInv => UpdaterTypeOK
    BY DEF UpdaterInv
  <1> QED
    BY <1>1, InitUpdater, NextUpdater, PTL DEF UpdaterSpec

(* Whatever fails or dies, what is served and what is pointed to is whole, and what was
   announced comes with the next launch, but for what a pruning has been at and a
   pointer that was cut (apps/desktop/src/updater.ts:13), for any releases. *)
THEOREM WholeIsServed == UpdaterSpec => []ServesWhole
PROOF
  <1>1. UpdaterInv => ServesWhole
    BY UpdaterConstantsOK DEF UpdaterInv, UpdaterTypeOK, Checking, BundlesWhole, Served, PointerLeads, AnnouncedFirst,
                              isValidBundle, ServesWhole, NotChecking, resolveDistDir
  <1> QED
    BY <1>1, InitUpdater, NextUpdater, PTL DEF UpdaterSpec

----------------------------------------------------------------------------
(* Direct messages.  Two people agree on one space in turn. *)

(* What is so as long as nothing failed and no creation overlapped with a reconcile
   or a heal of its person.  A person who creates has nothing yet but what the stage
   says, so that each creates one space at most, and a space reaches the other only
   through the inbox. *)
TurnCreating(u) ==
    create[u] # NoCreation =>
       LET c == create[u] IN
       /\ scan[u] = NoScan /\ heal[u] = NoDm
       /\ c.pc # "idle" /\ c.dm \in DmSpaces /\ c.dm.owner = u
       /\ dms[u] = IF c.pc = "mapped" THEN c.dm ELSE NoDm
       /\ listing[u] = IF c.pc \in {"listed", "mapped", "filed"} THEN {c.dm} ELSE {}
       /\ inbox[Peer(u)] = IF c.pc \in {"sent", "filed"} THEN {c.dm} ELSE {}

Invited(u) == \A d \in inbox[u] : d.owner = Peer(u) /\ \A e \in inbox[u] : d = e

(* Whoever delivered a space has a mapping, and the first of the two that to his own
   space; a space of the other that is listed is mapped, or about to be. *)
TurnMapped(u) ==
    create[u] = NoCreation =>
       /\ dms[u] \in {NoDm} \cup inbox[u] \cup inbox[Peer(u)]
       /\ inbox[Peer(u)] # {} => dms[u] # NoDm /\ (u = 1 => dms[u] \in inbox[Peer(u)])
       /\ \A d \in listing[u] : \/ d \in inbox[Peer(u)]
                                \/ d \in inbox[u] /\ d \in {dms[u], scan[u].dm}

(* The mapping that a reconcile knows is the real one, but for what it is about to map. *)
TurnScanning(u) ==
    LET s == scan[u] IN
       /\ ~s.on => s = NoScan
       /\ heal[u] # NoDm => heal[u] \in inbox[u] /\ heal[u] \in {dms[u], s.dm}
       /\ s.todo \subseteq inbox[u]
       /\ s.dm # NoDm => /\ s.dm \in inbox[u] \cap listing[u]
                         /\ dms[u] \in {s.mine, s.dm}
                         /\ u = 1 => s.mine = NoDm
       /\ s.mine # NoDm /\ s.dm = NoDm => dms[u] = s.mine
       /\ s.on /\ s.mine = NoDm /\ s.dm = NoDm => dms[u] = NoDm

Turn(u) == Invited(u) /\ TurnCreating(u) /\ TurnMapped(u) /\ TurnScanning(u)

(* A creation under way is one of a space. *)
Creating == \A u \in People : create[u].pc # "idle" => create[u].dm \in DmSpaces

DmsInv == DmsTypeOK /\ Creating /\ (mishaps = {} => \A u \in People : Turn(u))

(* Each of the two is the peer of the other. *)
LEMMA PeersFacts ==
  /\ 1 \in People /\ 2 \in People /\ Peer(1) = 2 /\ Peer(2) = 1
  /\ \A u \in People : Peer(u) \in People /\ Peer(u) # u /\ Peer(Peer(u)) = u
                       /\ \A v \in People : v = u \/ v = Peer(u)
  BY DEF People, Peer

(* Nothing under way is of its type. *)
LEMMA NothingTyped ==
  /\ NoCreation \in Creations /\ NoScan \in Scans /\ NoDm \in MaybeDm
  /\ NoCreation.pc = "idle" /\ ~NoScan.on /\ NoScan.dm = NoDm /\ NoScan.mine = NoDm
  /\ NoScan.todo = {} /\ NoScan.known = {}
  BY DEF NoCreation, NoScan, Creations, Scans, MaybeDm

(* To begin with there is nothing. *)
LEMMA InitDms == DmsInit => DmsInv
<1> SUFFICES ASSUME DmsInit PROVE DmsInv
  OBVIOUS
<1>1. DmsTypeOK
  BY NothingTyped DEF DmsInit, DmsTypeOK
<1>2. ASSUME NEW u \in People PROVE Turn(u)
  BY PeersFacts, NothingTyped DEF DmsInit, Turn, Invited, TurnCreating, TurnMapped, TurnScanning
<1>3. Creating
  BY NothingTyped DEF DmsInit, Creating
<1> QED
  BY <1>1, <1>2, <1>3 DEF DmsInv

(* What a step of one person leaves to the other. *)
OwnKept(v) ==
    /\ dms'[v] = dms[v] /\ listing'[v] = listing[v] /\ create'[v] = create[v]
    /\ scan'[v] = scan[v] /\ heal'[v] = heal[v]

LEMMA PeerKept ==
  ASSUME NEW v \in People, Turn(v), OwnKept(v), inbox'[Peer(v)] = inbox[Peer(v)],
         inbox[v] \subseteq inbox'[v],
         Invited(v)'
  PROVE  Turn(v)'
<1>1. TurnCreating(v)'
  BY DEF Turn, TurnCreating, OwnKept
<1>2. TurnMapped(v)'
  BY DEF Turn, TurnMapped, OwnKept
<1>3. TurnScanning(v)'
  BY DEF Turn, TurnScanning, OwnKept
<1> QED
  BY <1>1, <1>2, <1>3 DEF Turn

(* The types, step by step. *)
LEMMA DmsTyped ==
  ASSUME DmsTypeOK, Creating, [DmsNext]_mvars
  PROVE  DmsTypeOK' /\ Creating'
<1> USE DEF DmsTypeOK
<1>0. CASE UNCHANGED mvars
  BY <1>0 DEF mvars, Creating
<1>1. ASSUME NEW u \in People,
             Moves(u), mishaps' = mishaps \cup Overlap(create'[u], scan'[u], heal'[u])
      PROVE  DmsTypeOK' /\ Creating'
  <2>0. mishaps' \subseteq {"failure", "overlap"}
    BY <1>1 DEF Overlap
  <2>00. Peer(u) \in People /\ create[u] \in Creations /\ scan[u] \in Scans
    BY PeersFacts
  <2> DEFINE rest == /\ dms' \in [People -> MaybeDm]
                     /\ listing' \in [People -> SUBSET DmSpaces] /\ inbox' \in [People -> SUBSET DmSpaces]
                     /\ create' \in [People -> Creations] /\ Creating'
                     /\ scan' \in [People -> Scans]
                     /\ heal' \in [People -> MaybeDm]
  <2>1. ASSUME NEW d \in DmSpaces, NEW via \in {"carrier", "inbox"}, Create(u, d, via) PROVE rest
    <3>1. /\ [pc |-> "made", dm |-> d, via |-> via] \in Creations
          /\ [pc |-> "made", dm |-> d, via |-> via].dm = d
      BY DEF Creations, MaybeDm
    <3> QED
      BY <2>1, <3>1 DEF Create, Creating
  <2>2. ASSUME NEW d \in DmSpaces, SkipInvite(u, d) PROVE rest
    <3>1. [scan[u] EXCEPT !.todo = @ \ {d}] \in Scans
      BY <2>00 DEF Scans
    <3> QED
      BY <2>2, <3>1 DEF SkipInvite, Creating
  <2>3. ASSUME NEW d \in DmSpaces, acceptSpaceInvite(u, d) PROVE rest
    <3>1. [scan[u] EXCEPT !.todo = @ \ {d}, !.dm = IF scan[u].mine = d THEN NoDm ELSE d] \in Scans
      BY <2>00 DEF Scans, MaybeDm
    <3>2. scan' = [scan EXCEPT ![u] = [scan[u] EXCEPT !.todo = @ \ {d}, !.dm = IF scan[u].mine = d THEN NoDm ELSE d]]
      BY <2>3 DEF acceptSpaceInvite
    <3> QED
      BY <2>3, <3>1, <3>2 DEF acceptSpaceInvite, List, Creating
  <2>4. ASSUME NEW d \in DmSpaces, healDmMap(u, d) PROVE rest
    BY <2>4 DEF healDmMap, MaybeDm, Creating
  <2>5. ASSUME ListFirst(u) \/ MapThen(u) \/ DeliverLast(u) \/ DeliverFirst(u) \/ ListThen(u) \/ MapLast(u)
        PROVE  rest
    <3> DEFINE d == create[u].dm
    <3>1. create[u].pc # "idle" /\ d \in DmSpaces
      BY <2>5 DEF ListFirst, MapThen, DeliverLast, DeliverFirst, ListThen, MapLast, Creating
    <3>2. create' \in [People -> Creations] /\ Creating'
      <4>1. ASSUME NEW pc \in {"listed", "mapped", "sent", "filed"}, Stage(u, pc)
            PROVE  create' \in [People -> Creations] /\ Creating'
        <5>1. [create[u] EXCEPT !.pc = pc] \in Creations /\ [create[u] EXCEPT !.pc = pc].dm = d
          BY <2>00 DEF Creations
        <5>2. create' = [create EXCEPT ![u] = [create[u] EXCEPT !.pc = pc]]
          BY <4>1 DEF Stage
        <5> HIDE DEF d
        <5> QED
          BY <3>1, <5>1, <5>2 DEF Creating
      <4>2. ASSUME create' = [create EXCEPT ![u] = NoCreation]
            PROVE  create' \in [People -> Creations] /\ Creating'
        BY <4>2, NothingTyped DEF Creating
      <4> QED
        BY <2>5, <4>1, <4>2 DEF ListFirst, MapThen, DeliverLast, DeliverFirst, ListThen, MapLast
    <3>3. dms' \in [People -> MaybeDm]
      BY <2>5, <3>1 DEF ListFirst, MapThen, DeliverLast, DeliverFirst, ListThen, MapLast, Map, MaybeDm
    <3>4. listing' \in [People -> SUBSET DmSpaces] /\ inbox' \in [People -> SUBSET DmSpaces]
      <4> HIDE DEF d
      <4>1. List(u, d) => listing' \in [People -> SUBSET DmSpaces]
        BY <3>1 DEF List
      <4>2. Deliver(u, d) => inbox' \in [People -> SUBSET DmSpaces]
        BY <2>00, <3>1 DEF Deliver
      <4> QED
        BY <2>5, <4>1, <4>2 DEF ListFirst, MapThen, DeliverLast, DeliverFirst, ListThen, MapLast, d
    <3>5. UNCHANGED <<scan, heal>>
      BY <2>5 DEF ListFirst, MapThen, DeliverLast, DeliverFirst, ListThen, MapLast
    <3> QED
      BY <3>2, <3>3, <3>4, <3>5
  <2>6. ASSUME reconcileDmInbox(u) PROVE rest
    <3>1. [NoScan EXCEPT !.on = TRUE, !.mine = dms[u], !.known = Accepted(u) \cup ({dms[u]} \cap DmSpaces)] \in Scans
      BY DEF Scans, NoScan, Accepted, MaybeDm
    <3> QED
      BY <2>6, <3>1 DEF reconcileDmInbox, Creating
  <2>7. ASSUME scanDmInbox(u) PROVE rest
    <3>1. [scan[u] EXCEPT !.todo = inbox[u] \ scan[u].known] \in Scans
      BY <2>00 DEF Scans
    <3> QED
      BY <2>7, <3>1 DEF scanDmInbox, Creating
  <2>8. ASSUME MapAccepted(u) PROVE rest
    <3>1. scan[u].dm \in DmSpaces
      BY <2>00, <2>8 DEF MapAccepted, Scans, MaybeDm
    <3>2. [scan[u] EXCEPT !.mine = scan[u].dm, !.known = @ \cup {scan[u].dm}, !.dm = NoDm] \in Scans
      BY <2>00, <3>1 DEF Scans, MaybeDm
    <3>3. scan' = [scan EXCEPT ![u] = [scan[u] EXCEPT !.mine = scan[u].dm, !.known = @ \cup {scan[u].dm}, !.dm = NoDm]]
      BY <2>8 DEF MapAccepted
    <3> QED
      BY <2>8, <3>1, <3>2, <3>3 DEF MapAccepted, Map, MaybeDm, Creating
  <2>9. ASSUME ReconcileDone(u) PROVE rest
    BY <2>9, NothingTyped DEF ReconcileDone, Creating
  <2>10. ASSUME Healed(u) PROVE rest
    BY <2>10, NothingTyped DEF Healed, Map, Creating
  <2> QED
    BY <1>1, <2>0, <2>1, <2>2, <2>3, <2>4, <2>5, <2>6, <2>7, <2>8, <2>9, <2>10 DEF Moves
<1>2. ASSUME NEW u \in People, Stops(u), mishaps' = mishaps \cup {"failure"}
      PROVE  DmsTypeOK' /\ Creating'
  BY <1>2, NothingTyped DEF Stops, Creating
<1> QED
  BY <1>0, <1>1, <1>2 DEF DmsNext

(* A step of u that delivers nothing needs to be looked at for u alone. *)
LEMMA TurnsKept ==
  ASSUME NEW u \in People, \A v \in People : Turn(v), OwnKept(Peer(u)), UNCHANGED inbox,
         TurnCreating(u)', TurnMapped(u)', TurnScanning(u)'
  PROVE  \A v \in People : Turn(v)'
<1>1. Invited(u)' /\ Invited(Peer(u))'
  BY PeersFacts DEF Turn, Invited
<1>2. Turn(Peer(u))'
  BY <1>1, PeersFacts, PeerKept
<1> QED
  BY <1>1, <1>2, PeersFacts DEF Turn

(* A step of u in the course of a creation. *)
LEMMA CreationGoesOn ==
  ASSUME DmsTypeOK, Creating, NEW u \in People, \A v \in People : Turn(v),
         \/ ListFirst(u) \/ MapThen(u) \/ DeliverLast(u)
         \/ DeliverFirst(u) \/ ListThen(u) \/ MapLast(u)
  PROVE  \A v \in People : Turn(v)'
<1> DEFINE d == create[u].dm
<1> DEFINE v == Peer(u)
<1>1. /\ v \in People /\ v # u /\ Peer(v) = u /\ create[u] \in Creations
      /\ create[u] # NoCreation /\ d \in DmSpaces /\ d.owner = u
  BY PeersFacts, NothingTyped
  DEF DmsTypeOK, ListFirst, MapThen, DeliverLast, DeliverFirst, ListThen, MapLast, Turn, TurnCreating
<1>2. /\ scan[u] = NoScan /\ heal[u] = NoDm
      /\ dms[u] = IF create[u].pc = "mapped" THEN d ELSE NoDm
      /\ listing[u] = IF create[u].pc \in {"listed", "mapped", "filed"} THEN {d} ELSE {}
      /\ inbox[v] = IF create[u].pc \in {"sent", "filed"} THEN {d} ELSE {}
  BY <1>1 DEF Turn, TurnCreating
<1> HIDE DEF v, d
<1>3. UNCHANGED <<scan, heal>>
  BY DEF ListFirst, MapThen, DeliverLast, DeliverFirst, ListThen, MapLast
<1>4. OwnKept(v)
  BY <1>1, <1>3 DEF ListFirst, MapThen, DeliverLast, DeliverFirst, ListThen, MapLast,
       Map, List, Stage, OwnKept, DmsTypeOK
<1>5. inbox'[u] = inbox[u] /\ inbox'[v] \in {inbox[v], {d}}
  BY <1>1, <1>2 DEF ListFirst, MapThen, DeliverLast, DeliverFirst, ListThen, MapLast, Deliver, d, v, DmsTypeOK
<1>6. inbox[v] \subseteq inbox'[v]
  BY <1>2, <1>5
<1>7. Invited(u)' /\ Invited(v)'
  BY <1>1, <1>5 DEF Turn, Invited
<1>8. Turn(v)'
  BY <1>1, <1>4, <1>5, <1>6, <1>7, PeerKept
<1>9. TurnScanning(u)'
  <2>1. scan'[u] = NoScan /\ heal'[u] = NoDm
    BY <1>2, <1>3
  <2> QED
    BY <2>1, NothingTyped DEF TurnScanning
<1>10. TurnCreating(u)' /\ TurnMapped(u)'
  <2>1. CASE \/ ListFirst(u) \/ MapThen(u) \/ DeliverFirst(u) \/ ListThen(u)
    <3>1. ASSUME NEW pc \in {"listed", "mapped", "sent", "filed"}, Stage(u, pc)
          PROVE  create'[u].pc = pc /\ create'[u].dm = d /\ create'[u] # NoCreation
      BY <1>1, <3>1, NothingTyped DEF Stage, Creations, d, DmsTypeOK
    <3>2. TurnCreating(u)'
      <4>1. CASE ListFirst(u)
        <5>1. create[u].pc = "made" /\ create'[u].pc = "listed" /\ create'[u].dm = d /\ create'[u] # NoCreation
          BY <3>1, <4>1 DEF ListFirst
        <5>2. dms'[u] = NoDm /\ listing'[u] = {d} /\ inbox'[v] = {}
          BY <1>2, <4>1, <5>1 DEF ListFirst, List, DmsTypeOK, d
        <5> QED
          BY <1>1, <1>2, <1>3, <5>1, <5>2 DEF TurnCreating, v
      <4>2. CASE MapThen(u)
        <5>1. create[u].pc = "listed" /\ create'[u].pc = "mapped" /\ create'[u].dm = d /\ create'[u] # NoCreation
          BY <3>1, <4>2 DEF MapThen
        <5>2. dms'[u] = d /\ listing'[u] = {d} /\ inbox'[v] = {}
          BY <1>2, <4>2, <5>1 DEF MapThen, Map, DmsTypeOK, d
        <5> QED
          BY <1>1, <1>2, <1>3, <5>1, <5>2 DEF TurnCreating, v
      <4>3. CASE DeliverFirst(u)
        <5>1. create[u].pc = "made" /\ create'[u].pc = "sent" /\ create'[u].dm = d /\ create'[u] # NoCreation
          BY <3>1, <4>3 DEF DeliverFirst
        <5>2. dms'[u] = NoDm /\ listing'[u] = {} /\ inbox'[v] = {d}
          BY <1>1, <1>2, <4>3, <5>1 DEF DeliverFirst, Deliver, DmsTypeOK, d, v
        <5> QED
          BY <1>1, <1>2, <1>3, <5>1, <5>2 DEF TurnCreating, v
      <4>4. CASE ListThen(u)
        <5>1. create[u].pc = "sent" /\ create'[u].pc = "filed" /\ create'[u].dm = d /\ create'[u] # NoCreation
          BY <3>1, <4>4 DEF ListThen
        <5>2. dms'[u] = NoDm /\ listing'[u] = {d} /\ inbox'[v] = {d}
          BY <1>2, <4>4, <5>1 DEF ListThen, List, DmsTypeOK, d
        <5> QED
          BY <1>1, <1>2, <1>3, <5>1, <5>2 DEF TurnCreating, v
      <4> QED
        BY <2>1, <4>1, <4>2, <4>3, <4>4
    <3>3. create'[u] # NoCreation
      BY <2>1, <3>1 DEF ListFirst, MapThen, DeliverFirst, ListThen
    <3> QED
      BY <3>2, <3>3 DEF TurnMapped
  <2>2. CASE DeliverLast(u) \/ MapLast(u)
    <3>1. create'[u] = NoCreation
      BY <2>2 DEF DeliverLast, MapLast, DmsTypeOK
    <3>2. dms'[u] = d /\ listing'[u] = {d} /\ inbox'[v] = {d}
      BY <1>1, <1>2, <2>2 DEF DeliverLast, MapLast, Deliver, Map, DmsTypeOK, d, v
    <3> QED
      BY <1>1, DmsConstantsOK, <3>1, <3>2 DEF TurnCreating, TurnMapped, v
  <2> QED
    BY <2>1, <2>2
<1> QED
  BY <1>1, <1>7, <1>8, <1>9, <1>10, PeersFacts DEF Turn, v

(* A step of u's reconcile or heal, or the beginning of a creation. *)
LEMMA OtherMoves ==
  ASSUME DmsTypeOK, Creating, NEW u \in People, \A v \in People : Turn(v),
         create'[u] = NoCreation \/ (~scan'[u].on /\ heal'[u] = NoDm),
         \/ \E d \in DmSpaces : \/ \E via \in {"carrier", "inbox"} : Create(u, d, via)
                                \/ SkipInvite(u, d) \/ acceptSpaceInvite(u, d) \/ healDmMap(u, d)
         \/ reconcileDmInbox(u) \/ scanDmInbox(u) \/ MapAccepted(u) \/ ReconcileDone(u) \/ Healed(u)
  PROVE  \A v \in People : Turn(v)'
<1>0. /\ Peer(u) \in People /\ Peer(u) # u /\ Peer(Peer(u)) = u
      /\ create[u] \in Creations /\ scan[u] \in Scans /\ dms[u] \in MaybeDm
  BY PeersFacts DEF DmsTypeOK
<1>1. OwnKept(Peer(u)) /\ UNCHANGED inbox
  BY <1>0 DEF Create, SkipInvite, acceptSpaceInvite, healDmMap, reconcileDmInbox, scanDmInbox, MapAccepted,
       ReconcileDone, Healed, Map, List, OwnKept, DmsTypeOK
<1>2. Invited(u) /\ TurnCreating(u) /\ TurnMapped(u) /\ TurnScanning(u) /\ Invited(Peer(u))
  BY <1>0 DEF Turn
<1>3. SUFFICES TurnCreating(u)' /\ TurnMapped(u)' /\ TurnScanning(u)'
  BY <1>1, TurnsKept
<1>4. ASSUME NEW d \in DmSpaces, NEW via \in {"carrier", "inbox"}, Create(u, d, via)
      PROVE  TurnCreating(u)' /\ TurnMapped(u)' /\ TurnScanning(u)'
  <2>1. /\ create[u] = NoCreation /\ dms[u] = NoDm /\ d.owner = u
        /\ create'[u] = [pc |-> "made", dm |-> d, via |-> via]
        /\ UNCHANGED <<dms, listing, inbox, scan, heal>>
    BY <1>2, <1>4 DEF Create, TurnCreating, DmsTypeOK
  <2>2. create'[u] # NoCreation /\ create'[u].pc = "made" /\ create'[u].dm = d
    BY <2>1, NothingTyped
  <2>3. scan[u] = NoScan /\ heal[u] = NoDm
    BY <1>2, <2>1, <2>2 DEF TurnScanning
  <2>4. inbox[Peer(u)] = {} /\ listing[u] = {}
    <3>1. inbox[Peer(u)] = {}
      BY <1>2, <2>1 DEF TurnMapped
    <3>2. ASSUME NEW e \in listing[u] PROVE FALSE
      <4>1. e \in inbox[u] /\ e \in {NoDm}
        BY <1>2, <2>1, <2>3, <3>1, <3>2, NothingTyped DEF TurnMapped
      <4> QED
        BY <1>0, <4>1, DmsConstantsOK DEF DmsTypeOK
    <3> QED
      BY <3>1, <3>2
  <2> QED
    BY <1>2, <2>1, <2>2, <2>3, <2>4 DEF TurnCreating, TurnMapped, TurnScanning
<1>5. ASSUME NEW d \in DmSpaces, SkipInvite(u, d)
      PROVE  TurnCreating(u)' /\ TurnMapped(u)' /\ TurnScanning(u)'
  <2>1. /\ create[u] = NoCreation /\ scan[u].on /\ scan[u].dm = NoDm
        /\ scan' = [scan EXCEPT ![u] = [scan[u] EXCEPT !.todo = @ \ {d}]]
        /\ UNCHANGED <<dms, listing, inbox, create, heal>>
    BY <1>2, <1>5, NothingTyped DEF SkipInvite, TurnCreating, TurnScanning
  <2>2. /\ scan'[u].on /\ scan'[u].dm = NoDm /\ scan'[u].mine = scan[u].mine
        /\ scan'[u].todo \subseteq scan[u].todo
    BY <1>0, <2>1 DEF Scans, DmsTypeOK
  <2> QED
    BY <1>2, <2>1, <2>2 DEF TurnCreating, TurnMapped, TurnScanning
<1>6. ASSUME NEW d \in DmSpaces, acceptSpaceInvite(u, d)
      PROVE  TurnCreating(u)' /\ TurnMapped(u)' /\ TurnScanning(u)'
  <2>1. /\ create[u] = NoCreation /\ scan[u].on /\ scan[u].dm = NoDm /\ d \in scan[u].todo
        /\ dmWinner(u, scan[u].mine, d) = d
        /\ UNCHANGED <<dms, inbox, create, heal>>
        /\ listing'[u] = listing[u] \cup {d}
    BY <1>2, <1>6, NothingTyped DEF acceptSpaceInvite, TurnCreating, TurnScanning, List, DmsTypeOK
  <2>2. /\ scan'[u].on /\ scan'[u].dm = IF scan[u].mine = d THEN NoDm ELSE d
        /\ scan'[u].mine = scan[u].mine /\ scan'[u].todo \subseteq scan[u].todo
    <3>1. scan' = [scan EXCEPT ![u] = [scan[u] EXCEPT !.todo = @ \ {d}, !.dm = IF scan[u].mine = d THEN NoDm ELSE d]]
      BY <1>6 DEF acceptSpaceInvite
    <3> QED
      BY <1>0, <2>1, <3>1 DEF Scans, DmsTypeOK
  <2>3. d \in inbox[u] /\ NoDm \notin inbox[u]
    BY <1>2, <2>1, DmsConstantsOK DEF TurnScanning, DmsTypeOK
  <2>4. u = 1 => scan[u].mine \in {NoDm, d}
    BY <2>1, PeersFacts DEF dmWinner
  <2>5. dms[u] = scan[u].mine
    BY <1>2, <2>1 DEF TurnScanning
  <2>6. TurnMapped(u)'
    BY <1>2, <2>1, <2>2, <2>3, <2>5 DEF TurnMapped
  <2>7. TurnScanning(u)'
    BY <1>2, <2>1, <2>2, <2>3, <2>4, <2>5 DEF TurnScanning
  <2> QED
    BY <2>1, <2>6, <2>7 DEF TurnCreating
<1>7. ASSUME NEW d \in DmSpaces, healDmMap(u, d)
      PROVE  TurnCreating(u)' /\ TurnMapped(u)' /\ TurnScanning(u)'
  <2>1. /\ dms[u] = NoDm /\ d \in listing[u] /\ heal'[u] = d /\ d # NoDm
        /\ UNCHANGED <<dms, listing, inbox, create, scan>>
    BY <1>7, DmsConstantsOK DEF healDmMap, DmsTypeOK
  <2>2. create[u] = NoCreation
    BY <2>1
  <2>3. d \in inbox[u] /\ d \in {dms[u], scan[u].dm}
    BY <1>2, <2>1, <2>2 DEF TurnMapped
  <2> QED
    BY <1>2, <2>1, <2>2, <2>3 DEF TurnCreating, TurnMapped, TurnScanning
<1>8. CASE reconcileDmInbox(u)
  <2>1. /\ scan[u] = NoScan /\ UNCHANGED <<dms, listing, inbox, create, heal>>
        /\ scan'[u].on /\ scan'[u].mine = dms[u] /\ scan'[u].todo = {} /\ scan'[u].dm = NoDm
    BY <1>2, <1>8 DEF reconcileDmInbox, TurnScanning, NoScan, DmsTypeOK
  <2>2. create[u] = NoCreation
    BY <2>1
  <2> QED
    BY <1>2, <2>1, <2>2, NothingTyped DEF TurnCreating, TurnMapped, TurnScanning
<1>9. CASE scanDmInbox(u)
  <2>1. /\ scan[u].on /\ scan[u].todo = {} /\ scan[u].dm = NoDm /\ UNCHANGED <<dms, listing, inbox, create, heal>>
        /\ scan' = [scan EXCEPT ![u] = [scan[u] EXCEPT !.todo = inbox[u] \ scan[u].known]]
    BY <1>9 DEF scanDmInbox, Between
  <2>2. /\ scan'[u].on /\ scan'[u].dm = NoDm /\ scan'[u].mine = scan[u].mine
        /\ scan'[u].todo \subseteq inbox[u]
    BY <1>0, <2>1 DEF Scans, DmsTypeOK
  <2>3. create[u] = NoCreation
    BY <2>1, <2>2
  <2> QED
    BY <1>2, <2>1, <2>2, <2>3 DEF TurnCreating, TurnMapped, TurnScanning
<1>10. CASE MapAccepted(u)
  <2> DEFINE d == scan[u].dm
  <2>1. /\ scan[u].on /\ d # NoDm /\ create[u] = NoCreation
        /\ UNCHANGED <<listing, inbox, create, heal>> /\ dms'[u] = d
        /\ d \in inbox[u] \cap listing[u] /\ dms[u] \in {scan[u].mine, d}
        /\ u = 1 => scan[u].mine = NoDm
    BY <1>2, <1>10, NothingTyped DEF MapAccepted, Map, TurnCreating, TurnScanning, DmsTypeOK
  <2>2. /\ scan'[u].on /\ scan'[u].dm = NoDm /\ scan'[u].mine = d /\ scan'[u].todo = scan[u].todo
    <3>1. scan' = [scan EXCEPT ![u] = [scan[u] EXCEPT !.mine = d, !.known = @ \cup {d}, !.dm = NoDm]]
      BY <1>10 DEF MapAccepted
    <3> HIDE DEF d
    <3> QED
      BY <1>0, <2>1, <3>1 DEF Scans, DmsTypeOK
  <2>3. u = 1 => inbox[Peer(u)] = {}
    <3>1. ASSUME u = 1, inbox[Peer(u)] # {} PROVE FALSE
      <4>1. dms[u] # NoDm /\ dms[u] \in inbox[Peer(u)]
        BY <1>2, <2>1, <3>1 DEF TurnMapped
      <4>2. dms[u] = d
        BY <2>1, <3>1, <4>1
      <4>3. d.owner = Peer(u) /\ d.owner = Peer(Peer(u))
        BY <1>2, <2>1, <4>1, <4>2 DEF Invited
      <4> QED
        BY <1>0, <4>3
    <3> QED
      BY <3>1
  <2>4. TurnMapped(u)'
    <3> SUFFICES ASSUME NEW e \in listing[u]
                 PROVE  e \in inbox[Peer(u)] \/ (e \in inbox[u] /\ e = d)
      BY <2>1, <2>2, <2>3 DEF TurnMapped
    <3> QED
      BY <1>2, <2>1 DEF TurnMapped, Invited
  <2>5. TurnScanning(u)'
    <3>1. heal[u] # NoDm => heal[u] = d
      BY <1>2, <2>1 DEF TurnScanning, Invited
    <3> HIDE DEF d
    <3> QED
      BY <1>2, <2>1, <2>2, <3>1 DEF TurnScanning
  <2> QED
    BY <2>1, <2>4, <2>5 DEF TurnCreating
<1>11. CASE ReconcileDone(u)
  <2>1. /\ scan[u].on /\ scan[u].dm = NoDm /\ create[u] = NoCreation /\ scan'[u] = NoScan
        /\ UNCHANGED <<dms, listing, inbox, create, heal>>
    BY <1>2, <1>11, NothingTyped DEF ReconcileDone, Between, TurnCreating, DmsTypeOK
  <2> QED
    BY <1>2, <2>1, NothingTyped DEF TurnCreating, TurnMapped, TurnScanning
<1>12. CASE Healed(u)
  <2> DEFINE d == heal[u]
  <2>1. /\ d # NoDm /\ create[u] = NoCreation /\ dms'[u] = d /\ heal'[u] = NoDm
        /\ UNCHANGED <<listing, inbox, create, scan>>
        /\ d \in inbox[u] /\ d \in {dms[u], scan[u].dm}
    BY <1>2, <1>12 DEF Healed, Map, TurnCreating, TurnScanning, DmsTypeOK
  <2>2. CASE d = dms[u]
    BY <1>2, <2>1, <2>2 DEF TurnCreating, TurnMapped, TurnScanning
  <2>3. CASE d = scan[u].dm /\ d # dms[u]
    <3>1. u = 1 => scan[u].mine = NoDm
      BY <1>2, <2>1, <2>3 DEF TurnScanning
    <3>2. dms[u] = scan[u].mine
      BY <1>2, <2>1, <2>3 DEF TurnScanning
    <3>3. u = 1 => inbox[Peer(u)] = {}
      BY <1>2, <2>1, <3>1, <3>2 DEF TurnMapped
    <3>4. TurnMapped(u)'
      <4> SUFFICES ASSUME NEW e \in listing[u]
                   PROVE  e \in inbox[Peer(u)] \/ (e \in inbox[u] /\ e = d)
        BY <2>1, <3>3 DEF TurnMapped
      <4> QED
        BY <1>2, <2>1 DEF TurnMapped, Invited
    <3>5. TurnScanning(u)'
      BY <1>2, <2>1, <2>3, <3>1 DEF TurnScanning
    <3> QED
      BY <2>1, <3>4, <3>5 DEF TurnCreating
  <2> QED
    BY <2>1, <2>2, <2>3
<1> QED
  BY <1>4, <1>5, <1>6, <1>7, <1>8, <1>9, <1>10, <1>11, <1>12

LEMMA NextDms == DmsInv /\ [DmsNext]_mvars => DmsInv'
<1> SUFFICES ASSUME DmsInv, [DmsNext]_mvars PROVE DmsInv'
  OBVIOUS
<1>1. DmsTypeOK' /\ Creating'
  BY DmsTyped DEF DmsInv
<1>2. ASSUME mishaps' = {} PROVE \A v \in People : Turn(v)'
  <2>1. CASE UNCHANGED mvars
    BY <1>2, <2>1 DEF mvars, DmsInv, Turn, Invited, TurnCreating, TurnMapped, TurnScanning
  <2>2. ASSUME NEW u \in People,
               Moves(u), mishaps' = mishaps \cup Overlap(create'[u], scan'[u], heal'[u])
        PROVE  \A v \in People : Turn(v)'
    <3>1. \A v \in People : Turn(v)
      BY <1>2, <2>2 DEF DmsInv
    <3>2. create'[u] = NoCreation \/ (~scan'[u].on /\ heal'[u] = NoDm)
      BY <1>2, <2>2 DEF Overlap
    <3> QED
      BY <2>2, <3>1, <3>2, CreationGoesOn, OtherMoves DEF Moves, DmsInv
  <2>3. ASSUME mishaps' = mishaps \cup {"failure"} PROVE FALSE
    BY <1>2, <2>3
  <2> QED
    BY <2>1, <2>2, <2>3 DEF DmsNext
<1> QED
  BY <1>1, <1>2 DEF DmsInv

LEMMA DmsInvariant == DmsSpec => []DmsInv
  BY InitDms, NextDms, PTL DEF DmsSpec

(* If nothing failed and nobody's creation overlapped with his own reconcile or heal,
   two people who are done with all their invites are in the same room
   (dm-ids.ts:24), whichever of them created spaces, through whichever channel. *)
THEOREM SameRoomWhenInTurn == DmsSpec => []SameRoomInTurn
<1>1. DmsInv => SameRoomInTurn
  <2> SUFFICES ASSUME DmsInv, Settled, mishaps = {} PROVE dms[1] = dms[2]
    BY DEF SameRoomInTurn
  <2>1. /\ \A u \in People : Turn(u) /\ create[u] = NoCreation /\ scan[u] = NoScan
        /\ \A u \in People : \A d \in listing[u] : d \in inbox[Peer(u)] \/ (d \in inbox[u] /\ d \in {dms[u], NoDm})
    BY NothingTyped DEF DmsInv, Settled, Turn, TurnMapped, TurnScanning
  <2>2. \A u \in People : inbox[u] \subseteq DmSpaces /\ NoDm \notin inbox[u]
    BY DmsConstantsOK DEF DmsInv, DmsTypeOK
  <2>3. /\ dms[1] \in {NoDm} \cup inbox[1] \cup inbox[2] /\ dms[2] \in {NoDm} \cup inbox[1] \cup inbox[2]
        /\ inbox[2] # {} => dms[1] \in inbox[2]
        /\ inbox[1] # {} => dms[2] # NoDm
    BY <2>1, PeersFacts DEF Turn, TurnMapped
  <2>4. /\ \A d, e \in inbox[1] : d = e /\ d.owner = 2
        /\ \A d, e \in inbox[2] : d = e /\ d.owner = 1
    BY <2>1, PeersFacts DEF Turn, Invited
  <2>5. CASE inbox[2] # {}
    <3>1. PICK d \in inbox[2] : dms[1] = d
      BY <2>3, <2>5
    <3>2. dmWinner(2, dms[2], d) = d
      BY PeersFacts DEF dmWinner
    <3>3. d \in Accepted(2) \cup {dms[2]}
      BY <3>1, <3>2, PeersFacts DEF Settled
    <3>4. d \in Accepted(2) => d = dms[2]
      <4>1. d \notin inbox[1]
        BY <2>4, <3>1
      <4> QED
        BY <2>1, <2>2, <3>1, <4>1, PeersFacts DEF Accepted
    <3> QED
      BY <3>1, <3>3, <3>4
  <2>6. CASE inbox[2] = {} /\ inbox[1] # {}
    <3>1. PICK d \in inbox[1] : dms[2] = d
      BY <2>3, <2>6
    <3>2. dms[1] # NoDm
      <4> SUFFICES ASSUME dms[1] = NoDm PROVE FALSE
        OBVIOUS
      <4>1. listing[1] = {} /\ dmWinner(1, dms[1], d) = d
        BY PeersFacts DEF Settled, dmWinner
      <4>2. d \in Accepted(1) \cup {dms[1]}
        BY <3>1, <4>1, PeersFacts DEF Settled
      <4> QED
        BY <2>2, <3>1, <4>1, <4>2, PeersFacts DEF Accepted
    <3> QED
      BY <2>3, <2>4, <2>6, <3>1, <3>2
  <2>7. CASE inbox[2] = {} /\ inbox[1] = {}
    BY <2>3, <2>7
  <2> QED
    BY <2>5, <2>6, <2>7
<1> QED
  BY <1>1, DmsInvariant, PTL

(* Type correctness of the direct messages, failures included. *)
THEOREM DmsTypes == DmsSpec => []DmsTypeOK
<1>1. DmsInv => DmsTypeOK
  BY DEF DmsInv
<1> QED
  BY <1>1, DmsInvariant, PTL
=============================================================================
