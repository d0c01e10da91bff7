---------------------------- MODULE ServerProofs ----------------------------
(***************************************************************************)
(* Proofs about the server: the revocation store, the stream of change     *)
(* events over it, the webhooks of a space and the directory, for any      *)
(* number of issuers, callers, spaces, devices and requests, and for       *)
(* generations, caps and lists of candidates of any size.                  *)
(***************************************************************************)
EXTENDS LiveEvents, Webhooks, Directory, FiniteSetTheorems, TLAPS

----------------------------------------------------------------------------
(* The revocation store.  What is kept for the next write is what is in force,
   so that no write loses a list of another issuer. *)

RevocationInv ==
    /\ RevocationTypeOK
    /\ lists = enforced
    /\ \A i \in Issuers : owed[i] <= file[i] /\ (up = TRUE => owed[i] <= enforced[i])

LEMMA InitRevocation == RevocationInit => RevocationInv
PROOF
  BY RevocationConstantsOK DEF RevocationInit, RevocationInv, RevocationTypeOK, Ledger, NoLists

(* A list that is taken keeps a ledger a ledger. *)
LEMMA LedgerTakes ==
  ASSUME NEW f \in Ledger, NEW i \in Issuers, NEW g \in 1..MaxGeneration
  PROVE  [f EXCEPT ![i] = g] \in Ledger
PROOF
  BY RevocationConstantsOK DEF Ledger

LEMMA NextRevocation == RevocationInv /\ [RevocationNext]_rvars => RevocationInv'
PROOF
  <1> SUFFICES ASSUME RevocationInv, [RevocationNext]_rvars
               PROVE  RevocationInv'
    OBVIOUS
  <1> USE RevocationConstantsOK
  <1>0. /\ enforced \in Ledger /\ lists \in Ledger /\ file \in Ledger /\ owed \in Ledger
        /\ NoLists \in Ledger /\ up \in BOOLEAN
    BY DEF RevocationInv, RevocationTypeOK, NoLists, Ledger
  <1>1. CASE UNCHANGED rvars
    BY <1>1 DEF RevocationInv, RevocationTypeOK, rvars
  <1>2. ASSUME NEW i \in Issuers, NEW g \in 1..MaxGeneration, acceptList(i, g)
        PROVE  RevocationInv'
    <2>1. enforced' \in Ledger /\ lists' = enforced'
      BY <1>0, <1>2, LedgerTakes DEF acceptList, Kept, RevocationInv
    <2>2. enforced[i] <= enforced'[i] /\ \A j \in Issuers \ {i} : enforced'[j] = enforced[j]
      BY <1>0, <1>2 DEF acceptList, Accepts, Ledger
    <2>3. CASE file' = Serialized(Kept(i, g), i) /\ owed' = [enforced EXCEPT ![i] = g]
      <3>1. file' = enforced' /\ owed' = enforced'
        BY <1>2, <2>1, <2>3 DEF acceptList, Serialized
      <3>2. QED
        BY <1>0, <1>2, <2>1, <3>1 DEF acceptList, RevocationInv, RevocationTypeOK, Ledger
    <2>4. CASE UNCHANGED <<file, owed>>
      <3>1. \A j \in Issuers : enforced[j] <= enforced'[j]
        BY <1>0, <2>2 DEF Ledger
      <3>2. QED
        BY <1>0, <1>2, <2>1, <2>4, <3>1 DEF acceptList, RevocationInv, RevocationTypeOK, Ledger
    <2>5. QED
      BY <1>2, <2>3, <2>4 DEF acceptList
  <1>3. ASSUME NEW i \in Issuers, NEW g \in 1..MaxGeneration, DiesPersisting(i, g)
        PROVE  RevocationInv'
    <2>1. file' \in Ledger /\ owed' = file'
      BY <1>0, <1>3, LedgerTakes DEF DiesPersisting, Serialized, Kept, RevocationInv
    <2>2. up' = FALSE /\ enforced' = NoLists /\ lists' = NoLists
      BY <1>3 DEF DiesPersisting, Dead
    <2>3. RevocationTypeOK'
      BY <1>0, <2>1, <2>2 DEF RevocationTypeOK
    <2>4. \A j \in Issuers : owed'[j] <= file'[j]
      BY <2>1 DEF Ledger
    <2>5. QED
      BY <2>2, <2>3, <2>4 DEF RevocationInv
  <1>4. CASE Dies
    BY <1>0, <1>4 DEF Dies, Dead, RevocationInv, RevocationTypeOK
  <1>5. CASE Boot
    BY <1>0, <1>5 DEF Boot, Replayed, RevocationInv, RevocationTypeOK
  <1>6. CASE BootUnreadable
    BY <1>0, <1>6 DEF BootUnreadable, NoLists, RevocationInv, RevocationTypeOK, Ledger
  <1>7. QED
    BY <1>1, <1>2, <1>3, <1>4, <1>5, <1>6 DEF RevocationNext

(* A running server enforces every list that has reached the file
   (apps/server/src/revocation-store.ts:47). *)
THEOREM RevocationsStay == RevocationSpec => []StaysRevoked
PROOF
  <1>1. RevocationInv => StaysRevoked
    BY DEF RevocationInv, RevocationTypeOK, StaysRevoked
  <1>2. QED
    BY <1>1, InitRevocation, NextRevocation, PTL DEF RevocationSpec

----------------------------------------------------------------------------
(* The stream of change events. *)

(* The candidates whose record takes the caller for a member now. *)
Now(acc, x, c) == {s \in x.asked : Grants(acc, s, c)}

(* While a caller is being checked, its history is up to date with the records;
   what it was always entitled to is granted or still to come. *)
StreamFits(acc, x, c) ==
    /\ x.granted \subseteq x.entitled \cup x.blind
    /\ Cardinality(x.asked) <= MaxSpaces => x.always \subseteq x.granted \cup x.blind \cup x.todo
    /\ x.pc = "checking" => /\ x.todo \subseteq x.asked
                            /\ Now(acc, x, c) \subseteq x.entitled
                            /\ x.always \subseteq Now(acc, x, c)
    /\ x.pc = "open" => x.todo = {} /\ x.topics = Topics(x.granted)

LiveEventsInv ==
    /\ RevocationInv
    /\ LiveEventsTypeOK
    /\ \A c \in Callers : StreamFits(access, stream[c], c)

LEMMA ClosedFits == \A acc, c : Closed \in Streams /\ StreamFits(acc, Closed, c)
PROOF
  BY DEF Closed, Streams, StreamFits

LEMMA InitLiveEvents == LiveEventsInit => LiveEventsInv
PROOF
  <1> SUFFICES ASSUME LiveEventsInit
               PROVE  LiveEventsInv
    OBVIOUS
  <1>1. RevocationInv
    BY InitRevocation DEF LiveEventsInit
  <1>2. QED
    BY <1>1, ClosedFits DEF LiveEventsInit, LiveEventsInv, LiveEventsTypeOK, RevocationInv

(* A step of the connection of c alone: it stays in its type, and the rest is as it was. *)
LEMMA OneStream ==
  ASSUME LiveEventsInv, NEW c \in Callers, NEW x \in Streams, StreamFits(access, x, c),
         stream' = [stream EXCEPT ![c] = x], UNCHANGED <<rvars, access>>
  PROVE  LiveEventsInv'
PROOF
  <1>1. RevocationInv' /\ RevocationTypeOK'
    BY DEF LiveEventsInv, RevocationInv, RevocationTypeOK, rvars
  <1>2. \A d \in Callers : stream'[d] = IF d = c THEN x ELSE stream[d]
    BY DEF LiveEventsInv, LiveEventsTypeOK
  <1>3. stream' \in [Callers -> Streams]
    BY DEF LiveEventsInv, LiveEventsTypeOK
  <1>4. \A d \in Callers : StreamFits(access, stream'[d], d)
    BY <1>2 DEF LiveEventsInv
  <1>5. QED
    BY <1>1, <1>3, <1>4 DEF LiveEventsInv, LiveEventsTypeOK

LEMMA NextLiveEvents == LiveEventsInv /\ [LiveEventsNext]_lvars => LiveEventsInv'
PROOF
  <1> SUFFICES ASSUME LiveEventsInv, [LiveEventsNext]_lvars
               PROVE  LiveEventsInv'
    OBVIOUS
  <1>0. /\ stream \in [Callers -> Streams] /\ access \in [Spaces -> (SUBSET Callers) \cup {Unseen}]
        /\ RevocationInv /\ \A c \in Callers : StreamFits(access, stream[c], c)
    BY DEF LiveEventsInv, LiveEventsTypeOK
  <1>1. CASE UNCHANGED lvars
    <2>1. RevocationInv' /\ RevocationTypeOK'
      BY <1>0, <1>1 DEF RevocationInv, RevocationTypeOK, lvars, rvars
    <2>2. QED
      BY <1>0, <1>1, <2>1 DEF LiveEventsInv, LiveEventsTypeOK, lvars, evars
  <1>2. CASE StoreStep
    <2>1. RevocationNext
      BY <1>2 DEF StoreStep, RevocationNext
    <2>2. RevocationInv'
      BY <1>0, <2>1, NextRevocation
    <2>3. access' = access
      BY <1>2 DEF StoreStep, evars
    <2>4. stream' = stream \/ stream' = [c \in Callers |-> Closed]
      BY <1>2 DEF StoreStep, evars
    <2>5. stream' \in [Callers -> Streams] /\ \A c \in Callers : StreamFits(access, stream'[c], c)
      BY <1>0, <2>4, ClosedFits
    <2>6. QED
      BY <1>0, <2>2, <2>3, <2>5 DEF LiveEventsInv, LiveEventsTypeOK, RevocationInv
  <1>3. ASSUME NEW c \in Callers, NEW asked \in SUBSET Spaces, Connect(c, asked)
        PROVE  LiveEventsInv'
    <2>1. PICK todo \in FirstOf(asked, MaxSpaces) :
             stream' = [stream EXCEPT ![c] =
                [Closed EXCEPT !.pc = "checking", !.asked = asked, !.todo = todo,
                               !.entitled = {s \in asked : Grants(access, s, c)},
                               !.always = {s \in asked : Grants(access, s, c)}]]
      BY <1>3 DEF Connect
    <2> DEFINE x == [Closed EXCEPT !.pc = "checking", !.asked = asked, !.todo = todo,
                                   !.entitled = {s \in asked : Grants(access, s, c)},
                                   !.always = {s \in asked : Grants(access, s, c)}]
    <2>2. todo \subseteq asked /\ (Cardinality(asked) <= MaxSpaces => todo = asked)
      BY DEF FirstOf
    <2>3. x \in Streams /\ StreamFits(access, x, c)
      BY <2>2 DEF Closed, Streams, StreamFits, Now
    <2>4. QED
      BY <1>3, <2>1, <2>3, OneStream DEF Connect
  <1>4. ASSUME NEW c \in Callers, NEW s \in Spaces, CheckSpace(c, s)
        PROVE  LiveEventsInv'
    <2>1. PICK readable \in BOOLEAN : \E roles \in Enricher(access, s, c, readable) :
             stream' = [stream EXCEPT ![c] = Checked(stream[c], s, roles, readable)]
      BY <1>4 DEF CheckSpace
    <2>2. PICK roles \in Enricher(access, s, c, readable) :
             stream' = [stream EXCEPT ![c] = Checked(stream[c], s, roles, readable)]
      BY <2>1
    <2> DEFINE x == Checked(stream[c], s, roles, readable)
    <2>3. stream[c].pc = "checking" /\ s \in stream[c].todo /\ StreamFits(access, stream[c], c)
          /\ UNCHANGED <<rvars, access>>
      BY <1>0, <1>4 DEF CheckSpace
    <2>4. x \in Streams /\ StreamFits(access, x, c)
      <3>1. CASE roles = "throws"
        BY <3>1, ClosedFits DEF Checked
      <3>2. CASE roles # "throws"
        <4>1. x = [stream[c] EXCEPT !.todo = @ \ {s},
                                    !.granted = IF roles = "member" THEN @ \cup {s} ELSE @,
                                    !.blind = IF readable THEN @ ELSE @ \cup {s}]
          BY <3>2 DEF Checked
        <4>2. stream[c] \in Streams
          BY <1>0
        <4>3. readable => (roles = "member" <=> Grants(access, s, c))
          BY DEF Enricher
        <4> HIDE DEF x
        <4>4. /\ x.pc = stream[c].pc /\ x.asked = stream[c].asked /\ x.todo = stream[c].todo \ {s}
              /\ x.granted = IF roles = "member" THEN stream[c].granted \cup {s} ELSE stream[c].granted
              /\ x.entitled = stream[c].entitled /\ x.always = stream[c].always
              /\ x.blind = IF readable THEN stream[c].blind ELSE stream[c].blind \cup {s}
          BY <4>1, <4>2 DEF Streams
        <4>5. x \in Streams
          BY <4>1, <4>2, <2>3 DEF Streams
        <4>6. StreamFits(access, x, c)
          BY <2>3, <4>3, <4>4 DEF StreamFits, Now
        <4>7. QED
          BY <4>5, <4>6
      <3>3. QED
        BY <3>1, <3>2
    <2>5. QED
      BY <2>2, <2>3, <2>4, OneStream
  <1>5. ASSUME NEW c \in Callers, OpenUpstream(c)
        PROVE  LiveEventsInv'
    <2> DEFINE x == [stream[c] EXCEPT !.pc = "open", !.topics = Topics(stream[c].granted)]
    <2>1. stream' = [stream EXCEPT ![c] = x] /\ UNCHANGED <<rvars, access>>
      BY <1>0, <1>5 DEF OpenUpstream, Streams
    <2>2. x \in Streams
      BY <1>0 DEF Streams, Topics
    <2>3. StreamFits(access, x, c)
      BY <1>0, <1>5 DEF OpenUpstream, StreamFits, Now, Streams
    <2>4. QED
      BY <2>1, <2>2, <2>3, OneStream
  <1>6. ASSUME NEW c \in Callers, Disconnect(c)
        PROVE  LiveEventsInv'
    BY <1>6, ClosedFits, OneStream DEF Disconnect
  <1>7. ASSUME NEW s \in Spaces, NEW members \in SUBSET Callers, WriteAccess(s, members)
        PROVE  LiveEventsInv'
    <2>1. PICK acc : acc = access'
      OBVIOUS
    <2>2. acc \in [Spaces -> (SUBSET Callers) \cup {Unseen}]
      BY <1>0, <1>7, <2>1 DEF WriteAccess
    <2>3. RevocationInv' /\ RevocationTypeOK'
      BY <1>0, <1>7 DEF WriteAccess, RevocationInv, RevocationTypeOK, rvars
    <2>4. ASSUME NEW c \in Callers
          PROVE  stream'[c] \in Streams /\ StreamFits(acc, stream'[c], c)
      <3>1. CASE stream[c].pc = "checking"
        <4>1. stream'[c] = [stream[c] EXCEPT
                  !.entitled = @ \cup {t \in stream[c].asked : Grants(acc, t, c)},
                  !.always = @ \cap {t \in stream[c].asked : Grants(acc, t, c)}]
          BY <1>7, <2>1, <2>4, <3>1 DEF WriteAccess
        <4>2. StreamFits(access, stream[c], c) /\ stream[c] \in Streams
          BY <1>0
        <4>3. stream'[c] \in Streams
          BY <4>1, <4>2 DEF Streams
        <4>4. StreamFits(acc, stream'[c], c)
          BY <3>1, <4>1, <4>2 DEF StreamFits, Streams, Now
        <4>5. QED
          BY <4>3, <4>4
      <3>2. CASE stream[c].pc # "checking"
        BY <1>0, <1>7, <2>4, <3>2 DEF WriteAccess, StreamFits
      <3>3. QED
        BY <3>1, <3>2
    <2>5. stream' = [c \in Callers |-> stream'[c]]
      BY <1>7 DEF WriteAccess
    <2>6. QED
      BY <2>1, <2>2, <2>3, <2>4, <2>5 DEF LiveEventsInv, LiveEventsTypeOK
  <1>8. QED
    BY <1>1, <1>2, <1>3, <1>4, <1>5, <1>6, <1>7 DEF LiveEventsNext

(* The store below the streams, the connections and the records keep their types. *)
THEOREM LiveEventsTypes == LiveEventsSpec => []LiveEventsTypeOK
PROOF
  <1>1. LiveEventsInv => LiveEventsTypeOK
    BY DEF LiveEventsInv
  <1>2. QED
    BY <1>1, InitLiveEvents, NextLiveEvents, PTL DEF LiveEventsSpec

(* Under the streams the revocation store is as it is alone: whatever callers connect,
   are checked and leave, and whatever is written of access, its steps are its own, so
   that it enforces under them what it enforces alone. *)
THEOREM StoreUnderStreams == LiveEventsSpec => RevocationSpec
PROOF
  <1>1. LiveEventsInit => RevocationInit
    BY DEF LiveEventsInit
  <1>2. [LiveEventsNext]_lvars => [RevocationNext]_rvars
    <2> SUFFICES ASSUME [LiveEventsNext]_lvars
                 PROVE  [RevocationNext]_rvars
      OBVIOUS
    <2>1. CASE StoreStep
      BY <2>1, Zenon DEF StoreStep, RevocationNext
    <2>2. CASE LiveEventsNext /\ ~StoreStep
      BY <2>2, Zenon DEF LiveEventsNext, Connect, CheckSpace, OpenUpstream, Disconnect, WriteAccess
    <2>3. CASE UNCHANGED lvars
      BY <2>3 DEF lvars
    <2>4. QED
      BY <2>1, <2>2, <2>3
  <1>3. QED
    BY <1>1, <1>2, PTL DEF LiveEventsSpec, RevocationSpec

(* Whatever the enricher answers for a record that cannot be read, an open stream
   delivers only what the caller named and was a member of while it was checked, and
   listens to all that it was a member of throughout (apps/server/src/events.ts:175). *)
THEOREM StreamsMatchMembership == LiveEventsSpec => []StreamMatchesMembership
PROOF
  <1>1. LiveEventsInv => StreamMatchesMembership
    <2> SUFFICES ASSUME LiveEventsInv, NEW c \in Callers, stream[c].pc = "open"
                 PROVE  /\ Delivered(stream[c].topics) \subseteq stream[c].granted
                        /\ stream[c].granted \subseteq stream[c].entitled \cup stream[c].blind
                        /\ Cardinality(stream[c].asked) <= MaxSpaces =>
                              stream[c].always \subseteq stream[c].granted \cup stream[c].blind
      BY DEF StreamMatchesMembership
    <2>1. StreamFits(access, stream[c], c)
      BY DEF LiveEventsInv
    <2>2. stream[c].topics = Topics(stream[c].granted) /\ stream[c].todo = {}
      BY <2>1 DEF StreamFits
    <2>3. Delivered(stream[c].topics) \subseteq stream[c].granted
      BY <2>2, LiveEventsConstantsOK DEF Delivered, Topics
    <2>4. QED
      BY <2>1, <2>2, <2>3 DEF StreamFits
  <1>2. QED
    BY <1>1, InitLiveEvents, NextLiveEvents, PTL DEF LiveEventsSpec

----------------------------------------------------------------------------
(* The webhooks. *)

(* An edit adds a webhook nobody has, within the cap, or drops one that it saw. *)
EditFits(e) ==
    \/ e = NoEdit
    \/ /\ e.adds \in Hooks \ minted /\ e.drops = NoHook
       /\ Cardinality(e.seen) < MaxHooks
    \/ /\ e.adds = NoHook /\ e.drops \in e.seen

(* No webhook is drawn on two devices. *)
DrawnOnce == \A o, u \in Owners : edit[o].adds = edit[u].adds => o = u \/ edit[o].adds = NoHook

RegistryInv ==
    /\ registry \subseteq Hooks /\ minted \subseteq Hooks /\ revoked \subseteq minted
    /\ edit \in [Owners -> Edits]
    /\ registry = minted \ revoked
    /\ IsFiniteSet(registry) /\ Cardinality(registry) <= MaxHooks
    /\ (\A o \in Owners : EditFits(edit[o])) /\ DrawnOnce

LEMMA NoEditIsAnEdit == NoEdit \in Edits /\ NoEdit.adds = NoHook
PROOF
  BY DEF NoEdit, Edits

LEMMA InitRegistry == WebhooksInit => RegistryInv
PROOF
  BY WebhooksConstantsOK, FS_EmptySet, NoEditIsAnEdit DEF WebhooksInit, RegistryInv, EditFits, DrawnOnce

(* The edits of the others stay in order when one device's becomes e. *)
LEMMA OneEdit ==
  ASSUME RegistryInv, NEW o \in Owners, NEW e \in Edits, edit' = [edit EXCEPT ![o] = e],
         UNCHANGED <<registry, minted, revoked>>, EditFits(e),
         e.adds = NoHook \/ e.adds \notin Drawn
  PROVE  RegistryInv'
PROOF
  <1>1. \A u \in Owners : edit'[u] = IF u = o THEN e ELSE edit[u]
    BY DEF RegistryInv
  <1>2. edit' \in [Owners -> Edits]
    BY DEF RegistryInv
  <1>3. (\A u \in Owners : EditFits(edit[u]))'
    BY <1>1 DEF RegistryInv, EditFits
  <1>4. DrawnOnce'
    BY <1>1 DEF RegistryInv, DrawnOnce, Drawn
  <1>5. QED
    BY <1>2, <1>3, <1>4 DEF RegistryInv

LEMMA NextRegistry == RegistryInv /\ [WebhooksNext]_wvars => RegistryInv'
PROOF
  <1> SUFFICES ASSUME RegistryInv, [WebhooksNext]_wvars
               PROVE  RegistryInv'
    OBVIOUS
  <1> USE WebhooksConstantsOK
  <1>0. CASE UNCHANGED <<registry, edit, minted, revoked>>
    BY <1>0 DEF RegistryInv, EditFits, DrawnOnce
  <1>1. ASSUME NEW o \in Owners, NEW h \in Hooks, createWebhook(o, h)
        PROVE  RegistryInv'
    <2> DEFINE e == [NoEdit EXCEPT !.pc = "writing", !.adds = h, !.seen = registry]
    <2>1. e \in Edits /\ EditFits(e) /\ e.adds \notin Drawn
      BY <1>1 DEF createWebhook, RegistryInv, NoEdit, Edits, EditFits, RoomFor, Drawn
    <2>2. QED
      BY <1>1, <2>1, OneEdit DEF createWebhook
  <1>2. ASSUME NEW o \in Owners, NEW h \in Hooks, removeWebhook(o, h)
        PROVE  RegistryInv'
    <2> DEFINE e == [NoEdit EXCEPT !.pc = "writing", !.drops = h, !.seen = registry]
    <2>1. e \in Edits /\ EditFits(e) /\ e.adds = NoHook
      BY <1>2 DEF removeWebhook, RegistryInv, NoEdit, Edits, EditFits
    <2>2. QED
      BY <1>2, <2>1, OneEdit DEF removeWebhook
  <1>3. ASSUME NEW o \in Owners, EditWritten(o)
        PROVE  RegistryInv'
    <2>1. \A u \in Owners : edit'[u] = IF u = o THEN NoEdit ELSE edit[u]
      BY <1>3 DEF EditWritten, RegistryInv
    <2>2. edit' \in [Owners -> Edits]
      BY <1>3, NoEditIsAnEdit DEF EditWritten, RegistryInv
    <2>3. DrawnOnce'
      BY <2>1, NoEditIsAnEdit DEF RegistryInv, DrawnOnce
    <2>4. edit[o].pc = "writing" /\ edit[o].seen = registry /\ EditFits(edit[o])
      BY <1>3 DEF EditWritten, SameBase, RegistryInv
    <2>5. edit[o] # NoEdit
      BY <2>4 DEF NoEdit
    <2>6. CASE edit[o].adds \in Hooks \ minted /\ edit[o].drops = NoHook /\ Cardinality(registry) < MaxHooks
      <3> DEFINE h == edit[o].adds
      <3>1. registry' = registry \cup {h} /\ minted' = minted \cup {h} /\ revoked' = revoked
        BY <1>3, <2>4, <2>6 DEF EditWritten, Edited, RegistryInv
      <3>2. IsFiniteSet(registry') /\ Cardinality(registry') <= MaxHooks
        <4>1. IsFiniteSet(registry) /\ h \notin registry
          BY <2>6 DEF RegistryInv
        <4>2. /\ IsFiniteSet(registry \cup {h}) /\ Cardinality(registry) \in Nat
              /\ Cardinality(registry \cup {h}) = Cardinality(registry) + 1
          BY <4>1, FS_AddElement, FS_CardinalityType
        <4>3. QED
          BY <2>6, <3>1, <4>2
      <3>3. registry' = minted' \ revoked' /\ registry' \subseteq Hooks /\ minted' \subseteq Hooks
            /\ revoked' \subseteq minted'
        BY <2>6, <3>1 DEF RegistryInv
      <3>4. ASSUME NEW u \in Owners
            PROVE  EditFits(edit[u])'
        <4>1. CASE u = o
          BY <2>1, <4>1 DEF EditFits
        <4>2. CASE u # o
          <5>1. edit[u].adds # h /\ EditFits(edit[u]) /\ edit'[u] = edit[u]
            BY <2>1, <2>6, <4>2 DEF RegistryInv, DrawnOnce
          <5>2. QED
            BY <3>1, <5>1 DEF EditFits
        <4>3. QED
          BY <4>1, <4>2
      <3>5. QED
        BY <2>2, <2>3, <3>2, <3>3, <3>4 DEF RegistryInv
    <2>7. CASE edit[o].adds = NoHook /\ edit[o].drops \in registry
      <3> DEFINE h == edit[o].drops
      <3>1. registry' = registry \ {h} /\ minted' = minted /\ revoked' = revoked \cup {h}
        BY <1>3, <2>4, <2>7 DEF EditWritten, Edited, RegistryInv
      <3>2. IsFiniteSet(registry') /\ Cardinality(registry') <= MaxHooks
        <4>1. IsFiniteSet(registry) /\ h \in registry /\ Cardinality(registry) <= MaxHooks
          BY <2>7 DEF RegistryInv
        <4>2. /\ IsFiniteSet(registry \ {h}) /\ Cardinality(registry) \in Nat
              /\ Cardinality(registry \ {h}) = Cardinality(registry) - 1
          BY <4>1, FS_RemoveElement, FS_CardinalityType
        <4>3. QED
          BY <3>1, <4>1, <4>2
      <3>3. registry' = minted' \ revoked' /\ registry' \subseteq Hooks /\ minted' \subseteq Hooks
            /\ revoked' \subseteq minted'
        BY <2>7, <3>1 DEF RegistryInv
      <3>4. (\A u \in Owners : EditFits(edit[u]))'
        BY <2>1, <3>1 DEF RegistryInv, EditFits
      <3>5. QED
        BY <2>2, <2>3, <3>2, <3>3, <3>4 DEF RegistryInv
    <2>8. QED
      BY <2>4, <2>5, <2>6, <2>7 DEF EditFits
  <1>4. ASSUME NEW o \in Owners, EditFails(o)
        PROVE  RegistryInv'
    BY <1>4, OneEdit, NoEditIsAnEdit DEF EditFails, EditFits
  <1>5. QED
    BY <1>0, <1>1, <1>2, <1>3, <1>4
    DEF WebhooksNext, wvars, Posted, EntryRead, TokenHashed, Appended, AppendConflicts, publishChange,
        ServerDies

(* The registry is exactly what was minted and not revoked, within the cap
   (packages/sdk/src/starfish/webhooks.ts:151). *)
THEOREM RegistryIsExact == WebhooksSpec => []RegistryExact
PROOF
  <1>1. RegistryInv => RegistryExact
    BY DEF RegistryInv, RegistryExact
  <1>2. QED
    BY <1>1, InitRegistry, NextRegistry, PTL DEF WebhooksSpec

(* A request that began too late is refused when the registry is read; what is
   past the token check carried the token of its webhook; a logged message is one
   whose request is answered or about to be. *)
PostFits(p) ==
    /\ post[p].late => post[p].hook \in revoked /\ post[p].pc \in {"reading", "done"}
    /\ post[p].pc \in {"appending", "publishing"} => post[p].token = post[p].hook
    /\ post[p].pc = "publishing" => p \in log
    /\ p \in log => /\ post[p].pc \in {"publishing", "done"}
                    /\ ~post[p].late /\ post[p].token = post[p].hook

PostsInv ==
    /\ post \in [Posts -> Requests] /\ log \subseteq Posts /\ published \subseteq log
    /\ \A p \in Posts : PostFits(p)

LEMMA InitPosts == WebhooksInit => PostsInv
PROOF
  BY DEF WebhooksInit, PostsInv, PostFits, NewRequest, Requests

(* One request goes on to pc, and nothing else happens. *)
LEMMA PostGoesOn ==
  ASSUME PostsInv, NEW p \in Posts, NEW pc \in {"verifying", "appending", "done"},
         Goes(p, pc), UNCHANGED <<revoked, log, published>>,
         pc = "done" \/ (p \notin log /\ ~post[p].late),
         pc = "appending" => post[p].token = post[p].hook
  PROVE  PostsInv'
PROOF
  <1>1. post' \in [Posts -> Requests]
    BY DEF PostsInv, Goes, Requests
  <1>2. \A q \in Posts \ {p} : post'[q] = post[q]
    BY DEF PostsInv, Goes
  <1>3. post'[p] = [post[p] EXCEPT !.pc = pc] /\ post[p] \in Requests
    BY DEF PostsInv, Goes
  <1>4. PostFits(p)'
    BY <1>3 DEF PostsInv, PostFits, Requests
  <1>5. \A q \in Posts \ {p} : PostFits(q)'
    BY <1>2 DEF PostsInv, PostFits
  <1>6. QED
    BY <1>1, <1>4, <1>5 DEF PostsInv

LEMMA NextPosts == PostsInv /\ RegistryInv /\ [WebhooksNext]_wvars => PostsInv'
PROOF
  <1> SUFFICES ASSUME PostsInv, RegistryInv, [WebhooksNext]_wvars
               PROVE  PostsInv'
    OBVIOUS
  <1>0. post \in [Posts -> Requests] /\ \A p \in Posts : PostFits(p)
    BY DEF PostsInv
  <1>1. CASE revoked \subseteq revoked' /\ UNCHANGED <<post, log, published>>
    BY <1>1 DEF PostsInv, PostFits
  <1>2. ASSUME NEW p \in Posts, NEW h \in Hooks, NEW t \in Hooks, Posted(p, h, t)
        PROVE  PostsInv'
    <2>1. post'[p] = [pc |-> "reading", hook |-> h, token |-> t, late |-> h \in revoked]
      BY <1>0, <1>2 DEF Posted
    <2>2. \A q \in Posts \ {p} : post'[q] = post[q]
      BY <1>0, <1>2 DEF Posted
    <2>3. post' \in [Posts -> Requests]
      <3>1. [pc |-> "reading", hook |-> h, token |-> t, late |-> h \in revoked] \in Requests
        BY DEF Requests
      <3>2. QED
        BY <1>0, <1>2, <3>1 DEF Posted
    <2>4. p \notin log
      BY <1>0, <1>2 DEF Posted, PostFits
    <2>5. PostFits(p)'
      <3>1. PICK late : late = (h \in revoked)
        OBVIOUS
      <3>2. post'[p] = [pc |-> "reading", hook |-> h, token |-> t, late |-> late]
        BY <2>1, <3>1, Zenon
      <3>3. post'[p].pc = "reading" /\ post'[p].hook = h /\ post'[p].late = late
        BY <3>2
      <3>4. late => h \in revoked
        BY <3>1
      <3>5. revoked' = revoked /\ log' = log
        BY <1>2 DEF Posted
      <3>6. QED
        BY <2>4, <3>3, <3>4, <3>5 DEF PostFits
    <2>6. \A q \in Posts \ {p} : PostFits(q)'
      BY <1>0, <1>2, <2>2 DEF Posted, PostFits
    <2>7. QED
      BY <1>2, <2>3, <2>5, <2>6 DEF Posted, PostsInv
  <1>3. ASSUME NEW p \in Posts, EntryRead(p)
        PROVE  PostsInv'
    <2>1. CASE post[p].hook \in registry
      <3>1. ~post[p].late /\ p \notin log
        BY <1>0, <1>3, <2>1 DEF EntryRead, PostFits, RegistryInv
      <3>2. QED
        BY <1>3, <2>1, <3>1, PostGoesOn DEF EntryRead
    <2>2. CASE post[p].hook \notin registry
      BY <1>3, <2>2, PostGoesOn DEF EntryRead
    <2>3. QED
      BY <2>1, <2>2
  <1>4. ASSUME NEW p \in Posts, TokenHashed(p)
        PROVE  PostsInv'
    <2>1. ~post[p].late /\ p \notin log
      BY <1>0, <1>4 DEF TokenHashed, PostFits
    <2>2. QED
      BY <1>4, <2>1, PostGoesOn DEF TokenHashed
  <1>5. ASSUME NEW p \in Posts, Appended(p)
        PROVE  PostsInv'
    <2>1. post' \in [Posts -> Requests]
      BY <1>0, <1>5 DEF Appended, Goes, Requests
    <2>2. \A q \in Posts \ {p} : post'[q] = post[q]
      BY <1>0, <1>5 DEF Appended, Goes
    <2>3. post'[p] = [post[p] EXCEPT !.pc = "publishing"] /\ post[p] \in Requests
      BY <1>0, <1>5 DEF Appended, Goes
    <2>4. PostFits(p)'
      BY <1>0, <1>5, <2>3 DEF Appended, PostFits, Requests
    <2>5. \A q \in Posts \ {p} : PostFits(q)'
      BY <1>0, <1>5, <2>2 DEF Appended, PostFits
    <2>6. QED
      BY <1>5, <2>1, <2>4, <2>5 DEF Appended, PostsInv
  <1>6. ASSUME NEW p \in Posts, AppendConflicts(p)
        PROVE  PostsInv'
    BY <1>6, PostGoesOn DEF AppendConflicts
  <1>7. ASSUME NEW p \in Posts, publishChange(p)
        PROVE  PostsInv'
    <2>1. post' \in [Posts -> Requests]
      BY <1>0, <1>7 DEF publishChange, Goes, Requests
    <2>2. \A q \in Posts \ {p} : post'[q] = post[q]
      BY <1>0, <1>7 DEF publishChange, Goes
    <2>3. post'[p] = [post[p] EXCEPT !.pc = "done"] /\ post[p] \in Requests
      BY <1>0, <1>7 DEF publishChange, Goes
    <2>4. PostFits(p)' /\ p \in log
      BY <1>0, <1>7, <2>3 DEF publishChange, PostFits, Requests
    <2>5. \A q \in Posts \ {p} : PostFits(q)'
      BY <1>0, <1>7, <2>2 DEF publishChange, PostFits
    <2>6. QED
      BY <1>7, <2>1, <2>4, <2>5 DEF publishChange, PostsInv
  <1>8. CASE ServerDies
    <2>1. \A p \in Posts : post'[p] = IF post[p].pc = "new" THEN post[p] ELSE [post[p] EXCEPT !.pc = "done"]
      BY <1>8 DEF ServerDies
    <2>2. post' \in [Posts -> Requests]
      BY <1>0, <1>8 DEF ServerDies, Requests
    <2>3. ASSUME NEW p \in Posts
          PROVE  PostFits(p)'
      BY <1>0, <1>8, <2>1 DEF ServerDies, PostFits, Requests
    <2>4. QED
      BY <1>8, <2>2, <2>3 DEF ServerDies, PostsInv
  <1>9. QED
    BY <1>1, <1>2, <1>3, <1>4, <1>5, <1>6, <1>7, <1>8
    DEF WebhooksNext, wvars, createWebhook, removeWebhook, EditWritten, EditFails

(* No message in a log is of a request that began after its webhook was revoked or
   had another token, and every change event is that of a message in a log
   (apps/server/src/webhook.ts:133, :164). *)
THEOREM RevokedAreRefused == WebhooksSpec => []RevokedIsRefused
PROOF
  <1>1. PostsInv => RevokedIsRefused
    BY DEF PostsInv, PostFits, RevokedIsRefused
  <1>2. QED
    BY <1>1, InitRegistry, NextRegistry, InitPosts, NextPosts, PTL DEF WebhooksSpec

(* The registry, the edits and the requests keep their types. *)
THEOREM WebhooksTypes == WebhooksSpec => []WebhooksTypeOK
PROOF
  <1>1. PostsInv /\ RegistryInv => WebhooksTypeOK
    BY DEF PostsInv, RegistryInv, WebhooksTypeOK
  <1>2. QED
    BY <1>1, InitRegistry, NextRegistry, InitPosts, NextPosts, PTL DEF WebhooksSpec

----------------------------------------------------------------------------
(* The directory. *)

(* What the list document says of a space's rooms is what the index says. *)
DirectoryInv ==
    /\ DirectoryTypeOK
    /\ \A s \in Listable : entry[s].publicRooms = rooms[s].live

LEMMA InitDirectory == DirectoryInit => DirectoryInv
PROOF
  BY DirectoryConstantsOK DEF DirectoryInit, DirectoryInv, DirectoryTypeOK, Rooms, Entries, NoEntry

LEMMA NextDirectory == DirectoryInv /\ [DirectoryNext]_dvars => DirectoryInv'
PROOF
  <1> SUFFICES ASSUME DirectoryInv, [DirectoryNext]_dvars
               PROVE  DirectoryInv'
    OBVIOUS
  <1> USE DirectoryConstantsOK
  <1>1. CASE UNCHANGED dvars
    BY <1>1 DEF DirectoryInv, DirectoryTypeOK, dvars
  <1>2. ASSUME NEW s \in Listable, NEW r \in Rooms, projectObjIndex(s, r)
        PROVE  DirectoryInv'
    <2> DEFINE e == IF countPublicRooms(r) = 0 THEN NoEntry
                    ELSE [entry[s] EXCEPT !.publicRooms = countPublicRooms(r)]
    <2>1. entry[s] \in Entries
      BY DEF DirectoryInv, DirectoryTypeOK
    <2>2. e \in Entries /\ e.publicRooms = r.live
      BY <2>1 DEF countPublicRooms, Rooms, Entries, NoEntry
    <2>3. rooms' = [rooms EXCEPT ![s] = r] /\ entry' = [entry EXCEPT ![s] = e] /\ name' = name
      BY <1>2 DEF projectObjIndex
    <2>4. QED
      BY <2>2, <2>3 DEF DirectoryInv, DirectoryTypeOK
  <1>3. ASSUME NEW s \in Listable, NEW n \in Names, projectSpaceRegistry(s, n)
        PROVE  DirectoryInv'
    BY <1>3 DEF projectSpaceRegistry, DirectoryInv, DirectoryTypeOK, Entries
  <1>4. QED
    BY <1>1, <1>2, <1>3 DEF DirectoryNext

(* The index, the names and the entries keep their types. *)
THEOREM DirectoryTypes == DirectorySpec => []DirectoryTypeOK
PROOF
  <1>1. DirectoryInv => DirectoryTypeOK
    BY DEF DirectoryInv
  <1>2. QED
    BY <1>1, InitDirectory, NextDirectory, PTL DEF DirectorySpec

(* The directory shows exactly the spaces with a public room
   (apps/server/src/projections.ts:28). *)
THEOREM DirectoryIsExact == DirectorySpec => []DirectoryExact
PROOF
  <1>1. DirectoryInv => DirectoryExact
    BY DEF DirectoryInv, DirectoryExact, Listed
  <1>2. QED
    BY <1>1, InitDirectory, NextDirectory, PTL DEF DirectorySpec
=============================================================================
