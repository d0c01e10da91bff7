----------------------------- MODULE LiveEvents -----------------------------
(***************************************************************************)
(* The authenticated stream of change events (apps/server/src/events.ts):  *)
(* a caller is authenticated against the revocation store, each candidate  *)
(* space is checked against the membership record in an await of its own,  *)
(* and the topics found are what the gateway is asked for.  Nothing is     *)
(* checked again while the stream is open.                                 *)
(*                                                                         *)
(* A caller holds the device cap of its own issuer.  Its space records,    *)
(* events, the gateway and the role enricher are the world's; signatures   *)
(* and nonces are taken to be in order.                                    *)
(***************************************************************************)
EXTENDS Revocation, FiniteSets

CONSTANTS
    Callers,      \* the identities that subscribe
    Spaces,
    Unseen,       \* no access record yet
    NoTopic,      \* the sentinel "__none__"
    MaxSpaces     \* MAX_SPACES_PER_CONNECTION

ASSUME LiveEventsConstantsOK ==
    /\ Callers \subseteq Issuers
    /\ NoTopic \notin Spaces
    /\ MaxSpaces \in Nat

VARIABLES
    access,    \* the roster of each space's access record
    stream     \* the connection of each caller

evars == <<access, stream>>
lvars == <<rvars, evars>>

(* `entitled', `always' and `blind' are history: the candidates whose record said at
   some moment, and at every moment, since the caller was authenticated, that it is a
   member, and those whose record the enricher could not read. *)
Streams == [pc : {"closed", "checking", "open"}, asked : SUBSET Spaces, todo : SUBSET Spaces,
            granted : SUBSET Spaces, topics : SUBSET (Spaces \cup {NoTopic}),
            entitled : SUBSET Spaces, always : SUBSET Spaces, blind : SUBSET Spaces]

Closed == [pc |-> "closed", asked |-> {}, todo |-> {}, granted |-> {}, topics |-> {},
           entitled |-> {}, always |-> {}, blind |-> {}]

LiveEventsInit ==
    /\ RevocationInit
    /\ access = [s \in Spaces |-> Unseen]
    /\ stream = [c \in Callers |-> Closed]

(* The role check is createSpacesRoleEnricher of starfish-spaces, which is not part of
   the repository.  Assumed of it is what index.ts:96 and index.ts:100 say where it is
   made: the roles follow the access record of the space as it is at the moment of the
   call, and by allowTofu whoever asks for a space without a record is a member. *)
Grants(acc, s, c) == acc[s] = Unseen \/ c \in acc[s]

(* Nothing is said of what it does when the record cannot be read. *)
Enricher(acc, s, c, readable) ==
    IF readable THEN {IF Grants(acc, s, c) THEN "member" ELSE "other"}
    ELSE {"member", "other", "throws"}

(* A faulty form: one candidate too few. *)
FirstButOne(S, n) == {T \in SUBSET S : Cardinality(T) <= n - 1 /\ (Cardinality(S) <= n - 1 => T = S)}

(* The candidates that are looked at: the first n, in the order of the client. *)
FirstOf(S, n) ==
    {T \in SUBSET S : /\ Cardinality(T) <= n
                      /\ Cardinality(S) <= n => T = S
                      /\ Cardinality(S) > n => Cardinality(T) = n}

(* The request is authenticated and the candidates are read from it. *)
Connect(c, asked) ==
    /\ up = TRUE
    /\ stream[c].pc = "closed"
    /\ ~isRevoked(c)
    /\ \E todo \in FirstOf(asked, MaxSpaces) :
          stream' = [stream EXCEPT ![c] =
              [Closed EXCEPT !.pc = "checking", !.asked = asked, !.todo = todo,
                             !.entitled = {s \in asked : Grants(access, s, c)},
                             !.always = {s \in asked : Grants(access, s, c)}]]
    /\ UNCHANGED <<rvars, access>>

(* The answer is awaited, with no handler around it: if it throws the request ends. *)
Checked(x, s, roles, readable) ==
    IF roles = "throws" THEN Closed
    ELSE [x EXCEPT !.todo = @ \ {s},
                   !.granted = IF roles = "member" THEN @ \cup {s} ELSE @,
                   !.blind = IF readable THEN @ ELSE @ \cup {s}]

CheckSpace(c, s) ==
    /\ stream[c].pc = "checking"
    /\ s \in stream[c].todo
    /\ \E readable \in BOOLEAN : \E roles \in Enricher(access, s, c, readable) :
          stream' = [stream EXCEPT ![c] = Checked(stream[c], s, roles, readable)]
    /\ UNCHANGED <<rvars, access>>

Topics(granted) == IF granted = {} THEN {NoTopic} ELSE granted

OpenUpstream(c) ==
    /\ stream[c].pc = "checking" /\ stream[c].todo = {}
    /\ stream' = [stream EXCEPT ![c].pc = "open", ![c].topics = Topics(stream[c].granted)]
    /\ UNCHANGED <<rvars, access>>

(* The caller leaves, the gateway is unavailable, or the connection breaks. *)
Disconnect(c) ==
    /\ stream[c].pc # "closed"
    /\ stream' = [stream EXCEPT ![c] = Closed]
    /\ UNCHANGED <<rvars, access>>

(* What the gateway delivers: it filters by topic, and by nothing when it is given none. *)
Delivered(topics) == IF topics = {} THEN Spaces ELSE topics \cap Spaces

(* The access record of a space is written: created, joined, left. *)
WriteAccess(s, members) ==
    /\ access' = [access EXCEPT ![s] = members]
    /\ stream' = [c \in Callers |->
           IF stream[c].pc = "checking"
           THEN [stream[c] EXCEPT
                    !.entitled = @ \cup {t \in stream[c].asked : Grants(access', t, c)},
                    !.always = @ \cap {t \in stream[c].asked : Grants(access', t, c)}]
           ELSE stream[c]]
    /\ UNCHANGED rvars

(* The revocation store's own steps; a death takes the connections with it. *)
StoreStep ==
    \/ /\ \E i \in Issuers, g \in 1..MaxGeneration : acceptList(i, g)
       /\ UNCHANGED evars
    \/ (Boot \/ BootUnreadable) /\ UNCHANGED evars
    \/ /\ Dies \/ \E i \in Issuers, g \in 1..MaxGeneration : DiesPersisting(i, g)
       /\ stream' = [c \in Callers |-> Closed]
       /\ UNCHANGED access

LiveEventsNext ==
    \/ StoreStep
    \/ \E c \in Callers : \/ \E asked \in SUBSET Spaces : Connect(c, asked)
                          \/ \E s \in Spaces : CheckSpace(c, s)
                          \/ OpenUpstream(c) \/ Disconnect(c)
    \/ \E s \in Spaces, members \in SUBSET Callers : WriteAccess(s, members)

LiveEventsSpec == LiveEventsInit /\ [][LiveEventsNext]_lvars

----------------------------------------------------------------------------

LiveEventsTypeOK ==
    /\ RevocationTypeOK
    /\ access \in [Spaces -> (SUBSET Callers) \cup {Unseen}]
    /\ stream \in [Callers -> Streams]

(* "Firehose-prevention invariant" (events.ts:18) and the check of every
   candidate (events.ts:177), under what is assumed of the enricher: an open stream
   delivers only events of spaces that the caller named and that took it for a member at
   some moment while it was being checked; and if no more were named than a connection
   may have, it listens to every one that took it for a member all the while, however
   the records changed between the checks.  Of spaces whose record could not be read
   nothing is said, but that they do not touch the others. *)
StreamMatchesMembership ==
    \A c \in Callers : stream[c].pc = "open" =>
        /\ Delivered(stream[c].topics) \subseteq stream[c].granted
        /\ stream[c].granted \subseteq stream[c].entitled \cup stream[c].blind
        /\ Cardinality(stream[c].asked) <= MaxSpaces =>
              stream[c].always \subseteq stream[c].granted \cup stream[c].blind
=============================================================================
