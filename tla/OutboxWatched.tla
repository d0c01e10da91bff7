---------------------------- MODULE OutboxWatched ----------------------------
(* The outbox, and whether anything has happened that may send a message twice. *)
EXTENDS Outbox

VARIABLE calm   \* history: no step so far was one of the Storms

(* An acknowledgement is lost, with its response or with the app; or the account
   changes while the drain is running. *)
Storms ==
    \/ drain.on /\ drain.sent /\ (DrainFail \/ Crash)
    \/ \E m \in Msgs : live[m] = "committed" /\ LiveFail(m)
    \/ drain.on /\ \E u \in Users \cup {NoUser} : SetSession(u)

WatchedSpec ==
    /\ Init /\ calm = TRUE
    /\ [][Next /\ calm' = (calm /\ ~Storms)]_<<vars, calm>>

(* "The same id is never sent twice" (outbox-context.tsx:17), through deaths of the
   app, refused requests and changes of the account, as long as no acknowledgement is
   lost and no account changes under a running drain. *)
SentOnceWhileCalm == calm => SentOnce
=============================================================================
