---------------------------- MODULE DurableQueue ----------------------------
(***************************************************************************)
(* What the offline outbox promises, with nothing of how it works: each    *)
(* account has a set of messages kept on the device until the server has   *)
(* taken them, and a message leaves that set only once the server has it.  *)
(* Stated in the headers of apps/mobile/src/lib/outbox.ts and              *)
(* outbox-context.tsx; module Outbox is shown to implement it.             *)
(***************************************************************************)

CONSTANTS Users, Msgs

VARIABLES
    pending,   \* [Users -> SUBSET Msgs]: the messages the device still owes each account
    posted     \* SUBSET (Msgs \X Users): the messages in the server's log, and who posted them

qvars == <<pending, posted>>

----------------------------------------------------------------------------

Init ==
    /\ pending = [u \in Users |-> {}]
    /\ posted = {}

(* A message enters one account's queue, and is in no other one. *)
Accept(m, u) ==
    /\ \A v \in Users : m \notin pending[v]
    /\ pending' = [pending EXCEPT ![u] = @ \cup {m}]
    /\ UNCHANGED posted

(* The server takes a message that is queued for no account but the poster.
   It may take the same message again. *)
Post(m, u) ==
    /\ \A v \in Users \ {u} : m \notin pending[v]
    /\ posted' = posted \cup {<<m, u>>}
    /\ UNCHANGED pending

(* A message leaves its queue: only once it was posted for that account. *)
Confirm(m, u) ==
    /\ m \in pending[u]
    /\ <<m, u>> \in posted
    /\ pending' = [pending EXCEPT ![u] = @ \ {m}]
    /\ UNCHANGED posted

Next == \E m \in Msgs, u \in Users : Accept(m, u) \/ Post(m, u) \/ Confirm(m, u)

Spec == Init /\ [][Next]_qvars
=============================================================================
