------------------------------ MODULE MCOutbox ------------------------------
(* Outbox on two accounts and two messages. *)
EXTENDS Outbox, TLC

CONSTANTS a, b, m1, m2

TwoUsers == {a, b}
TwoMsgs == {m1, m2}

Symmetric == Permutations(TwoUsers) \cup Permutations(TwoMsgs)
=============================================================================
