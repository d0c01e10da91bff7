-------------------------- MODULE MCOutboxWatched --------------------------
(* OutboxWatched on two accounts and two messages. *)
EXTENDS MCOutbox, OutboxWatched
=============================================================================
