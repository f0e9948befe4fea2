---------------------------- MODULE MCFixSession ----------------------------
(* One FIX session with a handful of messages in each direction. *)
EXTENDS FixSession
=============================================================================
