------------------------------ MODULE MCConnect -----------------------------
(* Small instances of Connect for TLC. *)
EXTENDS Connect

MCAddrs == 1 .. MaxAttempts
=============================================================================
