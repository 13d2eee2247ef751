------------------------- MODULE MCCommandWorkload -------------------------
(* CommandWorkload for TLC; the .cfg files choose threads, runs and stops. *)
EXTENDS CommandWorkload
=============================================================================
