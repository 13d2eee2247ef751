------------------------ MODULE MCCancellableCommand ------------------------
(* CancellableCommand for TLC: a command and the children it may fork.     *)
EXTENDS CancellableCommand
=============================================================================
