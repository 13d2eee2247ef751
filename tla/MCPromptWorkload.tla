-------------------------- MODULE MCPromptWorkload --------------------------
(* PromptWorkload for TLC; the .cfg files choose threads, runs and prompts. *)
EXTENDS PromptWorkload
=============================================================================
