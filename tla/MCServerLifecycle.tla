-------------------------- MODULE MCServerLifecycle --------------------------
(***************************************************************************)
(* Small process trees for TLC: starts after a crash, and a process *)
(* forked by a tree that is being killed.                                  *)
(***************************************************************************)
EXTENDS ServerLifecycle

MCStarts == 3
MCForks == 2
==============================================================================
