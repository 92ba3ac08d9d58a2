--------------------------- MODULE MCReplayEngine ---------------------------
(***************************************************************************)
(* Small instances of ReplayEngine for TLC.                                *)
(***************************************************************************)
EXTENDS ReplayEngine, TLC

\* Two sessions: a turn without a sleep and one with, and a single turn.
MCTwoSessions == 0 :> <<NoExec, 1>> @@ 1 :> <<NoExec>>
=============================================================================
