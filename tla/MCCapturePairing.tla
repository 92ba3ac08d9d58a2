-------------------------- MODULE MCCapturePairing --------------------------
(* Small sessions of claude-cli for TLC. *)
EXTENDS CapturePairing, TLC

MCPrompt == [a \in Agents |-> "long"]

=============================================================================
