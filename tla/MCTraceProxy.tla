---------------------------- MODULE MCTraceProxy ----------------------------
(* Small sessions of claude-cli for TLC. *)
EXTENDS TraceProxy, TLC

\* The main loop and a sub-agent, which have different system prompts.
MCMainAndSub == [a \in Agents |-> IF a = "main" THEN "long" ELSE "short"]

\* One conversation.
MCMain == [a \in Agents |-> "long"]

=============================================================================
