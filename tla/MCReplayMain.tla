---------------------------- MODULE MCReplayMain ----------------------------
(* Two short conversations and a resumed collection for TLC. *)
EXTENDS ReplayMain

MCDefaults == [k \in ConfigKeys |-> "a"]

\* Two turns of an engine that kept the answer, and two of one that did not; the
\* last one asks for no tokens at all.
MCKept  == [id |-> "first", kept |-> TRUE,
            turns |-> <<[new |-> 6, osl |-> 3], [new |-> 2, osl |-> 2]>>]
MCFresh == [id |-> "second", kept |-> FALSE,
            turns |-> <<[new |-> 5, osl |-> 2], [new |-> 1, osl |-> 0]>>]
MCPair  == "one" :> MCKept @@ "two" :> MCFresh
MCOne   == "one" :> MCFresh
=============================================================================
