-------------------------- MODULE SyntheticPrompts --------------------------
(***************************************************************************)
(* The requests of a replay (trace_replay/synthetic.py): a system prompt all *)
(* sessions share, and texts made up from a label, as long as the captured   *)
(* token counts say.  Four characters are taken for a token, as the code     *)
(* does.  A token of a text is <<label, place>>: texts of one label agree as  *)
(* far as they go, texts of two labels agree in their first Shared tokens at  *)
(* most (the label itself stands at the start of a text and may be cut off). *)
(***************************************************************************)
EXTENDS Integers, SequencesExt

CONSTANTS
    System,     \* tokens of the system prompt
    Shared      \* tokens in which the texts of any two labels agree

ASSUME PromptConstants == System \in Nat /\ Shared \in Nat

\* A definition X_... before X is a bug X does not have; the mutants of
\* PROJECT.json put it in the place of X.

AtLeastOne(n) == IF n < 1 THEN 1 ELSE n

\* max(1, 4 * n) characters, which begin AtLeastOne(n) tokens.
Text(label, n) ==
    [i \in 1 .. AtLeastOne(n) |-> IF i <= Shared THEN <<"any", i>> ELSE <<label, i>>]

SystemPrompt == [i \in 1 .. System |-> <<"system", i>>]

\* Turns are numbered from 1.
UserMessage_WholePrompt(session, t) == Text(<<session.id, "u", t>>, session.turns[t].isl)
UserMessage(session, t) ==
    Text(<<session.id, "u", t>>,
         IF t = 1 THEN session.turns[1].isl - System ELSE session.turns[t].isl_new)

AssistantMessage(session, t) == Text(<<session.id, "a", t>>, session.turns[t].osl)

\* user 1, assistant 1, ..., assistant t - 1, user t
Messages_LabelledByTurn(session, t) ==
    [k \in 1 .. 2 * t - 1 |->
        IF k % 2 = 1
        THEN UserMessage([session EXCEPT !.id = <<@, t>>], (k + 1) \div 2)
        ELSE AssistantMessage(session, k \div 2)]
Messages(session, t) ==
    [k \in 1 .. 2 * t - 1 |->
        IF k % 2 = 1 THEN UserMessage(session, (k + 1) \div 2)
                     ELSE AssistantMessage(session, k \div 2)]

TurnRequest(session, t) ==
    [prompt |-> SystemPrompt \o FlattenSeq(Messages(session, t)),
     max_tokens |-> session.turns[t].osl, min_tokens |-> session.turns[t].osl]
=============================================================================
