----------------------------- MODULE ReplayMain -----------------------------
(***************************************************************************)
(* A replay from end to end (trace_replay/main.py): the run_config.json of a  *)
(* collection that was started and resumed under changing settings, the vLLM  *)
(* a replay starts from it, the requests its agents send and what of them the *)
(* engine's prefix cache has, the rows the run leaves, and the summary made of *)
(* them.  ReplayEngine has the schedule of the agents and MetricsScraper the   *)
(* polling; here an agent plays one session, and a poll takes what has          *)
(* finished since the last one.                                            *)
(***************************************************************************)
EXTENDS SyntheticPrompts, ServingConfig, SummaryStats, FiniteSets

CONSTANTS
    Defaults,           \* _SERVER_DEFAULTS
    Agents,
    Conversations,      \* agent -> the conversation whose capture it plays
    Ttfts,              \* times to a first byte
    DecodeTimes,        \* decode_ms of a row
    Elapsed,            \* elapsed_s of a run
    Powers,             \* watts_measured
    MaxInvocations,     \* bound: collections before the replay
    MaxTroubles         \* bound: turns that are not answered

ASSUME MainConstants ==
    /\ Defaults \in [ConfigKeys -> Values] /\ Ttfts \cup DecodeTimes \cup Elapsed \subseteq Nat
    /\ MaxInvocations \in Nat /\ MaxTroubles \in Nat

\* A capture counts tokens: of the message that is new in a turn, and of the answer.
TurnCounts == [new : Nat, osl : Nat]
ASSUME ConversationTurns ==
    \A a \in Agents : /\ Conversations[a].turns \in Seq(TurnCounts)
                       /\ Conversations[a].kept \in BOOLEAN

VARIABLES
    phase,          \* "collect", "replay" or "done"
    invocations,
    run_config,
    captured,       \* history: what the first collection started vLLM with
    served,         \* what the replay started vLLM with
    next,           \* agent -> its next turn
    whole,          \* history: agent -> has the engine seen all its turns?
    cache,          \* token sequences the engine has computed
    sent,           \* history: the requests, with how much the cache lacked
    finished,       \* osl of the requests finished since the last poll
    generated,      \* history: tokens of all requests in a row
    event_rows, metric_rows, stats,
    summary, csv

configVars == <<invocations, run_config, captured, served>>
engineVars == <<next, whole, cache, sent, finished, generated>>
rowVars == <<event_rows, metric_rows, stats>>
outVars == <<summary, csv>>
vars == <<phase, configVars, engineVars, rowVars, outVars>>

NoSummary == [completed_turns |-> -1]

Init ==
    /\ phase = "collect" /\ invocations = 0
    /\ run_config = NoConfig /\ captured = NoConfig /\ served = NoConfig
    /\ next = [a \in Agents |-> 1] /\ whole = [a \in Agents |-> TRUE]
    /\ cache = {<<>>} /\ sent = {} /\ finished = <<>> /\ generated = 0
    /\ event_rows = <<>> /\ metric_rows = <<>>
    /\ stats = [turns_completed |-> 0, turns_failed |-> 0, elapsed_s |-> 0]
    /\ summary = NoSummary /\ csv = <<>>

-----------------------------------------------------------------------------
(* The collections, and the start of the replay *)

\* Every invocation finds a .env and an environment of its own.  Its files are in
\* one directory if it is resumed.
Collect ==
    /\ phase = "collect" /\ invocations < MaxInvocations
    /\ \E dotenv, environ \in Source, arguments \in Source :
         LET config == Resolve(Defaults, dotenv, environ, arguments)
         IN  /\ run_config' = SaveConfig(run_config, config, arguments)
             /\ captured' = IF captured = NoConfig THEN Started(dotenv, environ, config)
                            ELSE captured
    /\ invocations' = invocations + 1
    /\ UNCHANGED <<phase, served, engineVars, rowVars, outVars>>

StartReplay ==
    /\ phase = "collect" /\ run_config # NoConfig
    /\ \E dotenv, environ \in Source :
         served' = Started(dotenv, environ,
                           Resolve(Defaults, dotenv, environ, CapturedOverrides(run_config)))
    /\ phase' = "replay"
    /\ UNCHANGED <<invocations, run_config, captured, engineVars, rowVars, outVars>>

-----------------------------------------------------------------------------
(* The run *)

\* What vLLM counts for the turns of a conversation: isl is the whole prompt, and
\* isl_new what its own prefix cache lacked of it, the last answer included unless
\* the blocks of an answer are kept.
SumTo(counts, t) == Total(SubSeq(counts, 1, t))
OldOsl(turns, t) == SumTo([i \in DOMAIN turns |-> turns[i].osl], t - 1)
Captured(conversation) ==
    LET turns == conversation.turns
    IN  [id |-> conversation.id,
         turns |-> [t \in DOMAIN turns |->
            [isl |-> SumTo([i \in DOMAIN turns |-> turns[i].new], t) + OldOsl(turns, t),
             isl_new |-> turns[t].new + IF conversation.kept \/ t = 1 THEN 0
                                        ELSE turns[t - 1].osl,
             osl |-> turns[t].osl]]]
Session(a) == Captured(Conversations[a])

\* The longest beginning of a prompt the engine has computed before.
CachedTokens(prompt) ==
    Max({k \in 0 .. Len(prompt) :
            \E c \in cache : k <= Len(c) /\ SubSeq(c, 1, k) = SubSeq(prompt, 1, k)})

\* An answer is not what the next request says it was.
Output(a, t, n) == [i \in 1 .. n |-> <<"output", a, t, i>>]

Ready(a) == phase = "replay" /\ next[a] \in DOMAIN Session(a).turns
Troubles == Cardinality({i \in DOMAIN event_rows : event_rows[i].status_code # 200
                                                   \/ event_rows[i].error})

Send(a, processed) ==
    LET request == TurnRequest(Session(a), next[a])
    IN  /\ sent' = sent \cup {[agent |-> a, turn |-> next[a], prompt |-> request.prompt,
                               lacked |-> Len(request.prompt) - CachedTokens(request.prompt),
                               whole |-> whole[a], cold |-> cache = {<<>>}]}
        /\ cache' = IF processed
                    THEN cache \cup {request.prompt \o Output(a, next[a], request.max_tokens)}
                    ELSE cache
        /\ whole' = [whole EXCEPT ![a] = @ /\ processed]
        /\ next' = [next EXCEPT ![a] = @ + 1]

Log(ttft, status, error) ==
    /\ event_rows' = Append(event_rows, [ttft_ms |-> ttft, status_code |-> status,
                                         error |-> error])
    /\ stats' = IF error THEN [stats EXCEPT !.turns_failed = @ + 1]
                ELSE [stats EXCEPT !.turns_completed = @ + 1]

Answered(a) ==
    /\ Ready(a)
    /\ Send(a, TRUE)
    /\ \E ttft \in Ttfts : Log(ttft, 200, FALSE)
    /\ finished' = Append(finished, Session(a).turns[next[a]].osl)
    /\ UNCHANGED <<phase, configVars, generated, metric_rows, outVars>>

\* The status is noted and not looked at: a completed turn with a time to its
\* first byte.
Refused(a) ==
    /\ Ready(a) /\ Troubles < MaxTroubles
    /\ Send(a, FALSE)
    /\ \E ttft \in Ttfts : Log(ttft, 400, FALSE)
    /\ UNCHANGED <<phase, configVars, finished, generated, metric_rows, outVars>>

\* The connection breaks, before the engine has read the prompt or after.
Broken(a) ==
    /\ Ready(a) /\ Troubles < MaxTroubles
    /\ \E processed \in BOOLEAN : Send(a, processed)
    /\ Log(None, None, TRUE)
    /\ UNCHANGED <<phase, configVars, finished, generated, metric_rows, outVars>>

\* round(x / n, 1), in tenths.
Tenths(x, n) == Nearest(10 * x, n)

Poll ==
    /\ phase = "replay" /\ finished # <<>>
    /\ \E decode_ms \in DecodeTimes, osl \in Tenths(Total(finished), Len(finished)) :
         metric_rows' = Append(metric_rows, [n |-> Len(finished), decode_ms |-> decode_ms,
                                             osl |-> osl])
    /\ generated' = generated + Total(finished)
    /\ finished' = <<>>
    /\ UNCHANGED <<phase, configVars, next, whole, cache, sent, event_rows, stats, outVars>>

\* The deadline, at any time; what no poll has seen by then is in no row.
Summarise ==
    /\ phase = "replay"
    /\ \E elapsed_s \in Elapsed, power_watts \in Powers, total \in RoundedTotals(metric_rows) :
        /\ stats' = [stats EXCEPT !.elapsed_s = elapsed_s]
        /\ summary' = Summary(metric_rows, event_rows, stats', Cardinality(Agents),
                              3, 1, power_watts, total)
        /\ csv' = <<CsvRow(summary')>>
    /\ phase' = "done"
    /\ UNCHANGED <<configVars, engineVars, event_rows, metric_rows>>

Next ==
    \/ Collect \/ StartReplay \/ Poll \/ Summarise
    \/ \E a \in Agents : Answered(a) \/ Refused(a) \/ Broken(a)

Spec == Init /\ [][Next]_vars

-----------------------------------------------------------------------------
(* The settings *)

\* Whatever .env and the environment say at the time of the replay, and whatever
\* a resumed collection was told, the replay's vLLM has the settings of VllmConfig
\* the vLLM of the first collection had: README.md of trace_replay, "configured
\* automatically from the capture run's run_config.json".
ReplayServesAsCaptured ==
    served # NoConfig => \A k \in ConfigKeys : served[k] = captured[k]

-----------------------------------------------------------------------------
(* The requests *)

Turn(r) == Session(r.agent).turns[r.turn]

\* No message of the first t turns is cut at one token from below.
NothingCut(r) ==
    LET turns == Session(r.agent).turns
    IN  /\ turns[1].isl > System
        /\ \A t \in 1 .. r.turn : turns[t].isl_new > 0 /\ (t < r.turn => turns[t].osl > 0)

\* synthetic.py: however the turns of the agents interleave, a prompt is as long
\* as the captured one if the captured engine kept its answers; if it did not, each
\* earlier answer stands in the prompt twice, as a message and in isl_new.
LengthsFollowCapture ==
    \A r \in sent :
        LET conversation == Conversations[r.agent]
            again == IF conversation.kept THEN 0 ELSE OldOsl(conversation.turns, r.turn)
        IN  NothingCut(r) => Len(r.prompt) = Turn(r).isl + again

\* The prefix of a prompt is rebuilt from scratch for every turn, and it is the
\* one the engine has: after turns the engine has read, the next one costs the made-up
\* answer and the new message, never more, whoever else plays in between.
OnlyLastMessagesPrefilled ==
    \A r \in sent :
        r.whole =>
            r.lacked <= AtLeastOne(IF r.turn = 1 THEN Turn(r).isl - System ELSE Turn(r).isl_new)
                        + (IF r.turn > 1 THEN AtLeastOne(Session(r.agent).turns[r.turn - 1].osl)
                           ELSE IF r.cold THEN System ELSE 0)

\* README.md of trace_replay: "synthetic prompts matching the captured ISL, OSL, and
\* ISL_new are sent to the engine".
PromptsMatchCapture ==
    \A r \in sent :
        NothingCut(r) => Len(r.prompt) = Turn(r).isl /\ r.lacked = Turn(r).isl_new

-----------------------------------------------------------------------------
(* The summary *)

Summarised == summary # NoSummary
Times == FirstByteTimes(event_rows)

\* A percentile q of n values: the number of values up to q and below q are what
\* the rank (n - 1) * p / 100 asks for, whatever the order the rows came in.
IsPercentile(q, values, p) ==
    LET below == Cardinality({i \in DOMAIN values : 100 * values[i] < q})
        upto  == Cardinality({i \in DOMAIN values : 100 * values[i] <= q})
        rank  == (Cardinality(DOMAIN values) - 1) * p
    IN  100 * upto > rank /\ 100 * (below - 1) < rank

\* summary.py: the percentiles of the times to a first byte are percentiles, the
\* larger one is not the smaller value, and they are missing in summary.csv exactly if
\* no request had a first byte.
PercentilesSound ==
    Summarised =>
        LET d == summary.interactivity.ttft_ms
        IN  /\ d.count = Cardinality(DOMAIN Times)
            /\ csv[1].p50_ttft_ms = None <=> DOMAIN Times = {}
            /\ DOMAIN Times # {} =>
                 /\ \A p \in {25, 50, 90, 95} : IsPercentile(d.percentile[p], Times, p)
                 /\ \A p, q \in {25, 50, 90, 95} : p < q => d.percentile[p] <= d.percentile[q]

\* "multiply by n to recover the true token total" (summary.py): the tokens of the
\* requests that are in a row, up to the rounding of each average to a tenth and of
\* the total to a token.  In tenths.
TokensRecovered ==
    Summarised =>
        LET off == 10 * (summary.throughput.total_output_tokens - generated)
            n   == Total([i \in DOMAIN metric_rows |-> metric_rows[i].n])
        IN  2 * off <= n + 10 /\ -2 * off <= n + 10
=============================================================================
