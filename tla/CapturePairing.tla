--------------------------- MODULE CapturePairing ---------------------------
(***************************************************************************)
(* From one session to the turns that are replayed: the proxy logs a row for *)
(* each answer (TraceProxy), the scraper a row for each tick in which the    *)
(* engine has finished something (CompletionLog, which MetricsScraper       *)
(* implements), and trace_replay/trace_loader.py zips the two files, row by  *)
(* row: the token counts of a turn are taken from one, its pause from the    *)
(* other.  Neither file says which request a row is about.                 *)
(***************************************************************************)
EXTENDS TraceProxy, SequencesExt

VARIABLES
    completions,    \* the requests vLLM counts as successful, in order
    engine_rows     \* engine_metrics.jsonl: row k covers completions lo + 1 .. hi

pairVars == <<vars, completions, engine_rows>>

Scraper == INSTANCE CompletionLog WITH
    finished <- Len(completions), logged <- engine_rows

PairInit == Init /\ completions = <<>> /\ engine_rows = <<>>

\* vLLM counts what it has answered with a generation.
Counted(r) == requests[r].status = "sent" /\ requests'[r].http = "200"

ProxyStep ==
    /\ Next
    /\ completions' = completions \o
           SetToSeq({r \in DOMAIN requests :
               Counted(r) /\ requests'[r].status = "finished"})
    /\ UNCHANGED engine_rows

\* A tick of the scraper: everything since the row before, but for scrapes that failed.
EngineRow(lo, hi) ==
    /\ UNCHANGED <<vars, completions>>
    /\ Scraper!Log(lo, hi)

PairNext == ProxyStep
            \/ \E lo, hi \in 0 .. Len(completions) : EngineRow(lo, hi)

PairSpec == PairInit /\ [][PairNext]_pairVars

-----------------------------------------------------------------------------
(* _load_session_from_dir.  Partner_FromEnd is a bug it does not have.          *)

\* The row of turn_traces.jsonl that row k of engine_metrics.jsonl is zipped with.
Partner_FromEnd(k) == k + Len(rows) - Len(engine_rows)
Partner(k) == k

\* "using the shorter": a turn for each k that both files have.
TurnIndices == {k \in DOMAIN engine_rows : Partner(k) \in DOMAIN rows}

LoadedTurns == [k \in TurnIndices |-> [engine |-> engine_rows[k], trace |-> rows[Partner(k)]]]

-----------------------------------------------------------------------------
(* Properties *)

\* The token counts and the pause of a loaded turn are those of one request.
SameRequest(k) ==
    LET turn == LoadedTurns[k] IN
    /\ turn.engine.hi = turn.engine.lo + 1
    /\ completions[turn.engine.hi] = turn.trace.request

\* In a session of one conversation whose requests have all been answered well, a
\* turn is loaded right as long as no row before it has merged or skipped
\* completions: titles, opaque bodies and a missing last row do no harm.
PairedUntilMerge ==
    (Cardinality(Agents) = 1 /\ troubles = 0 /\ give_ups = 0) =>
        \A k \in TurnIndices :
            (\A j \in 1 .. k : engine_rows[j].lo = j - 1 /\ engine_rows[j].hi = j)
                => SameRequest(k)
=============================================================================
