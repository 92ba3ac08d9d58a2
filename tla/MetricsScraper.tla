--------------------------- MODULE MetricsScraper ---------------------------
(***************************************************************************)
(* The metrics scraper (serving/metric_scraper.py): a daemon thread polls  *)
(* the engine's cumulative Prometheus counters and turns the difference    *)
(* between two snapshots into one row of engine_metrics.jsonl, while the   *)
(* thread that entered the context manager runs the session and finally    *)
(* stops and joins it.                                                     *)
(*                                                                         *)
(* Two program threads (`main' and the poller, at `pc') and the engine     *)
(* interleave freely.  A scrape is two steps, the engine's answer and the   *)
(* poller's use of it, so the snapshot may be out of date when it is used.  *)
(* Of the summed counters one, the generated tokens, stands for all the    *)
(* ones that are divided by n.                                             *)
(***************************************************************************)
EXTENDS Integers, Sequences, FiniteSets, FiniteSetsExt, Functions

CONSTANTS
    Tokens,           \* generated tokens a request may have
    Hits,             \* prefix-cache hits a request may have
    FinishedReasons,  \* FINISHED_REASONS, in the order the code scans them
    KvLevels,         \* values of the KV-cache usage gauge
    NoSnapshot,       \* Python's None
    MaxRequests,      \* bound: requests the engine finishes
    MaxErrors,        \* bound: scrapes that raise httpx.HTTPError
    BadBodies,        \* may /metrics answer with a page that has no counters?
    MayDie,           \* may the poller meet an exception it does not catch?
    SlowScrapes       \* may a scrape outlive the 15 s join?

Reasons == {FinishedReasons[i] : i \in DOMAIN FinishedReasons}

ASSUME ScraperConstants ==
    /\ Tokens \subseteq Nat /\ Hits \subseteq Nat /\ KvLevels \subseteq Nat
    /\ FinishedReasons \in Seq(STRING)
    /\ MaxRequests \in Nat /\ MaxErrors \in Nat
    /\ BadBodies \in BOOLEAN /\ MayDie \in BOOLEAN /\ SlowScrapes \in BOOLEAN

Counters == [request_count : Nat, gen_tokens : Nat, prefix_cache_hits : Nat,
             finished_reason_counts : [Reasons -> Nat]]

Snapshot == [request_count : Nat, gen_tokens : Nat, prefix_cache_hits : Nat,
             finished_reason_counts : [Reasons -> Nat], kv_usage_pct : Nat]

ASSUME NoSnapshotIsNone == NoSnapshot \notin Snapshot

VARIABLES
    engine,     \* the engine's counters since it started
    requests,   \* history: what the engine finished, in order
    main,       \* the context manager: "out", "in", "joining", "exited"
    stop,       \* self._stop
    at_stop,    \* history: the rows there were when stop was set
    pc,         \* where the poller thread is in Poller.run
    response,   \* the answer of the scrape in flight, once there is one
    baseline,   \* the snapshot rows are measured from, or None
    peak,       \* peak_kv_usage
    window_kv,  \* history: the gauge values scraped since the baseline
    scraped,    \* history: request_count of the last snapshot the loop used
    errors,     \* failed scrapes so far
    rows,       \* engine_metrics.jsonl
    osl_total   \* LiveStats.osl_total, in tenths of a token

engineVars == <<engine, requests>>
mainVars   == <<main, stop, at_stop>>
windowVars == <<baseline, peak, window_kv, scraped>>
outVars    == <<rows, osl_total>>
vars == <<engineVars, mainVars, pc, response, windowVars, errors, outVars>>

-----------------------------------------------------------------------------
(* compute_turn_metrics *)

Delta(before, after, field) == after[field] - before[field]

\* round(d / n, 1), in tenths: the nearest one, either one on a tie (floats).
RoundedTenths(d, n) ==
    {q \in 0 .. 10 * d : 2 * (q * n - 10 * d) <= n /\ 2 * (10 * d - q * n) <= n}

\* The first reason, in scan order, that some request of the window ended for.
StopReason(before, after) ==
    LET grown == {i \in DOMAIN FinishedReasons :
                    after.finished_reason_counts[FinishedReasons[i]]
                      - before.finished_reason_counts[FinishedReasons[i]] >= 1}
    IN  IF grown = {} THEN "" ELSE FinishedReasons[Min(grown)]

\* lo, hi, era and kvs are history: the requests covered, the failed scrapes
\* before the row, and the gauge values of its window.
TurnMetrics(before, after, peak_kv_usage, n, osl) ==
    [n |-> n, osl |-> osl, stop_reason |-> StopReason(before, after),
     kv_cache_usage_pct_peak |-> peak_kv_usage,
     prefix_cache_hits |-> Delta(before, after, "prefix_cache_hits"),
     lo |-> before.request_count, hi |-> after.request_count, era |-> errors,
     kvs |-> window_kv \cup {after.kv_usage_pct}]

Rows == [n : Nat, osl : Nat, stop_reason : Reasons \cup {""},
         kv_cache_usage_pct_peak : Nat, prefix_cache_hits : Int,
         lo : Nat, hi : Nat, era : Nat, kvs : SUBSET Nat]

-----------------------------------------------------------------------------
(* The pieces of Poller.run the actions share.  A definition X_... before X is *)
(* a bug X does not have; the mutants of PROJECT.json put it in the place of X. *)

KeepPolling_Always == TRUE
KeepPolling == ~stop

NewCompletions_OffByOne == response.request_count - baseline.request_count - 1
NewCompletions == response.request_count - baseline.request_count

Peak == IF response.kv_usage_pct > peak THEN response.kv_usage_pct ELSE peak

PeakReset_Kept == peak
PeakReset == 0

\* The baseline after a row.
NextBaseline_Dropped == NoSnapshot
NextBaseline_Kept == baseline
NextBaseline == response

\* What the callback of replay_traces adds to osl_total for a row.
OslTokens(osl, n) == osl * n

\* MetricsScraper.__exit__ may go on: the thread has ended, or 15 s have passed.
Joined == pc \in {"done", "dead"} \/ SlowScrapes

-----------------------------------------------------------------------------
ZeroCounters == [request_count |-> 0, gen_tokens |-> 0, prefix_cache_hits |-> 0,
                 finished_reason_counts |-> [r \in Reasons |-> 0]]

\* What extract_metric reads from a page that lacks the counters: 0.0 for each.
ZeroSnapshot == [request_count |-> 0, gen_tokens |-> 0, prefix_cache_hits |-> 0,
                 finished_reason_counts |-> [r \in Reasons |-> 0],
                 kv_usage_pct |-> 0]

\* A file an earlier attempt at the same task left behind.
StaleRow == [n |-> 1, osl |-> 0, stop_reason |-> "", kv_cache_usage_pct_peak |-> 0,
             prefix_cache_hits |-> 0, lo |-> 0, hi |-> 1, era |-> 0, kvs |-> {0}]

Init ==
    /\ engine = ZeroCounters /\ requests = <<>>
    /\ main = "out" /\ stop = FALSE /\ at_stop = 0
    /\ pc = "off" /\ response = NoSnapshot
    /\ baseline = NoSnapshot /\ peak = 0 /\ window_kv = {} /\ scraped = 0
    /\ errors = 0
    /\ rows \in {<<>>, <<StaleRow>>} /\ osl_total = 0

-----------------------------------------------------------------------------
(* The engine *)

Finish(tokens, hits, reason) ==
    /\ engine.request_count < MaxRequests
    /\ engine' = [request_count |-> engine.request_count + 1,
                  gen_tokens |-> engine.gen_tokens + tokens,
                  prefix_cache_hits |-> engine.prefix_cache_hits + hits,
                  finished_reason_counts |->
                      [engine.finished_reason_counts EXCEPT ![reason] = @ + 1]]
    /\ requests' = Append(requests, [tokens |-> tokens, hits |-> hits, reason |-> reason])
    /\ UNCHANGED <<mainVars, pc, response, windowVars, errors, outVars>>

InFlight == pc \in {"baselineFetch", "fetch"} /\ response = NoSnapshot

\* The engine evaluates /metrics; the poller has yet to see the answer.
Answer(kv) ==
    /\ InFlight
    /\ response' = [request_count |-> engine.request_count,
                    gen_tokens |-> engine.gen_tokens,
                    prefix_cache_hits |-> engine.prefix_cache_hits,
                    finished_reason_counts |-> engine.finished_reason_counts,
                    kv_usage_pct |-> kv]
    /\ UNCHANGED <<engineVars, mainVars, pc, windowVars, errors, outVars>>

\* An error page: the status is not looked at, and no line of it matches.
AnswerWithoutCounters ==
    /\ BadBodies /\ InFlight
    /\ response' = ZeroSnapshot
    /\ UNCHANGED <<engineVars, mainVars, pc, windowVars, errors, outVars>>

-----------------------------------------------------------------------------
(* The context manager *)

Enter ==
    /\ main = "out"
    /\ main' = "in"
    /\ rows' = <<>>
    /\ pc' = "baseline"
    /\ UNCHANGED <<engineVars, stop, at_stop, response, windowVars, errors, osl_total>>

SetStop ==
    /\ main = "in"
    /\ main' = "joining" /\ stop' = TRUE /\ at_stop' = Len(rows)
    /\ UNCHANGED <<engineVars, pc, response, windowVars, errors, outVars>>

JoinReturns ==
    /\ main = "joining"
    /\ Joined
    /\ main' = "exited"
    /\ UNCHANGED <<engineVars, stop, at_stop, pc, response, windowVars, errors, outVars>>

-----------------------------------------------------------------------------
(* Poller.run: the baseline *)

BaselineCheck ==
    /\ pc = "baseline"
    /\ pc' = IF KeepPolling THEN "baselineFetch" ELSE "loop"
    /\ UNCHANGED <<engineVars, mainVars, response, windowVars, errors, outVars>>

BaselineTaken ==
    /\ pc = "baselineFetch" /\ response # NoSnapshot
    /\ baseline' = response /\ scraped' = response.request_count
    /\ response' = NoSnapshot
    /\ pc' = "loop"
    /\ UNCHANGED <<engineVars, mainVars, peak, window_kv, errors, outVars>>

BaselineFails ==
    /\ pc = "baselineFetch" /\ errors < MaxErrors
    /\ errors' = errors + 1
    /\ response' = NoSnapshot
    /\ pc' = "baselineRetry"
    /\ UNCHANGED <<engineVars, mainVars, windowVars, outVars>>

BaselineRetry ==
    /\ pc = "baselineRetry"
    /\ pc' = "baseline"
    /\ UNCHANGED <<engineVars, mainVars, response, windowVars, errors, outVars>>

-----------------------------------------------------------------------------
(* Poller.run: the loop *)

LoopCheck ==
    /\ pc = "loop"
    /\ pc' = IF KeepPolling THEN "sleep" ELSE "done"
    /\ UNCHANGED <<engineVars, mainVars, response, windowVars, errors, outVars>>

Wake ==
    /\ pc = "sleep"
    /\ pc' = "fetch"
    /\ UNCHANGED <<engineVars, mainVars, response, windowVars, errors, outVars>>

\* httpx.HTTPError: the window is given up.
ScrapeFails ==
    /\ pc = "fetch" /\ errors < MaxErrors
    /\ errors' = errors + 1
    /\ baseline' = NoSnapshot /\ peak' = PeakReset /\ window_kv' = {}
    /\ response' = NoSnapshot
    /\ pc' = "loop"
    /\ UNCHANGED <<engineVars, mainVars, scraped, outVars>>

Fetched == pc = "fetch" /\ response # NoSnapshot

Rebase ==
    /\ Fetched /\ baseline = NoSnapshot
    /\ baseline' = response /\ scraped' = response.request_count
    /\ response' = NoSnapshot
    /\ pc' = "loop"
    /\ UNCHANGED <<engineVars, mainVars, peak, window_kv, errors, outVars>>

Quiet ==
    /\ Fetched /\ baseline # NoSnapshot
    /\ ~(NewCompletions >= 1)
    /\ peak' = Peak /\ window_kv' = window_kv \cup {response.kv_usage_pct}
    /\ scraped' = response.request_count
    /\ response' = NoSnapshot
    /\ pc' = "loop"
    /\ UNCHANGED <<engineVars, mainVars, baseline, errors, outVars>>

\* The row, the callback into LiveStats, and the new baseline.
Record ==
    /\ Fetched /\ baseline # NoSnapshot
    /\ NewCompletions >= 1
    /\ \E osl \in RoundedTenths(Delta(baseline, response, "gen_tokens"), NewCompletions) :
          /\ rows' = Append(rows, TurnMetrics(baseline, response, Peak, NewCompletions, osl))
          /\ osl_total' = osl_total + OslTokens(osl, NewCompletions)
    /\ baseline' = NextBaseline /\ scraped' = response.request_count
    /\ peak' = PeakReset /\ window_kv' = {}
    /\ response' = NoSnapshot
    /\ pc' = "loop"
    /\ UNCHANGED <<engineVars, mainVars, errors>>

\* An exception other than httpx.HTTPError ends the thread: a counter that is
\* not a number, a disk that is full.
Die ==
    /\ MayDie
    /\ pc \in {"baselineFetch", "fetch"} /\ response # NoSnapshot
    /\ response' = NoSnapshot
    /\ pc' = "dead"
    /\ UNCHANGED <<engineVars, mainVars, windowVars, errors, outVars>>

-----------------------------------------------------------------------------
EngineStep == \E tokens \in Tokens, hits \in Hits, reason \in Reasons :
                 Finish(tokens, hits, reason)

Scrape == AnswerWithoutCounters \/ \E kv \in KvLevels : Answer(kv)

Baseline == BaselineCheck \/ BaselineTaken \/ BaselineFails \/ BaselineRetry

Loop == LoopCheck \/ Wake \/ ScrapeFails \/ Rebase \/ Quiet \/ Record

\* The poller, and the answers it waits for: the 10 s timeout of the request
\* turns a silent engine into a failed scrape.
ThreadStep == Scrape \/ Baseline \/ Loop \/ Die

\* The program has stopped: nothing but the engine is left to move.
Terminated == main = "exited" /\ pc \in {"done", "dead"} /\ UNCHANGED vars

Next == EngineStep \/ Enter \/ SetStop \/ JoinReturns \/ ThreadStep \/ Terminated

Spec == Init /\ [][Next]_vars

FairSpec == Spec /\ WF_vars(ThreadStep) /\ WF_vars(JoinReturns)

-----------------------------------------------------------------------------
(* Properties *)

TypeOK ==
    /\ engine \in Counters
    /\ requests \in Seq([tokens : Tokens, hits : Hits, reason : Reasons])
    /\ main \in {"out", "in", "joining", "exited"}
    /\ stop \in BOOLEAN /\ at_stop \in Nat
    /\ pc \in {"off", "baseline", "baselineFetch", "baselineRetry",
               "loop", "sleep", "fetch", "done", "dead"}
    /\ response \in Snapshot \cup {NoSnapshot}
    /\ baseline \in Snapshot \cup {NoSnapshot}
    /\ peak \in Nat /\ window_kv \in SUBSET Nat
    /\ scraped \in Nat /\ errors \in Nat
    /\ rows \in Seq(Rows) /\ osl_total \in Nat

\* A request is counted by at most one row, and only once it has finished: the
\* windows of the rows of this session are not empty, do not overlap and follow
\* the order of completion, whatever the file held before (metric_scraper.py,
\* __enter__ and run: baseline moves to the snapshot a row ends with).
WindowsOrdered ==
    main # "out" =>
        /\ \A i \in DOMAIN rows : rows[i].lo < rows[i].hi /\ rows[i].hi <= engine.request_count
        /\ \A i, j \in DOMAIN rows : i < j => rows[i].hi <= rows[j].lo

\* Completions between two rows are lost only when a scrape failed in between:
\* with no error the next row starts, and the open window starts, where the last
\* row ended.
LossOnlyByError ==
    main # "out" =>
        /\ \A i \in 1 .. Len(rows) - 1 :
              rows[i].era = rows[i + 1].era => rows[i].hi = rows[i + 1].lo
        /\ (rows # <<>> /\ baseline # NoSnapshot /\ rows[Len(rows)].era = errors) =>
              rows[Len(rows)].hi = baseline.request_count

\* A completion the loop has seen in a snapshot is in a row (or, for the first
\* snapshot after a failure, in the baseline): none is seen and then forgotten.
SeenIsAccounted ==
    baseline # NoSnapshot => scraped = baseline.request_count

\* Generated tokens, and prefix-cache hits, of the requests lo + 1 .. hi.
TokensOf(lo, hi) == SumFunction([k \in (lo + 1) .. hi |-> requests[k].tokens])
HitsOf(lo, hi) == SumFunction([k \in (lo + 1) .. hi |-> requests[k].hits])

Near(x, y, tolerance) == x - y <= tolerance /\ y - x <= tolerance

\* A row describes the requests of its window: it counts them, its osl is their
\* average to the nearest tenth, its prefix_cache_hits are their sum (README.md:18
\* calls them an average), its stop_reason is the reason of one of them, and its
\* peak is the highest gauge scraped since the window was opened and not that of
\* an earlier window (compute_turn_metrics, peak_kv_usage in run).  And the live
\* token total of the replay is the tokens of the requests in the rows, up to the
\* rounding of an average (0.05 per request; engine.py, _update_live_metrics).
RowsDescribeTheirWindow ==
    main # "out" =>
        /\ \A i \in DOMAIN rows : LET r == rows[i] IN
              /\ r.n = r.hi - r.lo
              /\ Near(2 * r.osl * r.n, 20 * TokensOf(r.lo, r.hi), r.n)
              /\ r.prefix_cache_hits = HitsOf(r.lo, r.hi)
              /\ \E k \in (r.lo + 1) .. r.hi : requests[k].reason = r.stop_reason
              /\ r.kv_cache_usage_pct_peak = Max(r.kvs)
        /\ LET tokens  == SumFunction([i \in DOMAIN rows |-> TokensOf(rows[i].lo, rows[i].hi)])
               counted == SumFunction([i \in DOMAIN rows |-> rows[i].n])
           IN  Near(2 * osl_total, 20 * tokens, counted)

\* Wherever stop finds the poller, asleep or with a scrape on its way, one more
\* row is written at most, and after it nothing.  The join gives up after 15 s, so
\* that row may come when __exit__ has returned: a reader of the file then misses
\* that one and no other (Poller.run looks at stop before each sleep, and only there).
OneLateRow == stop => Len(rows) <= at_stop + 1

\* Once stop is set the poller ends, wherever it was, and __exit__ returns.
StopEndsThread == stop ~> (main = "exited" /\ pc \in {"done", "dead"})

Accounted(k) == \E i \in DOMAIN rows : rows[i].lo < k /\ k <= rows[i].hi

\* A request that finishes while a baseline is held gets its row, unless a scrape
\* fails, the poller dies or the session is stopped first.
CompletionGetsRow ==
    \A k \in 1 .. MaxRequests, e \in 0 .. MaxErrors :
        (/\ baseline # NoSnapshot /\ errors = e
         /\ baseline.request_count < k /\ k <= engine.request_count)
            ~> (Accounted(k) \/ errors > e \/ pc = "dead" \/ stop)

\* The windows of this session's rows: what CompletionLog knows of them.
Window(row) == [lo |-> row.lo, hi |-> row.hi]
Logged == IF main = "out" THEN <<>> ELSE [i \in DOMAIN rows |-> Window(rows[i])]

Abstract == INSTANCE CompletionLog
                WITH finished <- engine.request_count, logged <- Logged

\* The rows are a completion log: append-only, in order, each request once.
ImplementsCompletionLog == Abstract!Spec
=============================================================================
