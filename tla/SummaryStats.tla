---------------------------- MODULE SummaryStats ----------------------------
(***************************************************************************)
(* The numbers of summary.json (trace_replay/summary.py), computed from the  *)
(* rows of the two .jsonl files.  Numbers are integers: a percentile is in    *)
(* hundredths, an osl in tenths (the scraper rounds it to one), a ratio in    *)
(* thousandths and cut off there; the total of the tokens is rounded to one.  *)
(* None stands for a value that is missing.                                   *)
(* A list that is only summed and sorted is a function from the rows its      *)
(* values come from.                                                         *)
(***************************************************************************)
EXTENDS Integers, SequencesExt

CONSTANT None

ASSUME NoneIsNoNumber == None \notin Int

Total(values) == SumFunction(values)

\* round(x / n): the nearest integer, either one on a tie (the values are floats).
Nearest(x, n) ==
    {q \in {x \div n, x \div n + 1} : 2 * (q * n - x) <= n /\ 2 * (x - q * n) <= n}

\* _interpolate_percentile, in hundredths; a definition X_... before X is a bug
\* X does not have, put in the place of X by a mutant of PROJECT.json.
Rank_CountsAll(ordered, p) == Len(ordered) * p
Rank(ordered, p) == (Len(ordered) - 1) * p
Percentile(ordered, p) ==
    LET lo   == Rank(ordered, p) \div 100 + 1
        hi   == IF lo < Len(ordered) THEN lo + 1 ELSE lo
        part == Rank(ordered, p) % 100
    IN  ordered[lo] * (100 - part) + ordered[hi] * part

\* sorted(): of the values below the i-th there are fewer than i, and of those up
\* to it at least i.
AtPlace(v, i, values) ==
    /\ Cardinality({k \in DOMAIN values : values[k] < v}) < i
    /\ Cardinality({k \in DOMAIN values : values[k] <= v}) >= i
Ordered(values) ==
    [i \in 1 .. Cardinality(DOMAIN values) |-> CHOOSE v \in Range(values) : AtPlace(v, i, values)]

NoDistribution == [count |-> 0]
Distribution(values) ==
    IF DOMAIN values = {} THEN NoDistribution
    ELSE LET ordered == Ordered(values)
         IN  [count |-> Len(ordered), sum |-> Total(values),
              percentile |-> [p \in {25, 50, 90, 95} |-> Percentile(ordered, p)]]

SafeDivide(numerator, denominator) ==
    IF denominator \in {0, None} THEN None ELSE (1000 * numerator) \div denominator

\* x / measurement_s if measurement_s else 0.0
PerSecond(count, seconds) == IF seconds = 0 THEN 0 ELSE (1000 * count) \div seconds

HasNumbers(row) == row.osl > 0 /\ row.decode_ms > 0
OutputSpeed(row) == (100 * row.osl) \div row.decode_ms

FirstByteTimes(event_rows) ==
    LET kept == {i \in DOMAIN event_rows : event_rows[i].ttft_ms # None}
    IN  [i \in kept |-> event_rows[i].ttft_ms]
OutputSpeeds(metric_rows) ==
    LET kept == {i \in DOMAIN metric_rows : HasNumbers(metric_rows[i])}
    IN  [i \in kept |-> OutputSpeed(metric_rows[i])]

LatencyStats(metric_rows, event_rows) ==
    [ttft_ms |-> Distribution(FirstByteTimes(event_rows)),
     output_tokens_per_s |-> Distribution(OutputSpeeds(metric_rows))]

\* An osl is an average over n requests; in tenths.
RowTokens_Once(row) == row.osl
RowTokens(row) == row.osl * row.n
TotalOutputTokens(metric_rows) ==
    Total([i \in DOMAIN metric_rows |-> RowTokens(metric_rows[i])])

\* What is written of the total: whole tokens.
RoundedTotals(metric_rows) == Nearest(TotalOutputTokens(metric_rows), 10)

\* `total' is one of RoundedTotals; the rate is that of the tenths.
ThroughputStats(metric_rows, event_rows, stats, measurement_s, total) ==
    [total_output_tokens |-> total,
     system_output_tokens_per_s |->
         PerSecond(TotalOutputTokens(metric_rows), measurement_s) \div 10,
     turns_per_s |-> PerSecond(stats.turns_completed, measurement_s),
     requests_per_s |-> PerSecond(Len(event_rows), measurement_s)]

\* Watts become megawatts; the factor is left out.
PowerMw(power_watts) == IF power_watts \in {0, None} THEN None ELSE power_watts

EfficiencyRatios(throughput, concurrency, gpus, power_mw) ==
    [agents_per_gpu |-> SafeDivide(concurrency, gpus),
     turns_per_s_per_gpu |-> SafeDivide(throughput.turns_per_s, gpus),
     agents_per_mw |-> SafeDivide(concurrency, power_mw),
     output_tokens_per_s_per_mw |->
         SafeDivide(throughput.system_output_tokens_per_s, power_mw)]

\* compute_and_write_summary; elapsed_s or duration_s
Summary(metric_rows, event_rows, stats, concurrency, duration_s, gpus, power_watts, total) ==
    LET measurement_s == IF stats.elapsed_s = 0 THEN duration_s ELSE stats.elapsed_s
        throughput == ThroughputStats(metric_rows, event_rows, stats, measurement_s, total)
    IN  [completed_turns |-> stats.turns_completed, failed_turns |-> stats.turns_failed,
         metric_rows |-> Len(metric_rows), event_rows |-> Len(event_rows),
         throughput |-> throughput,
         interactivity |-> LatencyStats(metric_rows, event_rows),
         normalization |-> EfficiencyRatios(throughput, concurrency, gpus,
                                             PowerMw(power_watts))]

\* _flatten_for_csv takes a percentile of a distribution that may be empty.
CsvPercentile(distribution, p) ==
    IF distribution.count = 0 THEN None ELSE distribution.percentile[p]
CsvRow(summary) ==
    [completed_turns |-> summary.completed_turns, failed_turns |-> summary.failed_turns,
     turns_per_s |-> summary.throughput.turns_per_s,
     p50_ttft_ms |-> CsvPercentile(summary.interactivity.ttft_ms, 50),
     p95_ttft_ms |-> CsvPercentile(summary.interactivity.ttft_ms, 95),
     p25_output_tokens_per_s |-> CsvPercentile(summary.interactivity.output_tokens_per_s, 25),
     agents_per_gpu |-> summary.normalization.agents_per_gpu,
     agents_per_mw |-> summary.normalization.agents_per_mw]
=============================================================================
