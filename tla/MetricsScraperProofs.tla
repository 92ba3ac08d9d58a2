------------------------ MODULE MetricsScraperProofs ------------------------
(***************************************************************************)
(* Theorems about MetricsScraper, for every value of its constants.        *)
(***************************************************************************)
EXTENDS MetricsScraper, FoldLemmas

-----------------------------------------------------------------------------
(* What the operators of the model return *)

\* compute_turn_metrics finds one of FINISHED_REASONS, or none.
LEMMA StopReasonType ==
  ASSUME NEW before \in Snapshot, NEW after \in Snapshot
  PROVE  StopReason(before, after) \in Reasons \cup {""}
<1> DEFINE grown == {i \in DOMAIN FinishedReasons :
                       after.finished_reason_counts[FinishedReasons[i]]
                         - before.finished_reason_counts[FinishedReasons[i]] >= 1}
<1>1. grown \in SUBSET Nat
  BY ScraperConstants
<1>2. CASE grown = {}
  BY <1>2 DEF StopReason
<1>3. CASE grown # {}
  <2>1. Min(grown) \in DOMAIN FinishedReasons
    BY <1>1, <1>3, MinOfNaturals
  <2> QED
    BY <1>3, <2>1 DEF StopReason, Reasons
<1> QED
  BY <1>2, <1>3

\* The nearest tenths are natural numbers.
LEMMA RoundedTenthsType ==
  ASSUME NEW d, NEW n
  PROVE  RoundedTenths(d, n) \subseteq Nat
BY DEF RoundedTenths

-----------------------------------------------------------------------------
(* Type correctness *)

LEMMA TypeInit == Init => TypeOK
<1> SUFFICES ASSUME Init
             PROVE  TypeOK
  OBVIOUS
<1>1. engine \in Counters
  BY DEF Init, ZeroCounters, Counters
<1>2. rows \in Seq(Rows)
  <2>1. /\ {0} \in SUBSET Nat /\ "" \in Reasons \cup {""}
        /\ 0 \in Nat /\ 1 \in Nat /\ 0 \in Int
    OBVIOUS
  <2>2. StaleRow \in Rows
    BY <2>1, Zenon DEF StaleRow, Rows
  <2>3. <<StaleRow>> \in Seq(Rows) /\ <<>> \in Seq(Rows)
    BY <2>2
  <2> QED
    BY <2>3 DEF Init
<1>3. requests \in Seq([tokens : Tokens, hits : Hits, reason : Reasons])
  BY DEF Init
<1>4. /\ window_kv = {} /\ response = NoSnapshot /\ baseline = NoSnapshot
      /\ main = "out" /\ pc = "off" /\ stop = FALSE /\ at_stop = 0
      /\ peak = 0 /\ scraped = 0 /\ errors = 0 /\ osl_total = 0
  BY DEF Init
<1> QED
  BY <1>1, <1>2, <1>3, <1>4 DEF TypeOK

LEMMA RecordType == TypeOK /\ Record => TypeOK'
<1> SUFFICES ASSUME TypeOK, Record
             PROVE  TypeOK'
  OBVIOUS
<1>1. baseline \in Snapshot /\ response \in Snapshot
  BY DEF TypeOK, Record, Fetched
<1>2. NewCompletions \in Nat
  BY <1>1 DEF Record, NewCompletions, Snapshot
<1>3. Peak \in Nat /\ response.kv_usage_pct \in Nat
  BY <1>1 DEF Peak, TypeOK, Snapshot
<1>4. PICK osl \in RoundedTenths(Delta(baseline, response, "gen_tokens"), NewCompletions) :
        /\ rows' = Append(rows, TurnMetrics(baseline, response, Peak, NewCompletions, osl))
        /\ osl_total' = osl_total + OslTokens(osl, NewCompletions)
  BY DEF Record
<1>5. osl \in Nat
  BY <1>4, RoundedTenthsType
<1>6. TurnMetrics(baseline, response, Peak, NewCompletions, osl) \in Rows
  <2>1. StopReason(baseline, response) \in Reasons \cup {""}
    BY <1>1, StopReasonType
  <2>2. Delta(baseline, response, "prefix_cache_hits") \in Int
    BY <1>1 DEF Delta, Snapshot
  <2>3. baseline.request_count \in Nat /\ response.request_count \in Nat
    BY <1>1 DEF Snapshot
  <2>4. errors \in Nat /\ window_kv \cup {response.kv_usage_pct} \in SUBSET Nat
    BY <1>3 DEF TypeOK
  <2> QED
    BY <1>2, <1>3, <1>5, <2>1, <2>2, <2>3, <2>4 DEF TurnMetrics, Rows
<1>7. rows' \in Seq(Rows)
  BY <1>4, <1>6 DEF TypeOK
<1>8. osl_total' \in Nat
  BY <1>2, <1>4, <1>5 DEF TypeOK, OslTokens
<1>9. scraped' \in Nat
  BY <1>1 DEF Record, Snapshot
<1> QED
  BY <1>1, <1>7, <1>8, <1>9
  DEF TypeOK, Record, NextBaseline, PeakReset, engineVars, mainVars

LEMMA TypeStep == TypeOK /\ [Next]_vars => TypeOK'
<1> SUFFICES ASSUME TypeOK, [Next]_vars
             PROVE  TypeOK'
  OBVIOUS
<1> USE DEF TypeOK, engineVars, mainVars, windowVars, outVars
<1>1. ASSUME NEW tokens \in Tokens, NEW hits \in Hits, NEW reason \in Reasons,
             Finish(tokens, hits, reason)
      PROVE  TypeOK'
  <2>1. engine' \in Counters
    <3> DEFINE counts == engine.finished_reason_counts
    <3>1. engine.request_count + 1 \in Nat /\ engine.gen_tokens + tokens \in Nat
          /\ engine.prefix_cache_hits + hits \in Nat
      BY ScraperConstants DEF Counters
    <3>2. [counts EXCEPT ![reason] = @ + 1] \in [Reasons -> Nat]
      BY DEF Counters
    <3>3. engine' = [request_count |-> engine.request_count + 1,
                     gen_tokens |-> engine.gen_tokens + tokens,
                     prefix_cache_hits |-> engine.prefix_cache_hits + hits,
                     finished_reason_counts |-> [counts EXCEPT ![reason] = @ + 1]]
      BY <1>1 DEF Finish
    <3> HIDE DEF counts, TypeOK
    <3> QED
      BY <3>1, <3>2, <3>3 DEF Counters
  <2>2. requests' \in Seq([tokens : Tokens, hits : Hits, reason : Reasons])
    BY <1>1 DEF Finish
  <2> QED
    BY <1>1, <2>1, <2>2 DEF Finish
<1>2. CASE AnswerWithoutCounters
  BY <1>2 DEF AnswerWithoutCounters, ZeroSnapshot, Snapshot, InFlight
<1>3. ASSUME NEW kv \in KvLevels, Answer(kv)
      PROVE  TypeOK'
  <2>1. response' \in Snapshot
    BY <1>3, ScraperConstants DEF Answer, Snapshot, Counters
  <2> QED
    BY <1>3, <2>1 DEF Answer
<1>4. CASE Enter
  BY <1>4 DEF Enter
<1>5. CASE SetStop
  BY <1>5 DEF SetStop, Counters
<1>6. CASE JoinReturns
  BY <1>6 DEF JoinReturns
<1>7. CASE Baseline
  <2>1. CASE BaselineCheck \/ BaselineRetry
    BY <2>1 DEF BaselineCheck, BaselineRetry
  <2>2. CASE BaselineTaken
    BY <2>2 DEF BaselineTaken, Snapshot
  <2>3. CASE BaselineFails
    BY <2>3 DEF BaselineFails
  <2> QED
    BY <1>7, <2>1, <2>2, <2>3 DEF Baseline
<1>8. CASE LoopCheck \/ Wake
  BY <1>8 DEF LoopCheck, Wake
<1>9. CASE ScrapeFails
  BY <1>9 DEF ScrapeFails, PeakReset
<1>10. CASE Rebase
  BY <1>10 DEF Rebase, Fetched, Snapshot
<1>11. CASE Quiet
  BY <1>11 DEF Quiet, Fetched, Peak, Snapshot
<1>12. CASE Record
  BY <1>12, RecordType
<1>13. CASE Die
  BY <1>13 DEF Die
<1>14. CASE UNCHANGED vars
  BY <1>14 DEF vars
<1> QED
  BY <1>1, <1>2, <1>3, <1>4, <1>5, <1>6, <1>7, <1>8, <1>9, <1>10, <1>11, <1>12, <1>13, <1>14
  DEF Next, EngineStep, ThreadStep, Scrape, Loop, Terminated

\* Every variable keeps its type, however many requests finish, scrapes fail or
\* error pages arrive.
THEOREM TypeCorrect == Spec => []TypeOK
<1>1. Init => TypeOK
  BY TypeInit
<1>2. TypeOK /\ [Next]_vars => TypeOK'
  BY TypeStep
<1> QED
  BY <1>1, <1>2, PTL DEF Spec

-----------------------------------------------------------------------------
(* Where the poller is, and what it holds there *)

\* Before Enter there is no snapshot; before the loop there is no baseline, and
\* no row of this session.
PhaseInv ==
    /\ main = "out" => pc = "off" /\ baseline = NoSnapshot /\ response = NoSnapshot
    /\ (main # "out" /\ pc \in {"baseline", "baselineFetch", "baselineRetry"}) =>
          baseline = NoSnapshot /\ rows = <<>>

LEMMA PhaseStep == PhaseInv /\ [Next]_vars => PhaseInv'
<1> SUFFICES ASSUME PhaseInv, [Next]_vars
             PROVE  PhaseInv'
  OBVIOUS
<1> USE DEF PhaseInv, engineVars, mainVars, windowVars, outVars
<1>1. CASE EngineStep
  BY <1>1 DEF EngineStep, Finish
<1>2. CASE Enter \/ SetStop \/ JoinReturns
  BY <1>2 DEF Enter, SetStop, JoinReturns
<1>3. CASE Scrape
  BY <1>3 DEF Scrape, Answer, AnswerWithoutCounters, InFlight
<1>4. CASE Baseline
  BY <1>4 DEF Baseline, BaselineCheck, BaselineTaken, BaselineFails, BaselineRetry
<1>5. CASE Loop
  BY <1>5 DEF Loop, LoopCheck, Wake, ScrapeFails, Rebase, Quiet, Record, Fetched
<1>6. CASE Die
  BY <1>6 DEF Die
<1>7. CASE UNCHANGED vars
  BY <1>7 DEF vars
<1> QED
  BY <1>1, <1>2, <1>3, <1>4, <1>5, <1>6, <1>7 DEF Next, ThreadStep, Terminated

LEMMA PhaseCorrect == Spec => []PhaseInv
<1>1. Init => PhaseInv
  BY DEF Init, PhaseInv
<1> QED
  BY <1>1, PhaseStep, PTL DEF Spec

-----------------------------------------------------------------------------
(* At most one row per request *)

\* No row reaches beyond the snapshot s.
RowsUpTo(s) == \A i \in DOMAIN rows : rows[i].hi <= s.request_count

\* WindowsOrdered, made inductive: a snapshot counts no more than the engine has
\* finished, no row reaches beyond the baseline, and (error pages apart) none
\* beyond the answer in flight.  Where error pages may come, there is a baseline
\* or no row yet, so that a page of zeros is never taken for a new baseline.
OrderInv ==
    /\ WindowsOrdered
    /\ baseline # NoSnapshot => baseline.request_count <= engine.request_count
    /\ response # NoSnapshot => response.request_count <= engine.request_count
    /\ main # "out" =>
          /\ baseline # NoSnapshot => RowsUpTo(baseline)
          /\ BadBodies /\ baseline = NoSnapshot => rows = <<>>
          /\ ~BadBodies /\ response # NoSnapshot =>
                /\ RowsUpTo(response)
                /\ baseline # NoSnapshot => baseline.request_count <= response.request_count

\* What the code needs to count once: error pages and failed scrapes do not meet.
NoErrorPageRebase == ~BadBodies \/ MaxErrors = 0

\* The window of a row is a pair of naturals.
LEMMA WindowType ==
  ASSUME TypeOK
  PROVE  \A i \in DOMAIN rows : rows[i].lo \in Nat /\ rows[i].hi \in Nat /\ rows[i].era \in Nat
<1>1. \A i \in DOMAIN rows : rows[i] \in Rows
  BY DEF TypeOK
<1> QED
  BY <1>1 DEF Rows

\* Appending a row keeps the others.
LEMMA AppendRow ==
  ASSUME NEW row, rows \in Seq(Rows), rows' = Append(rows, row)
  PROVE  /\ Len(rows) \in Nat /\ DOMAIN rows = 1 .. Len(rows)
         /\ Len(rows') = Len(rows) + 1
         /\ DOMAIN rows' = 1 .. Len(rows) + 1
         /\ rows'[Len(rows) + 1] = row
         /\ \A i \in DOMAIN rows : rows'[i] = rows[i]
OBVIOUS

LEMMA OrderRecord ==
  ASSUME TypeOK, PhaseInv, OrderInv, Record
  PROVE  OrderInv'
<1>1. baseline \in Snapshot /\ response \in Snapshot /\ response # NoSnapshot /\ baseline # NoSnapshot
  BY DEF TypeOK, Record, Fetched
<1>2. /\ baseline.request_count \in Nat /\ response.request_count \in Nat
      /\ engine.request_count \in Nat
  BY <1>1 DEF Snapshot, TypeOK, Counters
<1>3. main # "out" /\ main' = main /\ engine' = engine
  BY DEF PhaseInv, Record, Fetched, mainVars, engineVars
<1>4. baseline.request_count < response.request_count
  BY <1>2 DEF Record, NewCompletions
<1>5. PICK row : /\ rows' = Append(rows, row)
                 /\ row.lo = baseline.request_count /\ row.hi = response.request_count
  BY DEF Record, TurnMetrics
<1>6. rows \in Seq(Rows)
  BY DEF TypeOK
<1>7. /\ Len(rows) \in Nat /\ DOMAIN rows = 1 .. Len(rows)
      /\ DOMAIN rows' = 1 .. Len(rows) + 1
      /\ rows'[Len(rows) + 1] = row
      /\ \A i \in DOMAIN rows : rows'[i] = rows[i] /\ rows[i].hi \in Nat /\ rows[i].lo \in Nat
  BY <1>5, <1>6, AppendRow, WindowType
<1>8. RowsUpTo(baseline) /\ WindowsOrdered
  BY <1>1, <1>3 DEF OrderInv
<1>9. WindowsOrdered'
  <2>1. ASSUME NEW i \in DOMAIN rows'
        PROVE  rows'[i].lo < rows'[i].hi /\ rows'[i].hi <= engine'.request_count
    <3>1. CASE i \in DOMAIN rows
      BY <3>1, <1>3, <1>7, <1>8 DEF WindowsOrdered
    <3>2. CASE i = Len(rows) + 1
      BY <3>2, <1>1, <1>2, <1>3, <1>4, <1>5, <1>7 DEF OrderInv
    <3> QED
      BY <3>1, <3>2, <1>7
  <2>2. ASSUME NEW i \in DOMAIN rows', NEW j \in DOMAIN rows', i < j
        PROVE  rows'[i].hi <= rows'[j].lo
    <3>1. CASE j \in DOMAIN rows
      BY <3>1, <2>2, <1>3, <1>7, <1>8 DEF WindowsOrdered
    <3>2. CASE j = Len(rows) + 1
      BY <3>2, <2>2, <1>5, <1>7, <1>8 DEF RowsUpTo
    <3> QED
      BY <3>1, <3>2, <1>7
  <2> QED
    BY <2>1, <2>2 DEF WindowsOrdered
<1>10. baseline' = response /\ response' = NoSnapshot
  BY DEF Record, NextBaseline
<1>11. \A i \in DOMAIN rows' : rows'[i].hi <= response.request_count
  BY <1>2, <1>4, <1>5, <1>7, <1>8 DEF RowsUpTo
<1> QED
  BY <1>1, <1>3, <1>9, <1>10, <1>11 DEF OrderInv, RowsUpTo

LEMMA OrderStep ==
  ASSUME NoErrorPageRebase, TypeOK, PhaseInv, OrderInv, [Next]_vars
  PROVE  OrderInv'
<1> USE DEF engineVars, mainVars, windowVars, outVars
<1>0. /\ engine.request_count \in Nat /\ rows \in Seq(Rows)
      /\ baseline # NoSnapshot => baseline \in Snapshot /\ baseline.request_count \in Nat
      /\ response # NoSnapshot => response \in Snapshot /\ response.request_count \in Nat
      /\ \A i \in DOMAIN rows : rows[i].lo \in Nat /\ rows[i].hi \in Nat
  BY WindowType DEF TypeOK, Counters, Snapshot
<1>1. CASE EngineStep
  <2>1. /\ engine'.request_count = engine.request_count + 1
        /\ UNCHANGED <<mainVars, response, windowVars, rows>>
    BY <1>1 DEF EngineStep, Finish
  <2> QED
    BY <2>1, <1>0 DEF OrderInv, WindowsOrdered, RowsUpTo
<1>2. CASE Enter
  BY <1>2, <1>0 DEF Enter, OrderInv, WindowsOrdered, RowsUpTo, PhaseInv
<1>3. CASE SetStop \/ JoinReturns
  BY <1>3 DEF SetStop, JoinReturns, OrderInv, WindowsOrdered, RowsUpTo
<1>4. CASE AnswerWithoutCounters
  BY <1>4, <1>0 DEF AnswerWithoutCounters, ZeroSnapshot, OrderInv, WindowsOrdered, RowsUpTo
<1>5. ASSUME NEW kv \in KvLevels, Answer(kv)
      PROVE  OrderInv'
  <2>1. /\ response'.request_count = engine.request_count
        /\ UNCHANGED <<engineVars, mainVars, windowVars, rows>>
    BY <1>5 DEF Answer
  <2> QED
    BY <2>1, <1>0 DEF OrderInv, WindowsOrdered, RowsUpTo
<1>6. CASE Baseline
  <2>1. CASE BaselineCheck \/ BaselineRetry \/ BaselineFails
    BY <2>1 DEF BaselineCheck, BaselineRetry, BaselineFails, OrderInv, WindowsOrdered, RowsUpTo
  <2>2. CASE BaselineTaken
    BY <2>2, <1>0 DEF BaselineTaken, OrderInv, WindowsOrdered, RowsUpTo, PhaseInv
  <2> QED
    BY <1>6, <2>1, <2>2 DEF Baseline
<1>7. CASE LoopCheck \/ Wake \/ Die
  BY <1>7 DEF LoopCheck, Wake, Die, OrderInv, WindowsOrdered, RowsUpTo
<1>8. CASE ScrapeFails
  <2>1. ~BadBodies
    BY <1>8 DEF ScrapeFails, NoErrorPageRebase, TypeOK
  <2> QED
    BY <1>8, <2>1 DEF ScrapeFails, OrderInv, WindowsOrdered, RowsUpTo
<1>9. CASE Rebase
  BY <1>9, <1>0 DEF Rebase, Fetched, OrderInv, WindowsOrdered, RowsUpTo
<1>10. CASE Quiet
  BY <1>10, <1>0 DEF Quiet, Fetched, OrderInv, WindowsOrdered, RowsUpTo
<1>11. CASE Record
  BY <1>11, OrderRecord
<1>12. CASE UNCHANGED vars
  BY <1>12 DEF vars, OrderInv, WindowsOrdered, RowsUpTo
<1> QED
  BY <1>1, <1>2, <1>3, <1>4, <1>5, <1>6, <1>7, <1>8, <1>9, <1>10, <1>11, <1>12
  DEF Next, ThreadStep, Scrape, Loop, Terminated

\* A request is counted by at most one row, and only after it has finished,
\* unless error pages and failed scrapes may both occur.
THEOREM AtMostOneRow ==
  ASSUME NoErrorPageRebase
  PROVE  Spec => []WindowsOrdered
<1>1. Init => OrderInv
  BY DEF Init, OrderInv, WindowsOrdered
<1>2. TypeOK /\ PhaseInv /\ OrderInv /\ [Next]_vars => OrderInv'
  BY OrderStep
<1>3. OrderInv => WindowsOrdered
  BY DEF OrderInv
<1> QED
  BY <1>1, <1>2, <1>3, TypeCorrect, PhaseCorrect, PTL DEF Spec

-----------------------------------------------------------------------------
(* Completions are lost only to failed scrapes *)

\* LossOnlyByError, made inductive: the last row is no younger than the failures
\* counted so far, and with no baseline a scrape has failed since it was written.
LossInv ==
    /\ LossOnlyByError
    /\ (main # "out" /\ rows # <<>>) =>
          /\ rows[Len(rows)].era <= errors
          /\ baseline = NoSnapshot => rows[Len(rows)].era < errors

LEMMA LossRecord ==
  ASSUME TypeOK, PhaseInv, LossInv, Record
  PROVE  LossInv'
<1>1. baseline # NoSnapshot /\ main # "out" /\ main' = main /\ errors' = errors /\ errors \in Nat
  BY DEF PhaseInv, Record, Fetched, mainVars, TypeOK
<1>2. PICK row : /\ rows' = Append(rows, row) /\ row.era = errors
                 /\ row.lo = baseline.request_count /\ row.hi = response.request_count
  BY DEF Record, TurnMetrics
<1>3. rows \in Seq(Rows)
  BY DEF TypeOK
<1>4. /\ Len(rows) \in Nat /\ DOMAIN rows = 1 .. Len(rows)
      /\ Len(rows') = Len(rows) + 1
      /\ rows'[Len(rows) + 1] = row
      /\ \A i \in DOMAIN rows : rows'[i] = rows[i]
  BY <1>2, <1>3, AppendRow
<1>5. rows # <<>> => Len(rows) >= 1
  BY <1>3
<1>6. ASSUME NEW i \in 1 .. Len(rows') - 1, rows'[i].era = rows'[i + 1].era
      PROVE  rows'[i].hi = rows'[i + 1].lo
  <2>1. CASE i = Len(rows)
    BY <2>1, <1>1, <1>2, <1>4, <1>5, <1>6 DEF LossInv, LossOnlyByError
  <2>2. CASE i \in 1 .. Len(rows) - 1
    <3>1. i \in DOMAIN rows /\ i + 1 \in DOMAIN rows
      BY <2>2, <1>4
    <3>2. rows'[i] = rows[i] /\ rows'[i + 1] = rows[i + 1]
      BY <3>1, <1>4
    <3> QED
      BY <2>2, <3>2, <1>1, <1>6 DEF LossInv, LossOnlyByError
  <2>3. Len(rows') - 1 = Len(rows) /\ Len(rows) \in Nat
    BY <1>4
  <2> QED
    BY <2>1, <2>2, <2>3
<1>7. rows'[Len(rows')].era = errors /\ rows'[Len(rows')].hi = response.request_count
  BY <1>2, <1>4
<1>8. baseline' = response /\ response # NoSnapshot
  BY DEF Record, NextBaseline, Fetched
<1> QED
  BY <1>1, <1>6, <1>7, <1>8 DEF LossInv, LossOnlyByError

LEMMA LossStep ==
  ASSUME TypeOK, PhaseInv, LossInv, [Next]_vars
  PROVE  LossInv'
<1> USE DEF engineVars, mainVars, windowVars, outVars
<1>0. /\ errors \in Nat /\ rows \in Seq(Rows)
      /\ rows # <<>> => rows[Len(rows)].era \in Nat
  <2>1. rows # <<>> => Len(rows) \in DOMAIN rows
    BY DEF TypeOK
  <2> QED
    BY <2>1, WindowType DEF TypeOK
<1>1. CASE EngineStep \/ SetStop \/ JoinReturns \/ Scrape
  BY <1>1 DEF EngineStep, Finish, SetStop, JoinReturns, Scrape, Answer,
              AnswerWithoutCounters, LossInv, LossOnlyByError
<1>2. CASE Enter
  BY <1>2 DEF Enter, LossInv, LossOnlyByError
<1>3. CASE Baseline
  <2>1. CASE BaselineCheck \/ BaselineRetry
    BY <2>1 DEF BaselineCheck, BaselineRetry, LossInv, LossOnlyByError
  <2>2. CASE BaselineTaken \/ BaselineFails
    <3>1. main # "out" /\ main' = main /\ rows = <<>> /\ rows' = rows
      BY <2>2 DEF BaselineTaken, BaselineFails, PhaseInv
    <3>2. Len(rows') - 1 = -1
      BY <3>1
    <3> QED
      BY <3>1, <3>2 DEF LossInv, LossOnlyByError
  <2> QED
    BY <1>3, <2>1, <2>2 DEF Baseline
<1>4. CASE LoopCheck \/ Wake \/ Quiet \/ Die
  BY <1>4 DEF LoopCheck, Wake, Quiet, Die, LossInv, LossOnlyByError
<1>5. CASE ScrapeFails
  BY <1>5, <1>0 DEF ScrapeFails, LossInv, LossOnlyByError
<1>6. CASE Rebase
  BY <1>6, <1>0 DEF Rebase, Fetched, LossInv, LossOnlyByError
<1>7. CASE Record
  BY <1>7, LossRecord
<1>8. CASE UNCHANGED vars
  BY <1>8 DEF vars, LossInv, LossOnlyByError
<1> QED
  BY <1>1, <1>2, <1>3, <1>4, <1>5, <1>6, <1>7, <1>8 DEF Next, ThreadStep, Loop, Terminated

\* With no failed scrape in between, each window starts where the last one ended,
\* whatever the engine, the pages it serves and the death of the poller do.
THEOREM LossNeedsAnError == Spec => []LossOnlyByError
<1>1. Init => LossInv
  BY DEF Init, LossInv, LossOnlyByError
<1>2. TypeOK /\ PhaseInv /\ LossInv /\ [Next]_vars => LossInv'
  BY LossStep
<1>3. LossInv => LossOnlyByError
  BY DEF LossInv
<1> QED
  BY <1>1, <1>2, <1>3, TypeCorrect, PhaseCorrect, PTL DEF Spec

-----------------------------------------------------------------------------
(* Nothing seen is forgotten *)

LEMMA SeenStep ==
  ASSUME ~BadBodies, TypeOK, PhaseInv, OrderInv, SeenIsAccounted, [Next]_vars
  PROVE  SeenIsAccounted'
<1> USE DEF engineVars, mainVars, windowVars, outVars, SeenIsAccounted
<1>1. CASE EngineStep \/ Enter \/ SetStop \/ JoinReturns \/ Scrape \/ Die
  BY <1>1 DEF EngineStep, Finish, Enter, SetStop, JoinReturns, Scrape, Answer,
              AnswerWithoutCounters, Die
<1>2. CASE Baseline
  BY <1>2 DEF Baseline, BaselineCheck, BaselineTaken, BaselineFails, BaselineRetry
<1>3. CASE LoopCheck \/ Wake \/ ScrapeFails \/ Rebase
  BY <1>3 DEF LoopCheck, Wake, ScrapeFails, Rebase
<1>4. CASE Quiet
  <2>1. main # "out" /\ response # NoSnapshot /\ baseline # NoSnapshot
    BY <1>4 DEF Quiet, Fetched, PhaseInv
  <2>2. response.request_count \in Nat /\ baseline.request_count \in Nat
    BY <2>1 DEF TypeOK, Snapshot
  <2>3. response.request_count = baseline.request_count
    BY <1>4, <2>1, <2>2 DEF Quiet, NewCompletions, OrderInv
  <2> QED
    BY <1>4, <2>3 DEF Quiet
<1>5. CASE Record
  BY <1>5 DEF Record, NextBaseline
<1>6. CASE UNCHANGED vars
  BY <1>6 DEF vars
<1> QED
  BY <1>1, <1>2, <1>3, <1>4, <1>5, <1>6 DEF Next, ThreadStep, Loop, Terminated

\* A completion that a snapshot has shown the loop is never left out of the window
\* being measured: a snapshot in which nothing is new adds nothing to the baseline.
THEOREM SeenStaysAccounted ==
  ASSUME ~BadBodies
  PROVE  Spec => []SeenIsAccounted
<1>1. Init => OrderInv /\ SeenIsAccounted
  BY DEF Init, OrderInv, WindowsOrdered, SeenIsAccounted
<1>2. TypeOK /\ PhaseInv /\ OrderInv /\ [Next]_vars => OrderInv'
  BY OrderStep DEF NoErrorPageRebase
<1>3. TypeOK /\ PhaseInv /\ OrderInv /\ SeenIsAccounted /\ [Next]_vars => SeenIsAccounted'
  BY SeenStep
<1> QED
  BY <1>1, <1>2, <1>3, TypeCorrect, PhaseCorrect, PTL DEF Spec

-----------------------------------------------------------------------------
(* One row after stop *)

\* A poller past its last look at stop still has its row to write; one that will
\* look again has written it, or has none.
LateInv ==
    /\ stop <=> main \in {"joining", "exited"}
    /\ stop => /\ Len(rows) <= at_stop + 1
               /\ pc \in {"sleep", "fetch"} => Len(rows) <= at_stop

\* After stop the poller writes one row at most, whether the join waits for it or
\* not, for any number of requests, failed scrapes and error pages.
THEOREM LateRowIsOne == Spec => []OneLateRow
<1> USE DEF engineVars, mainVars, windowVars, outVars
<1>1. Init => LateInv
  BY DEF Init, LateInv
<1>2. TypeOK /\ LateInv /\ [Next]_vars => LateInv'
  <2> SUFFICES ASSUME TypeOK, LateInv, [Next]_vars
               PROVE  LateInv'
    OBVIOUS
  <2>0. Len(rows) \in Nat /\ at_stop \in Nat
    BY DEF TypeOK
  <2>1. CASE EngineStep
    BY <2>1 DEF EngineStep, Finish, LateInv
  <2>8. CASE JoinReturns
    <3>1. UNCHANGED <<stop, at_stop, pc, rows>> /\ main = "joining" /\ main' = "exited"
      BY <2>8 DEF JoinReturns
    <3> QED
      BY <3>1 DEF LateInv
  <2>2. CASE Enter
    BY <2>2 DEF Enter, LateInv
  <2>3. CASE SetStop
    BY <2>0, <2>3 DEF SetStop, LateInv
  <2>4. CASE Scrape \/ Baseline \/ Die
    BY <2>4 DEF Scrape, Answer, AnswerWithoutCounters, Baseline, BaselineCheck,
                BaselineTaken, BaselineFails, BaselineRetry, Die, LateInv
  <2>5. CASE LoopCheck \/ Wake \/ ScrapeFails \/ Rebase \/ Quiet
    BY <2>5 DEF LoopCheck, KeepPolling, Wake, ScrapeFails, Rebase, Quiet, Fetched, LateInv
  <2>6. CASE Record
    <3>1. PICK row : rows' = Append(rows, row)
      BY <2>6 DEF Record
    <3>2. Len(rows') = Len(rows) + 1
      BY <3>1 DEF TypeOK
    <3> QED
      BY <2>0, <2>6, <3>2 DEF Record, Fetched, LateInv
  <2>7. CASE UNCHANGED vars
    BY <2>7 DEF vars, LateInv
  <2> QED
    BY <2>1, <2>2, <2>3, <2>4, <2>5, <2>6, <2>7, <2>8 DEF Next, ThreadStep, Loop, Terminated
<1>3. LateInv => OneLateRow
  BY DEF LateInv, OneLateRow
<1> QED
  BY <1>1, <1>2, <1>3, TypeCorrect, PTL DEF Spec

-----------------------------------------------------------------------------
(* The rows implement a completion log *)

\* A row more is a window more.
LEMMA LoggedRecord ==
  ASSUME NEW row, rows \in Seq(Rows), rows' = Append(rows, row), main # "out", main' = main
  PROVE  Logged' = Append(Logged, Window(row))
<1>1. /\ Logged = [i \in 1 .. Len(rows) |-> Window(rows[i])]
      /\ Len(rows) \in Nat
  BY DEF Logged
<1>2. Logged' = [i \in 1 .. Len(rows) + 1 |-> Window(rows'[i])]
  BY AppendRow DEF Logged
<1>3. /\ rows'[Len(rows) + 1] = row
      /\ \A i \in 1 .. Len(rows) : rows'[i] = rows[i]
  BY AppendRow
<1>4. Append(Logged, Window(row))
        = [i \in 1 .. Len(rows) + 1 |-> IF i = Len(rows) + 1 THEN Window(row) ELSE Window(rows[i])]
  BY <1>1
<1> QED
  BY <1>2, <1>3, <1>4

LEMMA AbstractRecord ==
  ASSUME TypeOK, PhaseInv, OrderInv, Record
  PROVE  Abstract!Log(baseline.request_count, response.request_count)
         /\ baseline.request_count \in 0 .. engine.request_count
         /\ response.request_count \in 0 .. engine.request_count
<1>1. baseline \in Snapshot /\ response \in Snapshot /\ response # NoSnapshot /\ baseline # NoSnapshot
  BY DEF TypeOK, Record, Fetched
<1>2. /\ baseline.request_count \in Nat /\ response.request_count \in Nat
      /\ engine.request_count \in Nat
  BY <1>1 DEF Snapshot, TypeOK, Counters
<1>3. main # "out" /\ main' = main /\ engine' = engine
  BY DEF PhaseInv, Record, Fetched, mainVars, engineVars
<1>4. baseline.request_count < response.request_count
  BY <1>2 DEF Record, NewCompletions
<1>5. PICK row : /\ rows' = Append(rows, row)
                 /\ row.lo = baseline.request_count /\ row.hi = response.request_count
  BY DEF Record, TurnMetrics
<1>6. Logged' = Append(Logged, [lo |-> baseline.request_count, hi |-> response.request_count])
  BY <1>3, <1>5, LoggedRecord DEF TypeOK, Window
<1>7. \A i \in DOMAIN Logged : Logged[i].hi <= baseline.request_count
  BY <1>1, <1>3 DEF OrderInv, RowsUpTo, Logged, Window
<1>8. response.request_count <= engine.request_count
  BY <1>1 DEF OrderInv
<1> QED
  BY <1>2, <1>3, <1>4, <1>5, <1>6, <1>7, <1>8 DEF Abstract!Log

LEMMA AbstractStep ==
  ASSUME TypeOK, PhaseInv, OrderInv, [Next]_vars
  PROVE  [Abstract!Next]_<<engine.request_count, Logged>>
<1> USE DEF engineVars, mainVars, windowVars, outVars
<1>1. CASE EngineStep
  BY <1>1 DEF EngineStep, Finish, Abstract!Next, Abstract!Finish, Logged
<1>2. CASE Enter
  <2>1. Logged = <<>> /\ main' # "out" /\ rows' = <<>> /\ engine' = engine
    BY <1>2 DEF Enter, Logged
  <2>2. Logged' = <<>>
    BY <2>1 DEF Logged
  <2> QED
    BY <2>1, <2>2
<1>3. CASE SetStop \/ JoinReturns \/ Scrape \/ Baseline \/ Die
  BY <1>3 DEF SetStop, JoinReturns, Scrape, Answer, AnswerWithoutCounters, Die, Logged,
              Baseline, BaselineCheck, BaselineTaken, BaselineFails, BaselineRetry
<1>4. CASE LoopCheck \/ Wake \/ ScrapeFails \/ Rebase \/ Quiet
  BY <1>4 DEF LoopCheck, Wake, ScrapeFails, Rebase, Quiet, Logged
<1>5. CASE Record
  BY <1>5, AbstractRecord DEF Abstract!Next
<1>6. CASE UNCHANGED vars
  BY <1>6 DEF vars, Logged
<1> QED
  BY <1>1, <1>2, <1>3, <1>4, <1>5, <1>6 DEF Next, ThreadStep, Loop, Terminated

\* Every step of the scraper is a step of the completion log or leaves it alone.
THEOREM Refinement ==
  ASSUME NoErrorPageRebase
  PROVE  Spec => ImplementsCompletionLog
<1>1. Init => OrderInv /\ Abstract!Init
  BY DEF Init, OrderInv, WindowsOrdered, Abstract!Init, Logged, ZeroCounters
<1>2. TypeOK /\ PhaseInv /\ OrderInv /\ [Next]_vars => OrderInv'
  BY OrderStep
<1>3. TypeOK /\ PhaseInv /\ OrderInv /\ [Next]_vars
        => [Abstract!Next]_<<engine.request_count, Logged>>
  BY AbstractStep
<1> QED
  BY <1>1, <1>2, <1>3, TypeCorrect, PhaseCorrect, PTL
  DEF Spec, ImplementsCompletionLog, Abstract!Spec
-----------------------------------------------------------------------------
(* A row describes its window *)

Request == [tokens : Tokens, hits : Hits, reason : Reasons]

\* TokensOf and HitsOf of the requests in q, and those that ended for one reason.
TokenSum(q, lo, hi) == SumFunction([k \in (lo + 1) .. hi |-> q[k].tokens])
HitSum(q, lo, hi) == SumFunction([k \in (lo + 1) .. hi |-> q[k].hits])
EndedFor(q, r, n) == {k \in 1 .. n : q[k].reason = r}

\* s says of the first s.request_count requests in q what they are.
Exact(s, q) ==
    /\ s.request_count <= Len(q)
    /\ s.gen_tokens = TokenSum(q, 0, s.request_count)
    /\ s.prefix_cache_hits = HitSum(q, 0, s.request_count)
    /\ \A r \in Reasons :
          s.finished_reason_counts[r] = Cardinality(EndedFor(q, r, s.request_count))

\* The engine and every snapshot of it are exact, an error page included: it is
\* the snapshot of an engine that has finished nothing.
ExactInv ==
    /\ engine.request_count = Len(requests)
    /\ Exact(engine, requests)
    /\ baseline # NoSnapshot => Exact(baseline, requests)
    /\ response # NoSnapshot => Exact(response, requests)

\* The peak is the highest value of the open window, 0 before there is one.
PeakInv ==
    /\ \A v \in window_kv : v <= peak
    /\ window_kv = {} => peak = 0
    /\ window_kv # {} => peak \in window_kv

LEMMA RequestType ==
  ASSUME NEW request \in Request
  PROVE  request.tokens \in Nat /\ request.hits \in Nat
<1>1. request.tokens \in Tokens /\ request.hits \in Hits
  BY DEF Request
<1> QED
  BY <1>1, ScraperConstants

\* Sums over adjacent parts of a function on an interval.
LEMMA WindowSum ==
  ASSUME NEW f, NEW lo \in Nat, NEW hi \in Nat, lo <= hi, \A k \in 1 .. hi : f[k] \in Nat
  PROVE  LET Part(a, b) == SumFunction([k \in (a + 1) .. b |-> f[k]])
         IN  /\ Part(lo, hi) \in Nat /\ Part(0, lo) \in Nat
             /\ Part(0, hi) = Part(0, lo) + Part(lo, hi)
<1> DEFINE all == [k \in 1 .. hi |-> f[k]]
           left == [k \in 1 .. lo |-> f[k]]
           right == [k \in (lo + 1) .. hi |-> f[k]]
<1>1. /\ 1 .. lo \in SUBSET (1 .. hi) /\ (1 .. hi) \ (1 .. lo) = (lo + 1) .. hi
      /\ all \in [1 .. hi -> Nat] /\ left \in [1 .. lo -> Nat]
      /\ right \in [(lo + 1) .. hi -> Nat]
      /\ \A k \in 1 .. lo : left[k] = all[k]
      /\ \A k \in (lo + 1) .. hi : right[k] = all[k]
  OBVIOUS
<1> HIDE DEF all, left, right
<1>2. IsFiniteSet(1 .. hi) /\ IsFiniteSet(1 .. lo)
  BY IntervalSize
<1>3. IsFiniteSet((lo + 1) .. hi)
  BY <1>1, <1>2, FS_Subset
<1>4. SumFunction(all) = SumFunction(left) + SumFunction(right)
  <2> DEFINE S == 1 .. hi
             A == 1 .. lo
  <2>1. /\ IsFiniteSet(S) /\ A \in SUBSET S /\ S \ A = (lo + 1) .. hi
        /\ all \in [S -> Nat] /\ left \in [A -> Nat] /\ right \in [S \ A -> Nat]
        /\ \A k \in A : left[k] = all[k]
        /\ \A k \in S \ A : right[k] = all[k]
    BY <1>1, <1>2
  <2> HIDE DEF S, A
  <2> QED
    BY <2>1, SumSplit
<1>5. SumFunction(left) \in Nat /\ SumFunction(right) \in Nat
  BY <1>1, <1>2, <1>3, SumType
<1>6. 0 + 1 = 1
  OBVIOUS
<1> QED
  BY <1>4, <1>5, <1>6 DEF all, left, right

LEMMA TokenSplit ==
  ASSUME NEW q \in Seq(Request), NEW lo \in Nat, NEW hi \in Nat, lo <= hi, hi <= Len(q)
  PROVE  /\ TokenSum(q, lo, hi) \in Nat /\ TokenSum(q, 0, lo) \in Nat
         /\ TokenSum(q, 0, hi) = TokenSum(q, 0, lo) + TokenSum(q, lo, hi)
<1> DEFINE f == [k \in 1 .. hi |-> q[k].tokens]
           Part(a, b) == SumFunction([k \in (a + 1) .. b |-> f[k]])
<1>1. \A k \in 1 .. hi : f[k] \in Nat
  <2>1. \A k \in 1 .. hi : q[k] \in Request
    OBVIOUS
  <2> QED
    BY <2>1, RequestType
<1>2. ASSUME NEW a \in Nat, NEW b \in Nat, b <= hi
      PROVE  TokenSum(q, a, b) = Part(a, b)
  <2>1. [k \in (a + 1) .. b |-> q[k].tokens] = [k \in (a + 1) .. b |-> f[k]]
    BY <1>2
  <2> QED
    BY <2>1 DEF TokenSum
<1> HIDE DEF f
<1>3. Part(lo, hi) \in Nat /\ Part(0, lo) \in Nat /\ Part(0, hi) = Part(0, lo) + Part(lo, hi)
  BY <1>1, WindowSum
<1> HIDE DEF Part
<1> QED
  BY <1>2, <1>3

LEMMA HitSplit ==
  ASSUME NEW q \in Seq(Request), NEW lo \in Nat, NEW hi \in Nat, lo <= hi, hi <= Len(q)
  PROVE  /\ HitSum(q, lo, hi) \in Nat /\ HitSum(q, 0, lo) \in Nat
         /\ HitSum(q, 0, hi) = HitSum(q, 0, lo) + HitSum(q, lo, hi)
<1> DEFINE f == [k \in 1 .. hi |-> q[k].hits]
           Part(a, b) == SumFunction([k \in (a + 1) .. b |-> f[k]])
<1>1. \A k \in 1 .. hi : f[k] \in Nat
  <2>1. \A k \in 1 .. hi : q[k] \in Request
    OBVIOUS
  <2> QED
    BY <2>1, RequestType
<1>2. ASSUME NEW a \in Nat, NEW b \in Nat, b <= hi
      PROVE  HitSum(q, a, b) = Part(a, b)
  <2>1. [k \in (a + 1) .. b |-> q[k].hits] = [k \in (a + 1) .. b |-> f[k]]
    BY <1>2
  <2> QED
    BY <2>1 DEF HitSum
<1> HIDE DEF f
<1>3. Part(lo, hi) \in Nat /\ Part(0, lo) \in Nat /\ Part(0, hi) = Part(0, lo) + Part(lo, hi)
  BY <1>1, WindowSum
<1> HIDE DEF Part
<1> QED
  BY <1>2, <1>3

\* A request more leaves the windows that are closed as they are.
LEMMA WindowsKept ==
  ASSUME NEW q \in Seq(Request), NEW request \in Request,
         NEW lo \in Nat, NEW hi \in Nat, hi <= Len(q)
  PROVE  /\ TokenSum(Append(q, request), lo, hi) = TokenSum(q, lo, hi)
         /\ HitSum(Append(q, request), lo, hi) = HitSum(q, lo, hi)
         /\ \A r : EndedFor(Append(q, request), r, hi) = EndedFor(q, r, hi)
<1> DEFINE p == Append(q, request)
<1>1. \A k \in 1 .. hi : p[k] = q[k]
  OBVIOUS
<1> HIDE DEF p
<1>2. /\ [k \in (lo + 1) .. hi |-> p[k].tokens] = [k \in (lo + 1) .. hi |-> q[k].tokens]
      /\ [k \in (lo + 1) .. hi |-> p[k].hits] = [k \in (lo + 1) .. hi |-> q[k].hits]
  BY <1>1
<1> QED
  BY <1>1, <1>2 DEF TokenSum, HitSum, EndedFor, p

LEMMA ExactKept ==
  ASSUME NEW q \in Seq(Request), NEW request \in Request,
         NEW s, s.request_count \in Nat, Exact(s, q)
  PROVE  Exact(s, Append(q, request))
<1>1. s.request_count <= Len(q) /\ Len(Append(q, request)) = Len(q) + 1 /\ Len(q) \in Nat
  BY DEF Exact
<1>2. /\ TokenSum(Append(q, request), 0, s.request_count) = TokenSum(q, 0, s.request_count)
      /\ HitSum(Append(q, request), 0, s.request_count) = HitSum(q, 0, s.request_count)
      /\ \A r : EndedFor(Append(q, request), r, s.request_count)
                  = EndedFor(q, r, s.request_count)
  BY <1>1, WindowsKept
<1> QED
  BY <1>1, <1>2 DEF Exact

\* The window of the last request alone.
LEMMA LastRequest ==
  ASSUME NEW q \in Seq(Request), NEW request \in Request, NEW n \in Nat, n = Len(q)
  PROVE  /\ TokenSum(Append(q, request), 0, n + 1) = TokenSum(q, 0, n) + request.tokens
         /\ HitSum(Append(q, request), 0, n + 1) = HitSum(q, 0, n) + request.hits
         /\ \A r : Cardinality(EndedFor(Append(q, request), r, n + 1))
                     = Cardinality(EndedFor(q, r, n)) + (IF r = request.reason THEN 1 ELSE 0)
<1> DEFINE p == Append(q, request)
<1>1. /\ \A k \in 1 .. n : p[k] = q[k] /\ q[k] \in Request
      /\ p[n + 1] = request
      /\ \A k \in 1 .. n + 1 : p[k] \in Request
  OBVIOUS
<1> HIDE DEF p
<1>2. TokenSum(p, 0, n + 1) = TokenSum(q, 0, n) + request.tokens
  <2> DEFINE f == [k \in 1 .. n |-> q[k].tokens]
             g == [k \in 1 .. n + 1 |-> p[k].tokens]
  <2>1. /\ f \in [1 .. n -> Nat] /\ g \in [1 .. n + 1 -> Nat]
        /\ \A k \in 1 .. n : g[k] = f[k]
        /\ g[n + 1] = request.tokens
    BY <1>1, RequestType
  <2> HIDE DEF f, g
  <2>2. SumFunction(g) = SumFunction(f) + request.tokens
    BY <2>1, SumAppend
  <2>3. 0 + 1 = 1
    OBVIOUS
  <2> QED
    BY <2>2, <2>3 DEF TokenSum, f, g
<1>3. HitSum(p, 0, n + 1) = HitSum(q, 0, n) + request.hits
  <2> DEFINE f == [k \in 1 .. n |-> q[k].hits]
             g == [k \in 1 .. n + 1 |-> p[k].hits]
  <2>1. /\ f \in [1 .. n -> Nat] /\ g \in [1 .. n + 1 -> Nat]
        /\ \A k \in 1 .. n : g[k] = f[k]
        /\ g[n + 1] = request.hits
    BY <1>1, RequestType
  <2> HIDE DEF f, g
  <2>2. SumFunction(g) = SumFunction(f) + request.hits
    BY <2>1, SumAppend
  <2>3. 0 + 1 = 1
    OBVIOUS
  <2> QED
    BY <2>2, <2>3 DEF HitSum, f, g
<1>4. ASSUME NEW r
      PROVE  Cardinality(EndedFor(p, r, n + 1))
               = Cardinality(EndedFor(q, r, n)) + (IF r = request.reason THEN 1 ELSE 0)
  <2> DEFINE A == EndedFor(q, r, n)
  <2>1. IsFiniteSet(1 .. n) /\ A \in SUBSET (1 .. n)
    BY IntervalSize DEF EndedFor
  <2>2. IsFiniteSet(A) /\ Cardinality(A) \in Nat /\ n + 1 \notin A
    BY <2>1, FS_Subset, FS_CardinalityType
  <2>3. EndedFor(p, r, n + 1) = IF r = request.reason THEN A \cup {n + 1} ELSE A
    BY <1>1 DEF EndedFor
  <2> HIDE DEF A
  <2>4. Cardinality(A \cup {n + 1}) = Cardinality(A) + 1
    BY <2>2, FS_AddElement
  <2> QED
    BY <2>2, <2>3, <2>4 DEF A
<1> QED
  BY <1>2, <1>3, <1>4 DEF p

\* Nothing has finished.
LEMMA ExactZero ==
  ASSUME NEW q \in Seq(Request), NEW s, s.request_count = 0, s.gen_tokens = 0,
         s.prefix_cache_hits = 0, s.finished_reason_counts = [r \in Reasons |-> 0]
  PROVE  Exact(s, q)
<1>1. TokenSum(q, 0, 0) = 0 /\ HitSum(q, 0, 0) = 0
  <2>1. IsFiniteSet(1 .. 0)
    BY IntervalSize
  <2>2. /\ [k \in 1 .. 0 |-> q[k].tokens] \in [1 .. 0 -> Nat]
        /\ [k \in 1 .. 0 |-> q[k].hits] \in [1 .. 0 -> Nat]
        /\ \A k \in 1 .. 0 : FALSE /\ 0 + 1 = 1
    OBVIOUS
  <2>3. /\ SumFunction([k \in 1 .. 0 |-> q[k].tokens]) = 0
        /\ SumFunction([k \in 1 .. 0 |-> q[k].hits]) = 0
    BY <2>1, <2>2, SumZero
  <2>4. 0 + 1 = 1
    OBVIOUS
  <2> QED
    BY <2>3, <2>4 DEF TokenSum, HitSum
<1>2. \A r : Cardinality(EndedFor(q, r, 0)) = 0
  <2>1. \A r : EndedFor(q, r, 0) = {}
    BY DEF EndedFor
  <2> QED
    BY <2>1, FS_EmptySet
<1> QED
  BY <1>1, <1>2 DEF Exact

LEMMA ExactInit == Init => ExactInv
<1> SUFFICES ASSUME Init
             PROVE  ExactInv
  OBVIOUS
<1>1. requests \in Seq(Request) /\ Len(requests) = 0 /\ engine = ZeroCounters
  BY DEF Init
<1>2. Exact(engine, requests)
  BY <1>1, ExactZero DEF ZeroCounters
<1> QED
  BY <1>1, <1>2 DEF Init, ExactInv, ZeroCounters

LEMMA ExactStep ==
  ASSUME TypeOK, ExactInv, [Next]_vars
  PROVE  ExactInv'
<1> USE DEF engineVars, mainVars, windowVars, outVars
<1>0. requests \in Seq(Request)
  BY DEF TypeOK, Request
<1>1. ASSUME NEW tokens \in Tokens, NEW hits \in Hits, NEW reason \in Reasons,
             Finish(tokens, hits, reason)
      PROVE  ExactInv'
  <2> DEFINE request == [tokens |-> tokens, hits |-> hits, reason |-> reason]
  <2>1. /\ request \in Request /\ requests' = Append(requests, request)
        /\ request.tokens = tokens /\ request.hits = hits /\ request.reason = reason
        /\ UNCHANGED <<baseline, response>>
    BY <1>1 DEF Finish, Request
  <2> HIDE DEF request
  <2>2. PICK n \in Nat : n = Len(requests) /\ n = engine.request_count
    BY <1>0 DEF ExactInv
  <2>3. Len(requests') = n + 1
    <3>1. Len(Append(requests, request)) = Len(requests) + 1
      BY <1>0, <2>1
    <3> QED
      BY <2>1, <2>2, <3>1
  <2>4. Exact(engine, requests)
    BY DEF ExactInv
  <2>5. engine'.request_count = n + 1 /\ engine'.gen_tokens = engine.gen_tokens + tokens
        /\ engine'.prefix_cache_hits = engine.prefix_cache_hits + hits
    BY <1>1, <2>2 DEF Finish
  <2>6. \A r \in Reasons : engine'.finished_reason_counts[r]
          = engine.finished_reason_counts[r] + (IF r = reason THEN 1 ELSE 0)
    <3>1. engine.finished_reason_counts \in [Reasons -> Nat]
      BY DEF TypeOK, Counters
    <3>2. engine'.finished_reason_counts = [engine.finished_reason_counts EXCEPT ![reason] = @ + 1]
      BY <1>1 DEF Finish
    <3> QED
      BY <3>1, <3>2
  <2>7. /\ TokenSum(requests', 0, n + 1) = TokenSum(requests, 0, n) + tokens
        /\ HitSum(requests', 0, n + 1) = HitSum(requests, 0, n) + hits
        /\ \A r : Cardinality(EndedFor(requests', r, n + 1))
                    = Cardinality(EndedFor(requests, r, n)) + (IF r = reason THEN 1 ELSE 0)
    BY <1>0, <2>1, <2>2, LastRequest
  <2>8. Exact(engine', requests')
    BY <2>2, <2>3, <2>4, <2>5, <2>6, <2>7 DEF Exact
  <2>9. baseline # NoSnapshot => Exact(baseline, requests')
    <3>1. baseline # NoSnapshot => baseline.request_count \in Nat
      BY DEF TypeOK, Snapshot
    <3> QED
      BY <3>1, <1>0, <2>1, ExactKept DEF ExactInv
  <2>10. response # NoSnapshot => Exact(response, requests')
    <3>1. response # NoSnapshot => response.request_count \in Nat
      BY DEF TypeOK, Snapshot
    <3> QED
      BY <3>1, <1>0, <2>1, ExactKept DEF ExactInv
  <2> QED
    BY <2>1, <2>3, <2>5, <2>8, <2>9, <2>10 DEF ExactInv
<1>2. CASE AnswerWithoutCounters
  <2>1. response' = ZeroSnapshot /\ UNCHANGED <<engine, requests, baseline>>
    BY <1>2 DEF AnswerWithoutCounters
  <2>2. Exact(ZeroSnapshot, requests)
    BY <1>0, ExactZero DEF ZeroSnapshot
  <2> QED
    BY <2>1, <2>2 DEF ExactInv
<1>3. ASSUME NEW kv \in KvLevels, Answer(kv)
      PROVE  ExactInv'
  <2>1. /\ response'.request_count = engine.request_count
        /\ response'.gen_tokens = engine.gen_tokens
        /\ response'.prefix_cache_hits = engine.prefix_cache_hits
        /\ response'.finished_reason_counts = engine.finished_reason_counts
        /\ UNCHANGED <<engine, requests, baseline>>
    BY <1>3 DEF Answer
  <2>2. Exact(response', requests)
    BY <2>1 DEF ExactInv, Exact
  <2> QED
    BY <2>1, <2>2 DEF ExactInv
<1>4. CASE Enter \/ SetStop \/ JoinReturns \/ Die
  BY <1>4 DEF Enter, SetStop, JoinReturns, Die, ExactInv
<1>5. CASE Baseline
  BY <1>5 DEF Baseline, BaselineCheck, BaselineTaken, BaselineFails, BaselineRetry, ExactInv
<1>6. CASE Loop
  BY <1>6 DEF Loop, LoopCheck, Wake, ScrapeFails, Rebase, Quiet, Record, Fetched,
              NextBaseline, ExactInv
<1>7. CASE UNCHANGED vars
  BY <1>7 DEF vars, ExactInv
<1> QED
  BY <1>1, <1>2, <1>3, <1>4, <1>5, <1>6, <1>7
  DEF Next, EngineStep, ThreadStep, Scrape, Terminated

LEMMA PeakStep ==
  ASSUME TypeOK, PeakInv, [Next]_vars
  PROVE  PeakInv'
<1> USE DEF engineVars, mainVars, windowVars, outVars
<1>1. CASE EngineStep \/ Enter \/ SetStop \/ JoinReturns \/ Scrape \/ Die
  BY <1>1 DEF EngineStep, Finish, Enter, SetStop, JoinReturns, Scrape, Answer,
              AnswerWithoutCounters, Die, PeakInv
<1>2. CASE Baseline
  BY <1>2 DEF Baseline, BaselineCheck, BaselineTaken, BaselineFails, BaselineRetry, PeakInv
<1>3. CASE LoopCheck \/ Wake \/ Rebase
  BY <1>3 DEF LoopCheck, Wake, Rebase, PeakInv
<1>4. CASE ScrapeFails \/ Record
  BY <1>4 DEF ScrapeFails, Record, PeakReset, PeakInv
<1>5. CASE Quiet
  <2>1. PICK kv \in Nat : kv = response.kv_usage_pct
    BY <1>5 DEF Quiet, Fetched, TypeOK, Snapshot
  <2>2. peak' = (IF kv > peak THEN kv ELSE peak) /\ window_kv' = window_kv \cup {kv}
    BY <1>5, <2>1 DEF Quiet, Peak
  <2>3. peak \in Nat /\ window_kv \subseteq Nat
    BY DEF TypeOK
  <2> QED
    BY <2>1, <2>2, <2>3 DEF PeakInv
<1>6. CASE UNCHANGED vars
  BY <1>6 DEF vars, PeakInv
<1> QED
  BY <1>1, <1>2, <1>3, <1>4, <1>5, <1>6 DEF Next, ThreadStep, Loop, Terminated

\* What RowsDescribeTheirWindow says of one row, and of the rows in rs together,
\* when the engine has finished the requests in q.
RowHolds(row, q) ==
    /\ row.lo < row.hi /\ row.hi <= Len(q)
    /\ row.n = row.hi - row.lo
    /\ Near(2 * row.osl * row.n, 20 * TokenSum(q, row.lo, row.hi), row.n)
    /\ row.prefix_cache_hits = HitSum(q, row.lo, row.hi)
    /\ \E k \in (row.lo + 1) .. row.hi : q[k].reason = row.stop_reason
    /\ row.kv_cache_usage_pct_peak = Max(row.kvs)

RowTokens(rs, q) == SumFunction([i \in DOMAIN rs |-> TokenSum(q, rs[i].lo, rs[i].hi)])
RowCount(rs) == SumFunction([i \in DOMAIN rs |-> rs[i].n])

TotalHolds(rs, q, total) == Near(2 * total, 20 * RowTokens(rs, q), RowCount(rs))

RowsInv ==
    /\ main = "out" => osl_total = 0
    /\ main # "out" =>
          /\ \A i \in DOMAIN rows : RowHolds(rows[i], requests)
          /\ TotalHolds(rows, requests, osl_total)

\* A rounded average, times n, is the total to within half a tenth for each.
LEMMA RoundedNear ==
  ASSUME NEW d \in Nat, NEW n \in Nat, NEW osl \in RoundedTenths(d, n)
  PROVE  Near(2 * osl * n, 20 * d, n)
<1>1. /\ osl \in Nat
      /\ 2 * (osl * n - 10 * d) <= n /\ 2 * (10 * d - osl * n) <= n
  BY DEF RoundedTenths
<1>2. PICK p \in Nat : p = osl * n
  BY <1>1
<1>3. 2 * osl * n = 2 * p
  BY <1>1, <1>2
<1>4. 2 * (p - 10 * d) <= n /\ 2 * (10 * d - p) <= n
  BY <1>1, <1>2
<1>5. 2 * p - 20 * d <= n /\ 20 * d - 2 * p <= n
  BY <1>4
<1> QED
  BY <1>3, <1>5 DEF Near

\* Tolerances add up.
LEMMA NearAdds ==
  ASSUME NEW total \in Nat, NEW t \in Nat, NEW c \in Nat, Near(2 * total, 20 * t, c),
         NEW o \in Nat, NEW d \in Nat, NEW n \in Nat, Near(2 * o * n, 20 * d, n)
  PROVE  Near(2 * (total + o * n), 20 * (t + d), c + n)
<1>1. PICK p \in Nat : p = o * n
  OBVIOUS
<1>2. 2 * o * n = 2 * p
  BY <1>1
<1>3. /\ 2 * total - 20 * t <= c /\ 20 * t - 2 * total <= c
      /\ 2 * p - 20 * d <= n /\ 20 * d - 2 * p <= n
  BY <1>2 DEF Near
<1>4. /\ 2 * (total + p) - 20 * (t + d) <= c + n
      /\ 20 * (t + d) - 2 * (total + p) <= c + n
  BY <1>3
<1> QED
  BY <1>1, <1>4 DEF Near

LEMMA NoRows ==
  ASSUME NEW q
  PROVE  RowTokens(<<>>, q) = 0 /\ RowCount(<<>>) = 0
<1> DEFINE f == [i \in DOMAIN <<>> |-> TokenSum(q, <<>>[i].lo, <<>>[i].hi)]
           g == [i \in DOMAIN <<>> |-> <<>>[i].n]
<1>1. /\ DOMAIN <<>> = {}
      /\ f \in [{} -> Nat] /\ g \in [{} -> Nat]
  OBVIOUS
<1> HIDE DEF f, g
<1>2. SumFunction(f) = 0 /\ SumFunction(g) = 0
  BY <1>1, SumZero, FS_EmptySet
<1> QED
  BY <1>2 DEF RowTokens, RowCount, f, g

\* Of two exact snapshots, with requests in between, one of these requests ended
\* for the reason that compute_turn_metrics finds.
LEMMA StopReasonHolds ==
  ASSUME NEW q \in Seq(Request), NEW before \in Snapshot, NEW after \in Snapshot,
         Exact(before, q), Exact(after, q), before.request_count < after.request_count
  PROVE  \E k \in (before.request_count + 1) .. after.request_count :
            q[k].reason = StopReason(before, after)
<1> DEFINE grown == {i \in DOMAIN FinishedReasons :
                       after.finished_reason_counts[FinishedReasons[i]]
                         - before.finished_reason_counts[FinishedReasons[i]] >= 1}
<1>0. PICK lo \in Nat, hi \in Nat : lo = before.request_count /\ hi = after.request_count
  BY DEF Snapshot
<1>1. lo < hi /\ hi <= Len(q) /\ Len(q) \in Nat
  BY <1>0 DEF Exact
<1>2. ASSUME NEW r \in Reasons
      PROVE  /\ before.finished_reason_counts[r] = Cardinality(EndedFor(q, r, lo))
             /\ after.finished_reason_counts[r] = Cardinality(EndedFor(q, r, hi))
             /\ IsFiniteSet(EndedFor(q, r, lo)) /\ IsFiniteSet(EndedFor(q, r, hi))
             /\ Cardinality(EndedFor(q, r, lo)) \in Nat
             /\ Cardinality(EndedFor(q, r, hi)) \in Nat
             /\ EndedFor(q, r, lo) \subseteq EndedFor(q, r, hi)
  <2>1. IsFiniteSet(1 .. lo) /\ IsFiniteSet(1 .. hi)
    BY IntervalSize
  <2>2. EndedFor(q, r, lo) \subseteq 1 .. lo /\ EndedFor(q, r, hi) \subseteq 1 .. hi
    BY DEF EndedFor
  <2>3. IsFiniteSet(EndedFor(q, r, lo)) /\ IsFiniteSet(EndedFor(q, r, hi))
    BY <2>1, <2>2, FS_Subset
  <2>4. EndedFor(q, r, lo) \subseteq EndedFor(q, r, hi)
    BY <1>1 DEF EndedFor
  <2> QED
    BY <1>0, <2>3, <2>4, FS_CardinalityType DEF Exact
\* The count of a reason grew if and only if a request of the window has it.
<1>3. ASSUME NEW r \in Reasons,
             after.finished_reason_counts[r] - before.finished_reason_counts[r] >= 1
      PROVE  \E k \in (lo + 1) .. hi : q[k].reason = r
  <2>1. EndedFor(q, r, lo) # EndedFor(q, r, hi)
    BY <1>2, <1>3
  <2>2. PICK k \in EndedFor(q, r, hi) : k \notin EndedFor(q, r, lo)
    BY <1>2, <2>1
  <2> QED
    BY <2>2 DEF EndedFor
<1>4. ASSUME NEW k \in (lo + 1) .. hi
      PROVE  \E i \in grown : FinishedReasons[i] = q[k].reason
  <2>1. q[k] \in Request
    BY <1>1, <1>4
  <2>2. PICK r \in Reasons : r = q[k].reason
    BY <2>1 DEF Request
  <2>3. k \in EndedFor(q, r, hi) /\ k \notin EndedFor(q, r, lo)
    BY <2>2 DEF EndedFor
  <2>4. Cardinality(EndedFor(q, r, lo)) < Cardinality(EndedFor(q, r, hi))
    <3>1. /\ Cardinality(EndedFor(q, r, lo)) <= Cardinality(EndedFor(q, r, hi))
          /\ Cardinality(EndedFor(q, r, lo)) = Cardinality(EndedFor(q, r, hi))
               => EndedFor(q, r, lo) = EndedFor(q, r, hi)
      BY <1>2, FS_Subset
    <3> QED
      BY <1>2, <2>3, <3>1
  <2>5. after.finished_reason_counts[r] - before.finished_reason_counts[r] >= 1
    BY <1>2, <2>4
  <2>6. PICK i \in DOMAIN FinishedReasons : FinishedReasons[i] = r
    BY DEF Reasons
  <2> QED
    BY <2>2, <2>5, <2>6
<1>5. grown \subseteq Nat /\ grown # {}
  <2>1. lo + 1 \in (lo + 1) .. hi
    BY <1>1
  <2> QED
    BY <2>1, <1>4, ScraperConstants
<1>6. PICK i \in grown : i = Min(grown)
  BY <1>5, MinOfNaturals
<1>7. StopReason(before, after) = FinishedReasons[i]
  BY <1>5, <1>6 DEF StopReason
<1>8. FinishedReasons[i] \in Reasons
  BY DEF Reasons
<1> QED
  BY <1>0, <1>3, <1>7, <1>8

\* A row that is written describes its window.
LEMMA RowWritten ==
  ASSUME TypeOK, ExactInv, PeakInv, Record,
         NEW osl \in RoundedTenths(Delta(baseline, response, "gen_tokens"), NewCompletions)
  PROVE  RowHolds(TurnMetrics(baseline, response, Peak, NewCompletions, osl), requests)
<1> DEFINE row == TurnMetrics(baseline, response, Peak, NewCompletions, osl)
<1>1. /\ baseline \in Snapshot /\ response \in Snapshot /\ requests \in Seq(Request)
      /\ Exact(baseline, requests) /\ Exact(response, requests)
  BY DEF TypeOK, Record, Fetched, ExactInv, Request
<1>2. PICK lo \in Nat, hi \in Nat : lo = baseline.request_count /\ hi = response.request_count
  BY <1>1 DEF Snapshot
<1>3. lo < hi /\ hi <= Len(requests) /\ NewCompletions = hi - lo
  BY <1>1, <1>2 DEF Record, NewCompletions, Exact
<1>4. /\ row.lo = lo /\ row.hi = hi /\ row.n = hi - lo /\ row.osl = osl
      /\ row.prefix_cache_hits = Delta(baseline, response, "prefix_cache_hits")
      /\ row.stop_reason = StopReason(baseline, response)
      /\ row.kv_cache_usage_pct_peak = Peak
      /\ row.kvs = window_kv \cup {response.kv_usage_pct}
  BY <1>2, <1>3 DEF TurnMetrics
<1> HIDE DEF row
<1>0. requests \in Seq(Request) /\ lo \in Nat /\ hi \in Nat /\ lo <= hi /\ hi <= Len(requests)
  BY <1>1, <1>3
<1>5. /\ TokenSum(requests, lo, hi) \in Nat
      /\ Delta(baseline, response, "gen_tokens") = TokenSum(requests, lo, hi)
  <2>1. /\ baseline.gen_tokens = TokenSum(requests, 0, lo)
        /\ response.gen_tokens = TokenSum(requests, 0, hi)
    BY <1>1, <1>2 DEF Exact
  <2>2. /\ TokenSum(requests, lo, hi) \in Nat /\ TokenSum(requests, 0, lo) \in Nat
        /\ TokenSum(requests, 0, hi) = TokenSum(requests, 0, lo) + TokenSum(requests, lo, hi)
    BY <1>0, TokenSplit
  <2> QED
    BY <2>1, <2>2 DEF Delta
<1>6. Delta(baseline, response, "prefix_cache_hits") = HitSum(requests, lo, hi)
  <2>1. /\ baseline.prefix_cache_hits = HitSum(requests, 0, lo)
        /\ response.prefix_cache_hits = HitSum(requests, 0, hi)
    BY <1>1, <1>2 DEF Exact
  <2>2. /\ HitSum(requests, lo, hi) \in Nat /\ HitSum(requests, 0, lo) \in Nat
        /\ HitSum(requests, 0, hi) = HitSum(requests, 0, lo) + HitSum(requests, lo, hi)
    BY <1>0, HitSplit
  <2> QED
    BY <2>1, <2>2 DEF Delta
<1>7. Near(2 * row.osl * row.n, 20 * TokenSum(requests, lo, hi), row.n)
  <2>1. PICK d \in Nat, n \in Nat : d = TokenSum(requests, lo, hi) /\ n = hi - lo
    BY <1>3, <1>5
  <2>2. osl \in RoundedTenths(d, n)
    BY <1>3, <1>5, <2>1
  <2>3. Near(2 * osl * n, 20 * d, n)
    BY <2>2, RoundedNear
  <2> QED
    BY <1>4, <2>1, <2>3
<1>8. \E k \in (lo + 1) .. hi : requests[k].reason = row.stop_reason
  BY <1>1, <1>2, <1>3, <1>4, StopReasonHolds
<1>9. row.kv_cache_usage_pct_peak = Max(row.kvs)
  <2>1. PICK kv \in Nat : kv = response.kv_usage_pct
    BY <1>1 DEF Snapshot
  <2>2. Peak = IF kv > peak THEN kv ELSE peak
    BY <2>1 DEF Peak
  <2>3. peak \in Nat /\ window_kv \subseteq Nat
    BY DEF TypeOK
  <2>4. /\ window_kv \cup {kv} \subseteq Nat
        /\ Peak \in window_kv \cup {kv}
        /\ \A v \in window_kv \cup {kv} : v <= Peak
    BY <2>2, <2>3 DEF PeakInv
  <2>5. Max(window_kv \cup {kv}) = Peak
    BY <2>4, LargestIsMax
  <2> QED
    BY <1>4, <2>1, <2>5
<1> QED
  BY <1>3, <1>4, <1>6, <1>7, <1>8, <1>9 DEF RowHolds, row

\* The rows of the file so far hold good when a request finishes.
LEMMA RowKept ==
  ASSUME NEW q \in Seq(Request), NEW request \in Request, NEW row \in Rows, RowHolds(row, q)
  PROVE  /\ RowHolds(row, Append(q, request))
         /\ TokenSum(Append(q, request), row.lo, row.hi) = TokenSum(q, row.lo, row.hi)
<1>1. row.lo \in Nat /\ row.hi \in Nat /\ row.hi <= Len(q) /\ Len(q) \in Nat
  <2>1. row.lo \in Nat /\ row.hi \in Nat
    BY DEF Rows
  <2>2. row.hi <= Len(q) /\ Len(q) \in Nat
    BY DEF RowHolds
  <2> QED
    BY <2>1, <2>2
<1>2. Len(Append(q, request)) = Len(q) + 1
  OBVIOUS
<1>3. /\ TokenSum(Append(q, request), row.lo, row.hi) = TokenSum(q, row.lo, row.hi)
      /\ HitSum(Append(q, request), row.lo, row.hi) = HitSum(q, row.lo, row.hi)
  BY <1>1, WindowsKept
<1>4. \A k \in (row.lo + 1) .. row.hi : Append(q, request)[k] = q[k]
  BY <1>1
<1> QED
  BY <1>1, <1>2, <1>3, <1>4 DEF RowHolds

\* What a row adds to the tokens and to the requests in the rows.
LEMMA RowSums ==
  ASSUME NEW q \in Seq(Request), NEW rs \in Seq(Rows), NEW row \in Rows,
         \A i \in DOMAIN rs : RowHolds(rs[i], q), RowHolds(row, q)
  PROVE  /\ RowTokens(rs, q) \in Nat /\ RowCount(rs) \in Nat
         /\ TokenSum(q, row.lo, row.hi) \in Nat
         /\ RowTokens(Append(rs, row), q) = RowTokens(rs, q) + TokenSum(q, row.lo, row.hi)
         /\ RowCount(Append(rs, row)) = RowCount(rs) + row.n
<1> DEFINE more == Append(rs, row)
<1>1. PICK n \in Nat : n = Len(rs)
  OBVIOUS
<1>2. /\ DOMAIN rs = 1 .. n /\ DOMAIN more = 1 .. n + 1
      /\ \A i \in 1 .. n : more[i] = rs[i]
      /\ more[n + 1] = row
      /\ \A i \in 1 .. n + 1 : more[i] \in Rows
  BY <1>1
<1> HIDE DEF more
<1>3. \A i \in 1 .. n + 1 : RowHolds(more[i], q)
  BY <1>2
<1>4. ASSUME NEW one \in Rows, RowHolds(one, q)
      PROVE  TokenSum(q, one.lo, one.hi) \in Nat /\ one.n \in Nat
  <2>1. /\ one.lo \in Nat /\ one.hi \in Nat /\ one.n \in Nat
        /\ one.lo <= one.hi /\ one.hi <= Len(q)
    <3>1. one.lo \in Nat /\ one.hi \in Nat /\ one.n \in Nat
      BY <1>4 DEF Rows
    <3>2. one.lo < one.hi /\ one.hi <= Len(q)
      BY <1>4 DEF RowHolds
    <3> QED
      BY <3>1, <3>2
  <2> QED
    BY <2>1, TokenSplit
<1>5. IsFiniteSet(1 .. n)
  BY IntervalSize
<1>6. /\ RowTokens(rs, q) \in Nat
      /\ RowTokens(more, q) = RowTokens(rs, q) + TokenSum(q, row.lo, row.hi)
  <2> DEFINE f == [i \in 1 .. n |-> TokenSum(q, rs[i].lo, rs[i].hi)]
             g == [i \in 1 .. n + 1 |-> TokenSum(q, more[i].lo, more[i].hi)]
  <2>1. /\ f \in [1 .. n -> Nat] /\ g \in [1 .. n + 1 -> Nat]
        /\ \A i \in 1 .. n : g[i] = f[i]
        /\ g[n + 1] = TokenSum(q, row.lo, row.hi)
    <3>1. \A i \in 1 .. n + 1 : TokenSum(q, more[i].lo, more[i].hi) \in Nat
      BY <1>2, <1>3, <1>4
    <3>2. \A i \in 1 .. n : f[i] \in Nat /\ g[i] = f[i]
      BY <1>2, <3>1
    <3>3. g[n + 1] = TokenSum(q, row.lo, row.hi)
      BY <1>2
    <3>4. f \in [1 .. n -> Nat]
      BY <3>2
    <3>5. g \in [1 .. n + 1 -> Nat]
      BY <3>1
    <3> QED
      BY <3>2, <3>3, <3>4, <3>5
  <2>2. RowTokens(rs, q) = SumFunction(f) /\ RowTokens(more, q) = SumFunction(g)
    BY <1>2 DEF RowTokens
  <2> HIDE DEF f, g
  <2> QED
    BY <2>1, <2>2, <1>5, SumAppend, SumType
<1>7. RowCount(rs) \in Nat /\ RowCount(more) = RowCount(rs) + row.n
  <2> DEFINE f == [i \in 1 .. n |-> rs[i].n]
             g == [i \in 1 .. n + 1 |-> more[i].n]
  <2>1. /\ f \in [1 .. n -> Nat] /\ g \in [1 .. n + 1 -> Nat]
        /\ \A i \in 1 .. n : g[i] = f[i]
        /\ g[n + 1] = row.n
    <3>1. \A i \in 1 .. n + 1 : more[i].n \in Nat
      BY <1>2, <1>3, <1>4
    <3>2. \A i \in 1 .. n : rs[i].n \in Nat /\ rs[i].n = more[i].n
      BY <1>2, <3>1
    <3>3. more[n + 1].n = row.n
      BY <1>2
    <3>4. f \in [1 .. n -> Nat]
      BY <3>2
    <3>5. g \in [1 .. n + 1 -> Nat]
      BY <3>1
    <3>6. \A i \in 1 .. n : g[i] = f[i]
      BY <3>2
    <3>7. g[n + 1] = row.n
      BY <3>3
    <3> QED
      BY <3>4, <3>5, <3>6, <3>7
  <2>2. RowCount(rs) = SumFunction(f) /\ RowCount(more) = SumFunction(g)
    BY <1>2 DEF RowCount
  <2> HIDE DEF f, g
  <2> QED
    BY <2>1, <2>2, <1>5, SumAppend, SumType
<1> QED
  BY <1>4, <1>6, <1>7 DEF more

LEMMA RowsRecord ==
  ASSUME TypeOK, PhaseInv, ExactInv, PeakInv, RowsInv, Record
  PROVE  RowsInv'
<1>1. main # "out" /\ main' = main /\ requests' = requests
  BY DEF PhaseInv, Record, Fetched, mainVars, engineVars
<1>2. PICK osl \in RoundedTenths(Delta(baseline, response, "gen_tokens"), NewCompletions) :
        /\ rows' = Append(rows, TurnMetrics(baseline, response, Peak, NewCompletions, osl))
        /\ osl_total' = osl_total + OslTokens(osl, NewCompletions)
  BY DEF Record
<1>3. PICK row : row = TurnMetrics(baseline, response, Peak, NewCompletions, osl)
  OBVIOUS
<1>4. RowHolds(row, requests)
  BY <1>2, <1>3, RowWritten
<1>5. row.osl = osl /\ row.n = NewCompletions
  BY <1>3 DEF TurnMetrics
<1>6. /\ rows \in Seq(Rows) /\ requests \in Seq(Request) /\ rows' \in Seq(Rows)
      /\ osl_total \in Nat
  BY RecordType DEF TypeOK, Request
<1>7. /\ Len(rows) \in Nat /\ DOMAIN rows = 1 .. Len(rows)
      /\ DOMAIN rows' = 1 .. Len(rows) + 1
      /\ rows'[Len(rows) + 1] = row
      /\ \A i \in DOMAIN rows : rows'[i] = rows[i]
  BY <1>2, <1>3, <1>6, AppendRow
<1>8. row \in Rows
  BY <1>6, <1>7
<1>9. \A i \in DOMAIN rows : RowHolds(rows[i], requests)
  BY <1>1 DEF RowsInv
<1>10. \A i \in DOMAIN rows' : RowHolds(rows'[i], requests')
  BY <1>1, <1>4, <1>7, <1>9
<1>11. TotalHolds(rows', requests', osl_total')
  <2>1. PICK t \in Nat, c \in Nat, d \in Nat, n \in Nat, o \in Nat :
          /\ t = RowTokens(rows, requests) /\ c = RowCount(rows)
          /\ d = TokenSum(requests, row.lo, row.hi) /\ n = row.n /\ o = osl
          /\ RowTokens(rows', requests') = t + d
          /\ RowCount(rows') = c + n
    <3>1. osl \in Nat /\ row.n \in Nat
      BY <1>2, <1>8, RoundedTenthsType DEF Rows
    <3> QED
      BY <1>1, <1>2, <1>3, <1>4, <1>6, <1>8, <1>9, <3>1, RowSums
  <2>2. PICK total \in Nat : total = osl_total /\ osl_total' = total + o * n
    BY <1>2, <1>5, <1>6, <2>1 DEF OslTokens
  <2>3. Near(2 * total, 20 * t, c)
    BY <1>1, <2>1, <2>2 DEF RowsInv, TotalHolds
  <2>4. Near(2 * o * n, 20 * d, n)
    BY <1>4, <1>5, <2>1 DEF RowHolds
  <2>5. Near(2 * (total + o * n), 20 * (t + d), c + n)
    BY <2>3, <2>4, NearAdds
  <2> QED
    BY <2>1, <2>2, <2>5 DEF TotalHolds
<1> QED
  BY <1>1, <1>10, <1>11 DEF RowsInv

LEMMA RowsStep ==
  ASSUME TypeOK, PhaseInv, ExactInv, PeakInv, RowsInv, [Next]_vars
  PROVE  RowsInv'
<1> USE DEF engineVars, mainVars, windowVars, outVars
<1>0. requests \in Seq(Request) /\ rows \in Seq(Rows)
  BY DEF TypeOK, Request
<1>1. CASE EngineStep
  <2>1. PICK request \in Request :
          requests' = Append(requests, request) /\ UNCHANGED <<main, rows, osl_total>>
    BY <1>1 DEF EngineStep, Finish, Request
  <2>2. CASE main = "out"
    BY <2>1, <2>2 DEF RowsInv
  <2>3. CASE main # "out"
    <3>1. ASSUME NEW i \in DOMAIN rows
          PROVE  /\ RowHolds(rows[i], requests')
                 /\ TokenSum(requests', rows[i].lo, rows[i].hi)
                      = TokenSum(requests, rows[i].lo, rows[i].hi)
      <4>1. rows[i] \in Rows /\ RowHolds(rows[i], requests)
        BY <1>0, <2>3 DEF RowsInv
      <4> QED
        BY <4>1, <1>0, <2>1, RowKept
    <3>2. RowTokens(rows, requests') = RowTokens(rows, requests)
      <4>1. [i \in DOMAIN rows |-> TokenSum(requests', rows[i].lo, rows[i].hi)]
              = [i \in DOMAIN rows |-> TokenSum(requests, rows[i].lo, rows[i].hi)]
        BY <3>1
      <4> QED
        BY <4>1 DEF RowTokens
    <3>3. TotalHolds(rows, requests', osl_total)
      BY <2>3, <3>2 DEF RowsInv, TotalHolds
    <3> QED
      BY <2>1, <2>3, <3>1, <3>3 DEF RowsInv
  <2> QED
    BY <2>2, <2>3
<1>2. CASE Enter
  <2>1. rows' = <<>> /\ main' # "out" /\ osl_total' = 0
    BY <1>2 DEF Enter, RowsInv
  <2>2. RowTokens(<<>>, requests') = 0 /\ RowCount(<<>>) = 0
    BY NoRows
  <2>3. TotalHolds(<<>>, requests', 0)
    BY <2>2 DEF TotalHolds, Near
  <2>4. DOMAIN rows' = {}
    BY <2>1
  <2> QED
    BY <2>1, <2>3, <2>4 DEF RowsInv
<1>3. CASE SetStop \/ JoinReturns \/ Scrape \/ Die
  BY <1>3 DEF SetStop, JoinReturns, Scrape, Answer, AnswerWithoutCounters, Die, RowsInv
<1>4. CASE Baseline
  BY <1>4 DEF Baseline, BaselineCheck, BaselineTaken, BaselineFails, BaselineRetry, RowsInv
<1>5. CASE LoopCheck \/ Wake \/ ScrapeFails \/ Rebase \/ Quiet
  BY <1>5 DEF LoopCheck, Wake, ScrapeFails, Rebase, Quiet, RowsInv
<1>6. CASE Record
  BY <1>6, RowsRecord
<1>7. CASE UNCHANGED vars
  BY <1>7 DEF vars, RowsInv
<1> QED
  BY <1>1, <1>2, <1>3, <1>4, <1>5, <1>6, <1>7 DEF Next, ThreadStep, Loop, Terminated

\* A row of engine_metrics.jsonl is about the requests of its window, whatever
\* interleaves with the scrapes: the number, the rounded average, the hits, the
\* reason and the peak are theirs, and the live total is the rows' up to rounding.
\* It needs no assumption on the engine: where error pages make rows overlap, each
\* of them still describes the window it claims.
THEOREM RowsDescribe == Spec => []RowsDescribeTheirWindow
<1>1. Init => PeakInv /\ RowsInv
  BY DEF Init, PeakInv, RowsInv
<1>2. TypeOK /\ ExactInv /\ [Next]_vars => ExactInv'
  BY ExactStep
<1>3. TypeOK /\ PeakInv /\ [Next]_vars => PeakInv'
  BY PeakStep
<1>4. TypeOK /\ PhaseInv /\ ExactInv /\ PeakInv /\ RowsInv /\ [Next]_vars => RowsInv'
  BY RowsStep
<1>5. RowsInv => RowsDescribeTheirWindow
  BY DEF RowsInv, RowHolds, TotalHolds, RowTokens, RowCount, TokenSum, HitSum,
         RowsDescribeTheirWindow, TokensOf, HitsOf
<1> QED
  BY <1>1, <1>2, <1>3, <1>4, <1>5, ExactInit, TypeCorrect, PhaseCorrect, PTL DEF Spec
=============================================================================
