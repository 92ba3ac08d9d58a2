-------------------------- MODULE ReplayMainProofs --------------------------
(***************************************************************************)
(* Theorems about ReplayMain, for any keys, values and defaults, any number  *)
(* of resumed collections, any conversations and any number of agents.        *)
(***************************************************************************)
EXTENDS ReplayMain, FoldLemmas, SequenceTheorems

Complete == [ConfigKeys -> Values]

\* What has all keys keeps its values, whatever it is laid over.
LEMMA OverComplete ==
    ASSUME NEW c \in Complete, NEW s, DOMAIN s = ConfigKeys
    PROVE  Over(c, s) = c
<1>1. Over(c, s) = [k \in ConfigKeys |-> c[k]]
  BY ConfigConstants DEF Over, Complete
<1> QED BY <1>1 DEF Complete

\* A source laid over settings that have all keys gives settings that have all keys.
LEMMA OverKeepsComplete ==
    ASSUME NEW c \in Complete, NEW s \in Source
    PROVE  Over(s, c) \in Complete
BY ConfigConstants DEF Over, Complete, Source

\* VllmConfig.resolve: every setting has a value, and an argument is the last word.
LEMMA ResolveComplete ==
    ASSUME NEW dotenv \in Source, NEW environ \in Source, NEW overrides \in Source
    PROVE  Resolve(Defaults, dotenv, environ, overrides) \in Complete
<1>1. Defaults \in Complete
  BY MainConstants DEF Complete
<1> QED BY <1>1, OverKeepsComplete DEF Resolve

LEMMA ResolveOverrides ==
    ASSUME NEW dotenv \in Source, NEW environ \in Source, NEW c \in Complete
    PROVE  Resolve(Defaults, dotenv, environ, c) = c
<1>1. Over(environ, Over(dotenv, Defaults)) \in Complete
  BY MainConstants, OverKeepsComplete DEF Complete
<1> QED BY <1>1, OverComplete DEF Resolve, Complete

\* What server.sh is given covers what the environment and .env say.
LEMMA StartedComplete ==
    ASSUME NEW dotenv \in Source, NEW environ \in Source, NEW c \in Complete
    PROVE  Started(dotenv, environ, c) = c
<1>1. DOMAIN Over(environ, dotenv) = ConfigKeys
  BY DEF Over, Source
<1> QED BY <1>1, OverComplete DEF Started

\* What run_config.json holds is what the first collection's vLLM was started
\* with, and it is not rewritten; a replay has nothing else to start from.
Kept(c) ==
    /\ \E a \in Source : run_config = [serving_config |-> c, args |-> a]
    /\ captured = c

SettingsInv ==
    /\ \/ run_config = NoConfig /\ captured = NoConfig
       \/ \E c \in Complete : Kept(c)
    /\ served = NoConfig \/ (phase # "collect" /\ served = captured)

\* The absence of a file is not a file.
LEMMA NoConfigIsNone ==
    ASSUME NEW c, NEW a, [serving_config |-> c, args |-> a] = NoConfig PROVE FALSE
BY DEF NoConfig

LEMMA SettingsInit == Init => SettingsInv
BY DEF Init, SettingsInv

LEMMA SettingsNext ==
    SettingsInv /\ [Next]_vars => SettingsInv'
<1> SUFFICES ASSUME SettingsInv, [Next]_vars PROVE SettingsInv'
  OBVIOUS
<1>1. CASE Collect
  <2>1. PICK dotenv \in Source, environ \in Source, arguments \in Source :
          LET config == Resolve(Defaults, dotenv, environ, arguments)
          IN  /\ run_config' = SaveConfig(run_config, config, arguments)
              /\ captured' = IF captured = NoConfig THEN Started(dotenv, environ, config)
                             ELSE captured
    BY <1>1 DEF Collect
  <2> DEFINE config == Resolve(Defaults, dotenv, environ, arguments)
  <2>2. config \in Complete /\ Started(dotenv, environ, config) = config
    BY ResolveComplete, StartedComplete
  <2>3. served' = NoConfig
    BY <1>1 DEF Collect, SettingsInv
  <2>4. CASE run_config = NoConfig /\ captured = NoConfig
    <3>1. run_config' = [serving_config |-> config, args |-> arguments] /\ captured' = config
      BY <2>1, <2>2, <2>4 DEF SaveConfig
    <3> QED BY <2>2, <2>3, <3>1 DEF SettingsInv, Kept
  <2>5. CASE run_config # NoConfig /\ \E c \in Complete : Kept(c)
    <3>1. PICK c \in Complete : Kept(c)
      BY <2>5
    <3>2. run_config' = run_config
      BY <2>1, <2>5 DEF SaveConfig
    <3>3. CASE captured = NoConfig
      <4>1. ConfigKeys = {}
        BY <3>1, <3>3 DEF Kept, Complete, NoConfig
      <4>2. config = c
        BY <2>2, <4>1 DEF Complete
      <4> QED BY <2>1, <2>2, <2>3, <3>1, <3>2, <3>3, <4>2 DEF SettingsInv, Kept
    <3>4. CASE captured # NoConfig
      BY <2>1, <2>3, <3>1, <3>2, <3>4 DEF SettingsInv, Kept
    <3> QED BY <3>3, <3>4
  <2>6. run_config = NoConfig => captured = NoConfig
    BY NoConfigIsNone DEF SettingsInv, Kept
  <2> QED BY <2>4, <2>5, <2>6 DEF SettingsInv
<1>2. CASE StartReplay
  <2>1. PICK c \in Complete : Kept(c)
    BY <1>2 DEF StartReplay, SettingsInv
  <2>2. CapturedOverrides(run_config) = c
    <3>1. PICK a \in Source : run_config = [serving_config |-> c, args |-> a]
      BY <2>1 DEF Kept
    <3> QED BY <3>1, OverComplete DEF CapturedOverrides, Source
  <2>3. served' = c
    <3>1. PICK dotenv \in Source, environ \in Source :
            served' = Started(dotenv, environ,
                              Resolve(Defaults, dotenv, environ, CapturedOverrides(run_config)))
      BY <1>2 DEF StartReplay
    <3> QED BY <2>2, <3>1, ResolveOverrides, StartedComplete
  <2> QED BY <1>2, <2>1, <2>3 DEF StartReplay, SettingsInv, Kept
<1>3. CASE UNCHANGED configVars /\ (phase' = phase \/ phase' = "done")
  BY <1>3 DEF SettingsInv, Kept, configVars
<1>4. Poll \/ Summarise \/ (\E a \in Agents : Answered(a) \/ Refused(a) \/ Broken(a))
        \/ UNCHANGED vars => UNCHANGED configVars /\ (phase' = phase \/ phase' = "done")
  BY DEF Poll, Summarise, Answered, Refused, Broken, vars
<1> QED BY <1>1, <1>2, <1>3, <1>4 DEF Next

\* A vLLM a replay has started has the settings the vLLM of the first collection
\* had, whatever .env, the environment and resumed collections say since.
THEOREM ServedAsCaptured == Spec => []ReplayServesAsCaptured
<1>1. SettingsInv => ReplayServesAsCaptured
  BY DEF SettingsInv, ReplayServesAsCaptured
<1> QED BY <1>1, SettingsInit, SettingsNext, PTL DEF Spec

-----------------------------------------------------------------------------
(* The tokens of the rows *)

MetricRow == [n : Nat, decode_ms : Nat, osl : Nat]

RequestsInRows(rs) == Total([i \in DOMAIN rs |-> rs[i].n])

\* total, in tenths, is `tokens' up to half a tenth for each of n requests.
Within(total, tokens, n) == 2 * (total - 10 * tokens) <= n /\ -2 * (total - 10 * tokens) <= n

\* TokensRecovered, at every moment of the run, and from the summary on.
TokensInv ==
    /\ finished \in Seq(Nat) /\ generated \in Nat /\ metric_rows \in Seq(MetricRow)
    /\ Within(TotalOutputTokens(metric_rows), generated, RequestsInRows(metric_rows))
    /\ phase # "done" => summary = NoSummary
    /\ TokensRecovered

\* The average of a row, times its requests, is their total up to the rounding.
LEMMA TenthsWithin ==
    ASSUME NEW x \in Nat, NEW n \in Nat, n > 0
    PROVE  \A q \in Tenths(x, n) : q \in Nat /\ Within(q * n, x, n)
<1> SUFFICES ASSUME NEW q \in Tenths(x, n)
             PROVE  q \in Nat /\ Within(q * n, x, n)
  OBVIOUS
<1>1. PICK a \in Nat : a = 10 * x
  OBVIOUS
<1>2. q \in {a \div n, a \div n + 1} /\ 2 * (q * n - a) <= n /\ 2 * (a - q * n) <= n
  BY <1>1 DEF Tenths, Nearest
<1>3. q \in Nat
  BY <1>2
<1>4. PICK p \in Nat : p = q * n
  BY <1>3
<1>5. 2 * (p - 10 * x) <= n /\ -2 * (p - 10 * x) <= n
  BY <1>1, <1>2, <1>4
<1> QED
  BY <1>3, <1>4, <1>5 DEF Within

LEMMA TotalType ==
    ASSUME NEW seq \in Seq(Nat)
    PROVE  Total(seq) \in Nat
<1>1. Len(seq) \in Nat /\ seq \in [1 .. Len(seq) -> Nat]
  OBVIOUS
<1> QED
  BY <1>1, IntervalSize, SumType DEF Total

\* A row more.
LEMMA TotalsAppend ==
    ASSUME NEW rs \in Seq(MetricRow), NEW row \in MetricRow
    PROVE  /\ TotalOutputTokens(rs) \in Nat /\ RequestsInRows(rs) \in Nat
           /\ TotalOutputTokens(Append(rs, row)) = TotalOutputTokens(rs) + RowTokens(row)
           /\ RequestsInRows(Append(rs, row)) = RequestsInRows(rs) + row.n
<1> DEFINE more == Append(rs, row)
<1>1. PICK n \in Nat : n = Len(rs)
  OBVIOUS
<1>2. /\ DOMAIN rs = 1 .. n /\ DOMAIN more = 1 .. n + 1
      /\ \A i \in 1 .. n : more[i] = rs[i]
      /\ more[n + 1] = row
      /\ \A i \in 1 .. n + 1 : more[i] \in MetricRow
  BY <1>1
<1> HIDE DEF more
<1>3. \A one \in MetricRow : one.n \in Nat /\ RowTokens(one) \in Nat
  BY DEF MetricRow, RowTokens
<1>4. IsFiniteSet(1 .. n)
  BY IntervalSize
<1>5. /\ TotalOutputTokens(rs) \in Nat
      /\ TotalOutputTokens(more) = TotalOutputTokens(rs) + RowTokens(row)
  <2> DEFINE f == [i \in 1 .. n |-> RowTokens(rs[i])]
             g == [i \in 1 .. n + 1 |-> RowTokens(more[i])]
  <2>1. \A i \in 1 .. n + 1 : RowTokens(more[i]) \in Nat
    BY <1>2, <1>3
  <2>2. /\ f \in [1 .. n -> Nat] /\ g \in [1 .. n + 1 -> Nat]
        /\ \A i \in 1 .. n : g[i] = f[i]
        /\ g[n + 1] = RowTokens(row)
    BY <1>2, <2>1
  <2>3. TotalOutputTokens(rs) = SumFunction(f) /\ TotalOutputTokens(more) = SumFunction(g)
    BY <1>2 DEF TotalOutputTokens, Total
  <2> HIDE DEF f, g
  <2> QED
    BY <2>2, <2>3, <1>4, SumAppend, SumType
<1>6. /\ RequestsInRows(rs) \in Nat
      /\ RequestsInRows(more) = RequestsInRows(rs) + row.n
  <2> DEFINE f == [i \in 1 .. n |-> rs[i].n]
             g == [i \in 1 .. n + 1 |-> more[i].n]
  <2>1. \A i \in 1 .. n + 1 : more[i].n \in Nat
    BY <1>2, <1>3
  <2>2. /\ f \in [1 .. n -> Nat] /\ g \in [1 .. n + 1 -> Nat]
        /\ \A i \in 1 .. n : g[i] = f[i]
        /\ g[n + 1] = row.n
    <3>1. \A i \in 1 .. n : rs[i].n \in Nat /\ rs[i].n = more[i].n
      BY <1>2, <2>1
    <3>2. more[n + 1].n = row.n
      BY <1>2
    <3>3. f \in [1 .. n -> Nat]
      BY <2>1, <3>1
    <3>4. g \in [1 .. n + 1 -> Nat]
      BY <2>1
    <3>5. \A i \in 1 .. n : g[i] = f[i]
      BY <3>1
    <3>6. g[n + 1] = row.n
      BY <3>2
    <3> QED
      BY <3>3, <3>4, <3>5, <3>6
  <2>3. RequestsInRows(rs) = SumFunction(f) /\ RequestsInRows(more) = SumFunction(g)
    BY <1>2 DEF RequestsInRows, Total
  <2> HIDE DEF f, g
  <2> QED
    BY <2>2, <2>3, <1>4, SumAppend, SumType
<1> QED
  BY <1>5, <1>6 DEF more

LEMMA TotalsType ==
    ASSUME NEW rs \in Seq(MetricRow)
    PROVE  TotalOutputTokens(rs) \in Nat /\ RequestsInRows(rs) \in Nat
<1>1. [n |-> 1, decode_ms |-> 0, osl |-> 0] \in MetricRow
  BY DEF MetricRow
<1> QED
  BY <1>1, TotalsAppend

LEMMA TotalsEmpty == TotalOutputTokens(<<>>) = 0 /\ RequestsInRows(<<>>) = 0
<1> DEFINE f == [i \in DOMAIN <<>> |-> RowTokens(<<>>[i])]
           g == [i \in DOMAIN <<>> |-> <<>>[i].n]
<1>1. /\ DOMAIN <<>> = {}
      /\ f \in [{} -> Nat] /\ g \in [{} -> Nat]
  OBVIOUS
<1> HIDE DEF f, g
<1>2. SumFunction(f) = 0 /\ SumFunction(g) = 0
  BY <1>1, SumZero, FS_EmptySet
<1> QED
  BY <1>2 DEF TotalOutputTokens, RequestsInRows, Total, f, g

\* Tolerances add up.
LEMMA WithinAdds ==
    ASSUME NEW total \in Nat, NEW tokens \in Nat, NEW c \in Nat, Within(total, tokens, c),
           NEW p \in Nat, NEW x \in Nat, NEW n \in Nat, Within(p, x, n)
    PROVE  Within(total + p, tokens + x, c + n)
BY DEF Within

LEMMA SessionOsl ==
    ASSUME NEW a \in Agents, NEW t \in DOMAIN Session(a).turns
    PROVE  Session(a).turns[t].osl \in Nat
<1>1. PICK turns \in Seq(TurnCounts) : turns = Conversations[a].turns
  BY ConversationTurns
<1>2. /\ DOMAIN Session(a).turns = DOMAIN turns
      /\ Session(a).turns[t].osl = turns[t].osl
  BY <1>1 DEF Session, Captured
<1>3. turns[t] \in TurnCounts
  BY <1>1, <1>2
<1> QED
  BY <1>2, <1>3 DEF TurnCounts

LEMMA TokensPoll ==
    ASSUME TokensInv, Poll
    PROVE  TokensInv'
<1>1. /\ finished \in Seq(Nat) /\ generated \in Nat /\ metric_rows \in Seq(MetricRow)
      /\ finished # <<>> /\ phase = "replay" /\ phase' = phase
      /\ finished' = <<>> /\ generated' = generated + Total(finished)
      /\ summary' = summary /\ summary = NoSummary
  BY DEF TokensInv, Poll, outVars
<1>2. PICK n \in Nat, x \in Nat : n = Len(finished) /\ x = Total(finished) /\ n > 0
  BY <1>1, TotalType
<1>3. PICK row : /\ metric_rows' = Append(metric_rows, row)
                 /\ row \in MetricRow /\ row.n = n /\ row.osl \in Tenths(x, n)
  <2>1. PICK decode_ms \in DecodeTimes :
          \E osl \in Tenths(x, n) :
             metric_rows' = Append(metric_rows, [n |-> n, decode_ms |-> decode_ms, osl |-> osl])
    BY <1>2 DEF Poll
  <2>2. PICK osl \in Tenths(x, n) :
          metric_rows' = Append(metric_rows, [n |-> n, decode_ms |-> decode_ms, osl |-> osl])
    BY <2>1
  <2>4. decode_ms \in Nat /\ osl \in Nat
    BY <1>2, <2>2, MainConstants, TenthsWithin
  <2> DEFINE row == [n |-> n, decode_ms |-> decode_ms, osl |-> osl]
  <2>3. row \in MetricRow /\ row.n = n /\ row.osl \in Tenths(x, n)
    BY <2>2, <2>4 DEF MetricRow
  <2> QED
    BY <2>2, <2>3
<1>4. metric_rows' \in Seq(MetricRow)
  BY <1>1, <1>3
<1>5. PICK p \in Nat : p = RowTokens(row) /\ Within(p, x, n)
  <2>1. row.osl \in Nat /\ Within(row.osl * n, x, n)
    BY <1>2, <1>3, TenthsWithin
  <2> QED
    BY <1>3, <2>1 DEF RowTokens
<1>6. PICK total \in Nat, c \in Nat :
        /\ total = TotalOutputTokens(metric_rows) /\ c = RequestsInRows(metric_rows)
        /\ TotalOutputTokens(metric_rows') = total + p
        /\ RequestsInRows(metric_rows') = c + n
  BY <1>1, <1>3, <1>5, TotalsAppend
<1>7. Within(total + p, generated + x, c + n)
  BY <1>1, <1>2, <1>5, <1>6, WithinAdds DEF TokensInv
<1>8. TokensRecovered'
  BY <1>1 DEF TokensRecovered, Summarised
<1> QED
  BY <1>1, <1>2, <1>4, <1>6, <1>7, <1>8 DEF TokensInv

LEMMA TokensStep ==
    TokensInv /\ [Next]_vars => TokensInv'
<1> SUFFICES ASSUME TokensInv, [Next]_vars PROVE TokensInv'
  OBVIOUS
<1>1. CASE Poll
  BY <1>1, TokensPoll
<1>2. CASE Summarise
  <2>1. UNCHANGED <<finished, generated, metric_rows>> /\ phase' = "done"
    BY <1>2 DEF Summarise, engineVars
  <2>2. PICK total \in RoundedTotals(metric_rows) :
          summary'.throughput.total_output_tokens = total
    BY <1>2 DEF Summarise, Summary, ThroughputStats
  <2>4. PICK tenths \in Nat, n \in Nat, whole_total \in Nat :
          /\ tenths = TotalOutputTokens(metric_rows) /\ n = RequestsInRows(metric_rows)
          /\ whole_total = total
          /\ 2 * (10 * total - tenths) <= 10 /\ 2 * (tenths - 10 * total) <= 10
    <3>1. PICK tenths \in Nat, n \in Nat :
            tenths = TotalOutputTokens(metric_rows) /\ n = RequestsInRows(metric_rows)
      BY TotalsType DEF TokensInv
    <3>2. /\ total \in {tenths \div 10, tenths \div 10 + 1}
          /\ 2 * (total * 10 - tenths) <= 10 /\ 2 * (tenths - total * 10) <= 10
      BY <2>2, <3>1 DEF RoundedTotals, Nearest
    <3>3. total \in Nat
      BY <3>2
    <3> QED
      BY <3>1, <3>2, <3>3
  <2>5. PICK g \in Nat : g = generated /\ 2 * (tenths - 10 * g) <= n /\ -2 * (tenths - 10 * g) <= n
    BY <2>4 DEF TokensInv, Within
  <2>6. 2 * (10 * (total - g)) <= n + 10 /\ -2 * (10 * (total - g)) <= n + 10
    BY <2>4, <2>5
  <2>3. TokensRecovered'
    BY <2>1, <2>2, <2>4, <2>5, <2>6 DEF TokensRecovered, RequestsInRows
  <2> QED
    BY <2>1, <2>3 DEF TokensInv
<1>3. CASE \E a \in Agents : Answered(a)
  <2>1. PICK a \in Agents : Answered(a)
    BY <1>3
  <2>2. finished' \in Seq(Nat)
    BY <2>1, SessionOsl DEF Answered, Ready, TokensInv
  <2>3. UNCHANGED <<phase, generated, metric_rows, summary>>
    BY <2>1 DEF Answered, outVars
  <2> QED
    BY <2>2, <2>3 DEF TokensInv, TokensRecovered, Summarised
<1>4. CASE UNCHANGED <<finished, generated, metric_rows, summary>>
           /\ phase # "done" /\ phase' # "done"
  <2>1. TokensRecovered'
    BY <1>4 DEF TokensInv, TokensRecovered, Summarised
  <2> QED
    BY <1>4, <2>1 DEF TokensInv
<1>5. CASE UNCHANGED vars
  BY <1>5 DEF vars, engineVars, rowVars, outVars, TokensInv, TokensRecovered, Summarised
<1>6. Collect \/ StartReplay \/ (\E a \in Agents : Refused(a) \/ Broken(a))
        => UNCHANGED <<finished, generated, metric_rows, summary>>
           /\ phase # "done" /\ phase' # "done"
  BY DEF Collect, StartReplay, Refused, Broken, Ready, engineVars, rowVars, outVars
<1> QED
  BY <1>1, <1>2, <1>3, <1>4, <1>5, <1>6 DEF Next

\* The total of the summary is what the requests in the rows generated, up to
\* half a tenth of a token for each of them and half a token for the total, however
\* many requests a poll finds.
THEOREM TokensAreRecovered == Spec => []TokensRecovered
<1>1. Init => TokensInv
  BY TotalsEmpty DEF Init, TokensInv, TokensRecovered, Summarised, Within
<1>2. TokensInv => TokensRecovered
  BY DEF TokensInv
<1> QED
  BY <1>1, <1>2, TokensStep, PTL DEF Spec

-----------------------------------------------------------------------------
(* Flattened sequences *)

\* The recursion of FlattenSeq over the first n members.
Flattens(f, seqs, n) ==
    f = [i \in 1 .. n |-> IF i = 1 THEN seqs[i] ELSE f[i - 1] \o seqs[i]]

LEMMA FlattensStep ==
    ASSUME NEW f, NEW seqs, NEW n \in Nat, Flattens(f, seqs, n), NEW i \in 1 .. n
    PROVE  f[i] = IF i = 1 THEN seqs[i] ELSE f[i - 1] \o seqs[i]
<1> DEFINE step(j) == IF j = 1 THEN seqs[j] ELSE f[j - 1] \o seqs[j]
<1>1. f = [j \in 1 .. n |-> step(j)]
  BY DEF Flattens
<1> HIDE DEF step
<1>2. f[i] = step(i)
  BY <1>1
<1> QED
  BY <1>2 DEF step

LEMMA FlattensExists ==
    ASSUME NEW seqs, NEW n \in Nat
    PROVE  \E f : Flattens(f, seqs, n)
<1> DEFINE T == {m \in Nat : ~ \E f : Flattens(f, seqs, m)}
<1> SUFFICES ASSUME T # {}
             PROVE  FALSE
  OBVIOUS
<1>1. T \subseteq Nat
  OBVIOUS
<1> HIDE DEF T
<1>2. PICK m \in T : \A k \in T : m <= k
  BY <1>1, LeastNatural
<1>3. m \in Nat /\ ~ \E f : Flattens(f, seqs, m)
  BY <1>2 DEF T
<1>4. CASE m = 0
  <2> DEFINE f == [i \in {} |-> 0]
  <2>1. 1 .. m = {}
    BY <1>4
  <2>2. Flattens(f, seqs, m)
    BY <2>1 DEF Flattens
  <2> QED
    BY <1>3, <2>2
<1>5. CASE m > 0
  <2>1. m - 1 \in Nat /\ m - 1 \notin T
    BY <1>2, <1>3, <1>5
  <2>2. PICK f : Flattens(f, seqs, m - 1)
    BY <2>1 DEF T
  <2> DEFINE step(h, i) == IF i = 1 THEN seqs[i] ELSE h[i - 1] \o seqs[i]
             g == [i \in 1 .. m |-> IF i < m THEN f[i] ELSE step(f, i)]
  <2>3. \A i \in 1 .. m - 1 : f[i] = step(f, i)
    BY <2>1, <2>2, FlattensStep
  <2>4. ASSUME NEW i \in 1 .. m, i # 1
        PROVE  g[i - 1] = f[i - 1]
    <3>1. i - 1 \in 1 .. m /\ i - 1 < m
      BY <1>3, <2>4
    <3> QED
      BY <3>1
  <2>5. ASSUME NEW i \in 1 .. m
        PROVE  step(g, i) = step(f, i)
    <3> HIDE DEF g
    <3>1. CASE i = 1
      BY <3>1
    <3>2. CASE i # 1
      BY <2>4, <3>2
    <3> QED
      BY <3>1, <3>2
  <2>6. \A i \in 1 .. m : i < m => i \in 1 .. m - 1
    BY <1>3
  <2> HIDE DEF step
  <2>7. g = [i \in 1 .. m |-> step(g, i)]
    BY <2>3, <2>5, <2>6
  <2> HIDE DEF g
  <2>8. Flattens(g, seqs, m)
    BY <2>7 DEF Flattens, step
  <2> QED
    BY <1>3, <2>8
<1> QED
  BY <1>3, <1>4, <1>5

\* The first n members are the same.
Agree(s, t, n) == \A i \in 1 .. n : s[i] = t[i]

\* Only the first members count.
LEMMA FlattensUnique ==
    ASSUME NEW s, NEW t, NEW n \in Nat, NEW m \in Nat, n <= m,
           Agree(s, t, n), NEW f, Flattens(f, s, n), NEW g, Flattens(g, t, m)
    PROVE  Agree(f, g, n)
<1> DEFINE T == {i \in 1 .. n : f[i] # g[i]}
<1> SUFFICES ASSUME T # {}
             PROVE  FALSE
  BY DEF Agree
<1>1. T \subseteq Nat
  OBVIOUS
<1> HIDE DEF T
<1>2. PICK i \in T : \A k \in T : i <= k
  BY <1>1, LeastNatural
<1>3. i \in 1 .. n /\ i \in 1 .. m /\ f[i] # g[i]
  BY <1>2 DEF T
<1>4. /\ f[i] = IF i = 1 THEN s[i] ELSE f[i - 1] \o s[i]
      /\ g[i] = IF i = 1 THEN t[i] ELSE g[i - 1] \o t[i]
  BY <1>3, FlattensStep
<1>5. i # 1 => f[i - 1] = g[i - 1]
  <2>1. i # 1 => i - 1 \in 1 .. n /\ i - 1 \notin T
    BY <1>2, <1>3
  <2> QED
    BY <2>1 DEF T
<1> QED
  BY <1>3, <1>4, <1>5 DEF Agree

LEMMA FlattenIs ==
    ASSUME NEW seqs, NEW n \in Nat, n = Len(seqs), n > 0, NEW f, Flattens(f, seqs, n)
    PROVE  FlattenSeq(seqs) = f[n]
<1> DEFINE h == CHOOSE h : Flattens(h, seqs, n)
<1>1. FlattenSeq(seqs) = h[n]
  BY DEF FlattenSeq, Flattens
<1>2. Flattens(h, seqs, n)
  OBVIOUS
<1> HIDE DEF h
<1>3. Agree(seqs, seqs, n)
  BY DEF Agree
<1>4. Agree(h, f, n)
  BY <1>2, <1>3, FlattensUnique
<1> QED
  BY <1>1, <1>4 DEF Agree

LEMMA FlattenOne ==
    ASSUME NEW seqs, Len(seqs) = 1
    PROVE  FlattenSeq(seqs) = seqs[1]
<1>1. PICK f : Flattens(f, seqs, 1)
  BY FlattensExists
<1>2. FlattenSeq(seqs) = f[1]
  BY <1>1, FlattenIs
<1>3. 1 \in 1 .. 1
  OBVIOUS
<1> QED
  BY <1>1, <1>2, <1>3, FlattensStep

LEMMA FlattenMore ==
    ASSUME NEW seqs, NEW more, NEW n \in Nat, n > 0, n = Len(seqs), n + 1 = Len(more),
           \A i \in 1 .. n : more[i] = seqs[i]
    PROVE  FlattenSeq(more) = FlattenSeq(seqs) \o more[n + 1]
<1>1. PICK f : Flattens(f, seqs, n)
  BY FlattensExists
<1>0. PICK m \in Nat : m = n + 1
  OBVIOUS
<1>2. PICK g : Flattens(g, more, m)
  BY FlattensExists
<1>3. FlattenSeq(seqs) = f[n] /\ FlattenSeq(more) = g[m]
  BY <1>0, <1>1, <1>2, FlattenIs
<1>4. g[n] = f[n]
  <2>1. n <= m /\ Agree(seqs, more, n)
    BY <1>0 DEF Agree
  <2>2. Agree(f, g, n)
    BY <1>1, <1>2, <2>1, FlattensUnique
  <2> QED
    BY <2>2 DEF Agree
<1>5. g[m] = g[n] \o more[m]
  <2>1. m \in 1 .. m /\ m # 1 /\ m - 1 = n
    BY <1>0
  <2> QED
    <3>1. \A i \in 1 .. m : g[i] = IF i = 1 THEN more[i] ELSE g[i - 1] \o more[i]
      BY <1>2, FlattensStep
    <3>2. g[m] = IF m = 1 THEN more[m] ELSE g[m - 1] \o more[m]
      BY <2>1, <3>1
    <3> QED
      BY <2>1, <3>2
<1> QED
  BY <1>0, <1>3, <1>4, <1>5

-----------------------------------------------------------------------------
(* The counts of a capture *)

LEMMA SumToType ==
    ASSUME NEW counts \in Seq(Nat), NEW t \in 0 .. Len(counts)
    PROVE  SumTo(counts, t) \in Nat
<1>1. SubSeq(counts, 1, t) \in Seq(Nat)
  <2>1. \A i \in 1 .. t : counts[i] \in Nat
    OBVIOUS
  <2> QED
    BY <2>1, SubSeqProperties
<1> QED
  BY <1>1, TotalType DEF SumTo

LEMMA SumToZero ==
    ASSUME NEW counts
    PROVE  SumTo(counts, 0) = 0
<1>1. SubSeq(counts, 1, 0) = <<>>
  BY SubSeqEmpty
<1>2. <<>> \in [{} -> Nat]
  OBVIOUS
<1> QED
  BY <1>1, <1>2, SumZero, FS_EmptySet DEF SumTo, Total

LEMMA SumToStep ==
    ASSUME NEW counts \in Seq(Nat), NEW t \in Nat, t + 1 <= Len(counts)
    PROVE  SumTo(counts, t + 1) = SumTo(counts, t) + counts[t + 1]
<1> DEFINE f == SubSeq(counts, 1, t)
           g == SubSeq(counts, 1, t + 1)
<1>1. \A i \in 1 .. t + 1 : counts[i] \in Nat
  OBVIOUS
<1>2. f \in Seq(Nat) /\ Len(f) = t /\ \A i \in 1 .. t : f[i] = counts[i]
  <2>1. \A i \in 1 .. t : counts[i] \in Nat
    BY <1>1
  <2> HIDE DEF f
  <2>2. /\ f \in Seq(Nat) /\ Len(f) = (IF 1 <= t THEN t - 1 + 1 ELSE 0)
        /\ \A i \in 1 .. t - 1 + 1 : f[i] = counts[1 + i - 1]
    BY <2>1, SubSeqProperties DEF f
  <2> QED
    BY <2>2
<1>3. g \in Seq(Nat) /\ Len(g) = t + 1 /\ \A i \in 1 .. t + 1 : g[i] = counts[i]
  <2> HIDE DEF g
  <2>1. /\ g \in Seq(Nat) /\ Len(g) = (IF 1 <= t + 1 THEN t + 1 - 1 + 1 ELSE 0)
        /\ \A i \in 1 .. t + 1 - 1 + 1 : g[i] = counts[1 + i - 1]
    BY <1>1, SubSeqProperties DEF g
  <2> QED
    BY <2>1
<1>4. SumTo(counts, t) = SumFunction(f) /\ SumTo(counts, t + 1) = SumFunction(g)
  BY DEF SumTo, Total
<1> HIDE DEF f, g
<1>5. f \in [1 .. t -> Nat] /\ g \in [1 .. t + 1 -> Nat]
  BY <1>2, <1>3
<1>6. ASSUME NEW i \in 1 .. t
      PROVE  g[i] = f[i]
  <2>1. i \in 1 .. t + 1
    OBVIOUS
  <2>2. g[i] = counts[i]
    BY <1>3, <2>1
  <2> QED
    BY <1>2, <2>2
<1>7. SumFunction(g) = SumFunction(f) + g[t + 1]
  BY <1>5, <1>6, SumAppend
<1> QED
  BY <1>3, <1>4, <1>7

Turns(a) == Conversations[a].turns
NewCounts(a) == [i \in DOMAIN Turns(a) |-> Turns(a)[i].new]
Osls(a) == [i \in DOMAIN Turns(a) |-> Turns(a)[i].osl]

LEMMA TurnsType ==
    ASSUME NEW a \in Agents
    PROVE  /\ Len(Turns(a)) \in Nat /\ DOMAIN Turns(a) = 1 .. Len(Turns(a))
           /\ NewCounts(a) \in Seq(Nat) /\ Len(NewCounts(a)) = Len(Turns(a))
           /\ Osls(a) \in Seq(Nat) /\ Len(Osls(a)) = Len(Turns(a))
           /\ \A t \in DOMAIN Turns(a) : /\ Turns(a)[t].new \in Nat /\ Turns(a)[t].osl \in Nat
                                         /\ NewCounts(a)[t] = Turns(a)[t].new
                                         /\ Osls(a)[t] = Turns(a)[t].osl
<1>1. PICK turns \in Seq(TurnCounts) : turns = Turns(a)
  BY ConversationTurns DEF Turns
<1>2. PICK n \in Nat : n = Len(turns) /\ DOMAIN turns = 1 .. n
  BY <1>1
<1>3. \A t \in 1 .. n : turns[t] \in TurnCounts
  BY <1>2
<1>4. \A t \in 1 .. n : turns[t].new \in Nat /\ turns[t].osl \in Nat
  BY <1>3 DEF TurnCounts
<1>5. NewCounts(a) \in [1 .. n -> Nat] /\ Osls(a) \in [1 .. n -> Nat]
  BY <1>1, <1>2, <1>4 DEF NewCounts, Osls
<1>6. NewCounts(a) \in Seq(Nat) /\ Osls(a) \in Seq(Nat)
  BY <1>5, SeqDef
<1>7. Len(NewCounts(a)) = n /\ Len(Osls(a)) = n
  BY <1>5, <1>6
<1> QED
  BY <1>1, <1>2, <1>4, <1>6, <1>7 DEF NewCounts, Osls

\* What vLLM has counted for a turn.
LEMMA CapturedTurn ==
    ASSUME NEW a \in Agents, NEW t \in DOMAIN Turns(a)
    PROVE  /\ DOMAIN Session(a).turns = DOMAIN Turns(a) /\ Session(a).id = Conversations[a].id
           /\ Session(a).turns[t].isl = SumTo(NewCounts(a), t) + SumTo(Osls(a), t - 1)
           /\ Session(a).turns[t].isl_new
                = Turns(a)[t].new + (IF Conversations[a].kept \/ t = 1 THEN 0
                                     ELSE Turns(a)[t - 1].osl)
           /\ Session(a).turns[t].osl = Turns(a)[t].osl
           /\ Session(a).turns[t].isl \in Nat /\ Session(a).turns[t].isl_new \in Nat
           /\ Session(a).turns[t].osl \in Nat
<1>1. /\ DOMAIN Session(a).turns = DOMAIN Turns(a) /\ Session(a).id = Conversations[a].id
      /\ Session(a).turns[t].isl = SumTo(NewCounts(a), t) + SumTo(Osls(a), t - 1)
      /\ Session(a).turns[t].isl_new
           = Turns(a)[t].new + (IF Conversations[a].kept \/ t = 1 THEN 0
                                ELSE Turns(a)[t - 1].osl)
      /\ Session(a).turns[t].osl = Turns(a)[t].osl
  BY DEF Session, Captured, Turns, NewCounts, Osls, OldOsl
<1>2. t \in Nat /\ t >= 1 /\ t <= Len(Turns(a)) /\ Len(Turns(a)) \in Nat
  BY TurnsType
<1>3. t \in 0 .. Len(NewCounts(a)) /\ t - 1 \in 0 .. Len(Osls(a))
  BY <1>2, TurnsType
<1>4. SumTo(NewCounts(a), t) \in Nat /\ SumTo(Osls(a), t - 1) \in Nat
  BY <1>3, TurnsType, SumToType
<1>5. t # 1 => t - 1 \in DOMAIN Turns(a)
  BY <1>2, TurnsType
<1>6. Turns(a)[t].new \in Nat /\ Turns(a)[t].osl \in Nat
      /\ (t # 1 => Turns(a)[t - 1].osl \in Nat)
  BY <1>5, TurnsType
<1>7. Session(a).turns[t].isl_new \in Nat
  <2>1. CASE Conversations[a].kept \/ t = 1
    BY <1>1, <1>6, <2>1
  <2>2. CASE ~(Conversations[a].kept \/ t = 1)
    BY <1>1, <1>6, <2>2
  <2> QED
    BY <2>1, <2>2
<1> QED
  BY <1>1, <1>4, <1>6, <1>7

-----------------------------------------------------------------------------
(* Prompts *)

\* The tokens of texts, and those of answers.
Labels == {"any", "system"}
            \cup {<<Session(a).id, w, t>> : a \in Agents, w \in {"u", "a"}, t \in Nat}
Token == (Labels \X Nat)
            \cup {<<"output", a, t, i>> : a \in Agents, t \in Nat, i \in Nat}

\* What is sent for turn t of the session of a, and its messages in one piece.
Flat(a, t) == FlattenSeq(Messages(Session(a), t))
Prompt(a, t) == SystemPrompt \o Flat(a, t)

LEMMA TextType ==
    ASSUME NEW label \in Labels, NEW n \in Int
    PROVE  Text(label, n) \in Seq(Token) /\ Len(Text(label, n)) = AtLeastOne(n)
<1>1. PICK k \in Nat : k = AtLeastOne(n)
  BY DEF AtLeastOne
<1>2. "any" \in Labels
  BY DEF Labels
<1> DEFINE e(i) == IF i <= Shared THEN <<"any", i>> ELSE <<label, i>>
<1>3. \A i \in 1 .. k : e(i) \in Token
  BY <1>2 DEF Token
<1> HIDE DEF e
<1>4. [i \in 1 .. k |-> e(i)] \in [1 .. k -> Token]
  BY <1>3
<1>5. Text(label, n) = [i \in 1 .. k |-> e(i)]
  BY <1>1 DEF Text, e
<1>6. Text(label, n) \in Seq(Token)
  BY <1>4, <1>5, SeqDef
<1> QED
  BY <1>1, <1>4, <1>5, <1>6

LEMMA SystemPromptType == SystemPrompt \in Seq(Token) /\ Len(SystemPrompt) = System
<1>1. "system" \in Labels
  BY DEF Labels
<1>2. \A i \in 1 .. System : <<"system", i>> \in Token
  BY <1>1 DEF Token
<1>3. SystemPrompt \in [1 .. System -> Token]
  BY <1>2 DEF SystemPrompt
<1>4. SystemPrompt \in Seq(Token)
  BY <1>3, SeqDef, PromptConstants
<1> QED
  BY <1>3, <1>4, PromptConstants

\* How much a turn of the session of a adds to the prompt.
UserTokens(a, t) == IF t = 1 THEN Session(a).turns[1].isl - System
                             ELSE Session(a).turns[t].isl_new

LEMMA MessageType ==
    ASSUME NEW a \in Agents, NEW t \in DOMAIN Turns(a)
    PROVE  /\ UserMessage(Session(a), t) \in Seq(Token)
           /\ Len(UserMessage(Session(a), t)) = AtLeastOne(UserTokens(a, t))
           /\ AssistantMessage(Session(a), t) \in Seq(Token)
           /\ Len(AssistantMessage(Session(a), t)) = AtLeastOne(Session(a).turns[t].osl)
<1>1. t \in Nat
  BY TurnsType
<1>2. <<Session(a).id, "u", t>> \in Labels /\ <<Session(a).id, "a", t>> \in Labels
  BY <1>1 DEF Labels
<1>3. UserTokens(a, t) \in Int /\ Session(a).turns[t].osl \in Int
  <2>1. /\ Session(a).turns[t].isl \in Nat /\ Session(a).turns[t].isl_new \in Nat
        /\ Session(a).turns[t].osl \in Nat
    BY CapturedTurn
  <2> QED
    BY <2>1, PromptConstants DEF UserTokens
<1> QED
  BY <1>2, <1>3, TextType DEF UserMessage, AssistantMessage, UserTokens

LEMMA MessagesType ==
    ASSUME NEW a \in Agents, NEW t \in DOMAIN Turns(a)
    PROVE  /\ Len(Messages(Session(a), t)) = 2 * t - 1
           /\ \A k \in 1 .. 2 * t - 1 :
                Messages(Session(a), t)[k]
                  = IF k % 2 = 1 THEN UserMessage(Session(a), (k + 1) \div 2)
                                 ELSE AssistantMessage(Session(a), k \div 2)
<1>1. t \in Nat /\ t >= 1
  BY TurnsType
<1>2. PICK n \in Nat : n = 2 * t - 1
  BY <1>1
<1> DEFINE e(k) == IF k % 2 = 1 THEN UserMessage(Session(a), (k + 1) \div 2)
                                ELSE AssistantMessage(Session(a), k \div 2)
<1>3. Messages(Session(a), t) = [k \in 1 .. n |-> e(k)]
  BY <1>2 DEF Messages
<1> HIDE DEF e
<1>4. Len([k \in 1 .. n |-> e(k)]) = n
  OBVIOUS
<1>5. \A k \in 1 .. n : Messages(Session(a), t)[k] = e(k)
  BY <1>3
<1> QED
  BY <1>2, <1>3, <1>4, <1>5 DEF e

LEMMA FirstTurn ==
    ASSUME NEW a \in Agents, 1 \in DOMAIN Turns(a)
    PROVE  Flat(a, 1) = UserMessage(Session(a), 1)
<1>1. /\ Len(Messages(Session(a), 1)) = 1
      /\ Messages(Session(a), 1)[1] = UserMessage(Session(a), 1)
  <2>1. 2 * 1 - 1 = 1 /\ 1 % 2 = 1 /\ (1 + 1) \div 2 = 1 /\ 1 \in 1 .. 1
    OBVIOUS
  <2>2. /\ Len(Messages(Session(a), 1)) = 2 * 1 - 1
        /\ \A k \in 1 .. 2 * 1 - 1 :
             Messages(Session(a), 1)[k]
               = IF k % 2 = 1 THEN UserMessage(Session(a), (k + 1) \div 2)
                              ELSE AssistantMessage(Session(a), k \div 2)
    BY MessagesType
  <2> QED
    BY <2>1, <2>2
<1> QED
  BY <1>1, FlattenOne DEF Flat

\* One turn later there are two messages more.
LEMMA NextTurn ==
    ASSUME NEW a \in Agents, NEW t \in DOMAIN Turns(a), t + 1 \in DOMAIN Turns(a)
    PROVE  Flat(a, t + 1) = (Flat(a, t) \o AssistantMessage(Session(a), t))
                                \o UserMessage(Session(a), t + 1)
<1>1. PICK u \in DOMAIN Turns(a) : u = t + 1
  OBVIOUS
<1>2. t \in Nat /\ t >= 1
  BY TurnsType
<1>3. PICK n \in Nat : n = 2 * t - 1 /\ n > 0 /\ n + 2 = 2 * u - 1
  BY <1>1, <1>2
<1> DEFINE e(k) == IF k % 2 = 1 THEN UserMessage(Session(a), (k + 1) \div 2)
                                ELSE AssistantMessage(Session(a), k \div 2)
           early == Messages(Session(a), t)
           late == Messages(Session(a), u)
           middle == [k \in 1 .. n + 1 |-> e(k)]
<1>4. /\ Len(early) = n /\ \A k \in 1 .. n : early[k] = e(k)
      /\ Len(late) = n + 2 /\ \A k \in 1 .. n + 2 : late[k] = e(k)
  BY <1>3, MessagesType
<1>5. e(n + 1) = AssistantMessage(Session(a), t) /\ e(n + 2) = UserMessage(Session(a), u)
  <2>1. n + 1 = 2 * t /\ n + 2 = 2 * t + 1 /\ n + 2 + 1 = 2 * u
    BY <1>1, <1>2, <1>3
  <2>2. (n + 1) % 2 # 1 /\ (n + 1) \div 2 = t /\ (n + 2) % 2 = 1 /\ (n + 2 + 1) \div 2 = u
    BY <2>1, <1>1, <1>2
  <2> QED
    BY <2>2
<1> HIDE DEF e
<1>6. Len(middle) = n + 1 /\ \A k \in 1 .. n + 1 : middle[k] = e(k)
  OBVIOUS
<1> HIDE DEF early, late, middle
<1>7. PICK m \in Nat : m = n + 1 /\ m + 1 = n + 2
  OBVIOUS
<1>8. FlattenSeq(middle) = FlattenSeq(early) \o middle[n + 1]
  <2>1. \A k \in 1 .. n : middle[k] = early[k]
    BY <1>4, <1>6
  <2> QED
    BY <1>3, <1>4, <1>6, <2>1, FlattenMore
<1>9. FlattenSeq(late) = FlattenSeq(middle) \o late[m + 1]
  <2>1. \A k \in 1 .. m : late[k] = middle[k]
    BY <1>4, <1>6, <1>7
  <2>2. m > 0 /\ m = Len(middle) /\ m + 1 = Len(late)
    BY <1>4, <1>6, <1>7
  <2> QED
    BY <2>1, <2>2, FlattenMore
<1>10. middle[n + 1] = e(n + 1) /\ late[m + 1] = e(n + 2)
  BY <1>4, <1>6, <1>7
<1> QED
  BY <1>1, <1>5, <1>8, <1>9, <1>10 DEF Flat, early, late

LEMMA FlatType ==
    ASSUME NEW a \in Agents, NEW u \in DOMAIN Turns(a)
    PROVE  Flat(a, u) \in Seq(Token)
<1> DEFINE T == {t \in DOMAIN Turns(a) : Flat(a, t) \notin Seq(Token)}
<1> SUFFICES ASSUME T # {}
             PROVE  FALSE
  OBVIOUS
<1>1. T \subseteq Nat
  BY TurnsType
<1> HIDE DEF T
<1>2. PICK t \in T : \A k \in T : t <= k
  BY <1>1, LeastNatural
<1>3. t \in DOMAIN Turns(a) /\ Flat(a, t) \notin Seq(Token)
  BY <1>2 DEF T
<1>4. CASE t = 1
  BY <1>3, <1>4, FirstTurn, MessageType
<1>5. CASE t # 1
  <2>1. PICK s \in DOMAIN Turns(a) : s + 1 = t
    <3>1. t - 1 \in DOMAIN Turns(a) /\ t - 1 + 1 = t
      BY <1>3, <1>5, TurnsType
    <3> QED
      BY <3>1
  <2>2. s \in Nat /\ s \notin T
    BY <1>1, <1>2, <2>1, TurnsType
  <2>3. Flat(a, s) \in Seq(Token)
    BY <2>1, <2>2 DEF T
  <2>4. /\ AssistantMessage(Session(a), s) \in Seq(Token)
        /\ UserMessage(Session(a), t) \in Seq(Token)
    BY <1>3, <2>1, MessageType
  <2>5. Flat(a, t) = (Flat(a, s) \o AssistantMessage(Session(a), s)) \o UserMessage(Session(a), t)
    BY <1>3, <2>1, NextTurn
  <2> QED
    BY <1>3, <2>3, <2>4, <2>5, ConcatProperties
<1> QED
  BY <1>4, <1>5

\* The prompt of a turn, and what the next turn adds to it.
LEMMA PromptFirst ==
    ASSUME NEW a \in Agents, 1 \in DOMAIN Turns(a)
    PROVE  Len(Prompt(a, 1)) = System + AtLeastOne(UserTokens(a, 1))
<1>1. /\ UserMessage(Session(a), 1) \in Seq(Token)
      /\ Len(UserMessage(Session(a), 1)) = AtLeastOne(UserTokens(a, 1))
  BY MessageType
<1> QED
  BY <1>1, FirstTurn, SystemPromptType, ConcatProperties DEF Prompt

LEMMA PromptType ==
    ASSUME NEW a \in Agents, NEW t \in DOMAIN Turns(a)
    PROVE  Prompt(a, t) \in Seq(Token) /\ Len(Prompt(a, t)) = System + Len(Flat(a, t))
BY FlatType, SystemPromptType, ConcatProperties DEF Prompt

LEMMA PromptNext ==
    ASSUME NEW a \in Agents, NEW t \in DOMAIN Turns(a), t + 1 \in DOMAIN Turns(a)
    PROVE  /\ \E more \in Seq(Token) : Prompt(a, t + 1) = Prompt(a, t) \o more
           /\ Len(Prompt(a, t + 1)) = Len(Prompt(a, t)) + AtLeastOne(Session(a).turns[t].osl)
                                          + AtLeastOne(UserTokens(a, t + 1))
<1>0. PICK u \in DOMAIN Turns(a) : u = t + 1
  OBVIOUS
<1>1. PICK A \in Seq(Token), U \in Seq(Token), F \in Seq(Token) :
        /\ A = AssistantMessage(Session(a), t) /\ Len(A) = AtLeastOne(Session(a).turns[t].osl)
        /\ U = UserMessage(Session(a), u) /\ Len(U) = AtLeastOne(UserTokens(a, u))
        /\ F = Flat(a, t)
  BY MessageType, FlatType
<1>2. Flat(a, u) = (F \o A) \o U
  BY <1>0, <1>1, NextTurn
<1>3. PICK more \in Seq(Token) : more = A \o U /\ Len(more) = Len(A) + Len(U)
  BY ConcatProperties
<1>4. SystemPrompt \in Seq(Token)
  BY SystemPromptType
<1>5. Prompt(a, u) = (SystemPrompt \o F) \o more
  <2>1. (F \o A) \o U = F \o (A \o U)
    BY ConcatAssociative
  <2>2. (SystemPrompt \o F) \o more = SystemPrompt \o (F \o more)
    BY <1>4, ConcatAssociative
  <2>3. Prompt(a, u) = SystemPrompt \o Flat(a, u)
    BY DEF Prompt
  <2> QED
    BY <1>2, <1>3, <2>1, <2>2, <2>3, Zenon
<1>6. Prompt(a, t) = SystemPrompt \o F
  BY <1>1 DEF Prompt
<1>7. Prompt(a, t) \in Seq(Token)
  BY PromptType
<1>8. Prompt(a, u) = Prompt(a, t) \o more
  BY <1>5, <1>6, Zenon
<1>9. Len(Prompt(a, u)) = Len(Prompt(a, t)) + Len(more)
  BY <1>3, <1>7, <1>8, ConcatProperties
<1>10. Len(Prompt(a, t)) \in Nat /\ Len(A) \in Nat /\ Len(U) \in Nat
  BY <1>1, <1>7
<1>11. Len(Prompt(a, u)) = Len(Prompt(a, t)) + AtLeastOne(Session(a).turns[t].osl)
                             + AtLeastOne(UserTokens(a, u))
  BY <1>1, <1>3, <1>9, <1>10
<1> QED
  BY <1>0, <1>8, <1>11, Zenon

-----------------------------------------------------------------------------
(* The length of a prompt *)

\* NothingCut and the claim of LengthsFollowCapture, of turn t of the session of a.
Uncut(a, t) ==
    /\ Session(a).turns[1].isl > System
    /\ \A k \in 1 .. t : /\ Session(a).turns[k].isl_new > 0
                         /\ k < t => Session(a).turns[k].osl > 0
Again(a, t) == IF Conversations[a].kept THEN 0 ELSE SumTo(Osls(a), t - 1)
LengthHolds(a, t) ==
    Uncut(a, t) => Len(Prompt(a, t)) = Session(a).turns[t].isl + Again(a, t)

LEMMA LengthFirst ==
    ASSUME NEW a \in Agents, 1 \in DOMAIN Turns(a)
    PROVE  LengthHolds(a, 1)
<1>1. Len(Prompt(a, 1)) = System + AtLeastOne(Session(a).turns[1].isl - System)
  BY PromptFirst DEF UserTokens
<1>2. Session(a).turns[1].isl \in Nat /\ System \in Nat
  BY CapturedTurn, PromptConstants
<1>3. Again(a, 1) = 0
  <2>1. 1 - 1 = 0
    OBVIOUS
  <2> QED
    BY <2>1, SumToZero DEF Again
<1> QED
  BY <1>1, <1>2, <1>3 DEF LengthHolds, Uncut, AtLeastOne

LEMMA LengthNext ==
    ASSUME NEW a \in Agents, NEW t \in DOMAIN Turns(a), t + 1 \in DOMAIN Turns(a),
           LengthHolds(a, t)
    PROVE  LengthHolds(a, t + 1)
<1>0. PICK u \in DOMAIN Turns(a) : u = t + 1
  OBVIOUS
<1>1. t \in Nat /\ t >= 1 /\ u \in Nat /\ u # 1 /\ u - 1 = t
  BY <1>0, TurnsType
<1> SUFFICES ASSUME Uncut(a, u)
             PROVE  Len(Prompt(a, u)) = Session(a).turns[u].isl + Again(a, u)
  BY <1>0 DEF LengthHolds
<1>2. PICK new \in Nat, osl \in Nat : new = Turns(a)[u].new /\ osl = Turns(a)[t].osl
  BY TurnsType
<1>3. /\ Session(a).turns[t].osl = osl
      /\ Session(a).turns[u].isl_new = new + (IF Conversations[a].kept THEN 0 ELSE osl)
      /\ Session(a).turns[t].isl = SumTo(NewCounts(a), t) + SumTo(Osls(a), t - 1)
      /\ Session(a).turns[u].isl = SumTo(NewCounts(a), u) + SumTo(Osls(a), t)
      /\ Session(a).turns[t].isl \in Nat
  <2>1. Session(a).turns[t].osl = osl /\ Session(a).turns[t].isl \in Nat
    BY <1>2, CapturedTurn
  <2>2. Session(a).turns[u].isl_new = new + (IF Conversations[a].kept THEN 0 ELSE osl)
    <3>1. Session(a).turns[u].isl_new
            = Turns(a)[u].new + (IF Conversations[a].kept \/ u = 1 THEN 0
                                 ELSE Turns(a)[u - 1].osl)
      BY CapturedTurn
    <3>2. CASE Conversations[a].kept
      BY <1>2, <3>1, <3>2
    <3>3. CASE ~Conversations[a].kept
      BY <1>1, <1>2, <3>1, <3>3
    <3> QED
      BY <3>2, <3>3
  <2>3. Session(a).turns[t].isl = SumTo(NewCounts(a), t) + SumTo(Osls(a), t - 1)
    BY CapturedTurn
  <2>4. Session(a).turns[u].isl = SumTo(NewCounts(a), u) + SumTo(Osls(a), u - 1)
    BY CapturedTurn
  <2> QED
    BY <1>1, <2>1, <2>2, <2>3, <2>4
<1>4. PICK news \in Nat, olds \in Nat :
        /\ news = SumTo(NewCounts(a), t) /\ SumTo(NewCounts(a), u) = news + new
        /\ olds = SumTo(Osls(a), t - 1) /\ SumTo(Osls(a), t) = olds + osl
  <2>1. /\ NewCounts(a) \in Seq(Nat) /\ Osls(a) \in Seq(Nat)
        /\ u <= Len(NewCounts(a)) /\ t <= Len(Osls(a))
        /\ t \in 0 .. Len(NewCounts(a)) /\ t - 1 \in 0 .. Len(Osls(a))
        /\ NewCounts(a)[u] = new /\ Osls(a)[t] = osl
    BY <1>0, <1>1, <1>2, TurnsType
  <2>2. SumTo(NewCounts(a), t) \in Nat /\ SumTo(Osls(a), t - 1) \in Nat
    BY <2>1, SumToType
  <2>3. SumTo(NewCounts(a), t + 1) = SumTo(NewCounts(a), t) + NewCounts(a)[t + 1]
    BY <1>0, <1>1, <2>1, SumToStep
  <2>4. PICK s \in Nat : s = t - 1 /\ s + 1 = t
    BY <1>1
  <2>5. SumTo(Osls(a), s + 1) = SumTo(Osls(a), s) + Osls(a)[s + 1]
    BY <2>1, <2>4, SumToStep
  <2> QED
    BY <1>0, <2>1, <2>2, <2>3, <2>4, <2>5
<1>5. /\ Uncut(a, t)
      /\ Session(a).turns[t].osl > 0 /\ Session(a).turns[u].isl_new > 0
  <2>1. t \in 1 .. u /\ u \in 1 .. u /\ t < u /\ \A k \in 1 .. t : k \in 1 .. u /\ (k < t => k < u)
    BY <1>0, <1>1
  <2> QED
    BY <2>1 DEF Uncut
<1>6. Len(Prompt(a, t)) = news + olds + Again(a, t)
  BY <1>3, <1>4, <1>5 DEF LengthHolds
<1>7. Len(Prompt(a, u)) = Len(Prompt(a, t)) + osl
                            + new + (IF Conversations[a].kept THEN 0 ELSE osl)
  <2>1. Len(Prompt(a, t + 1)) = Len(Prompt(a, t)) + AtLeastOne(Session(a).turns[t].osl)
                                  + AtLeastOne(UserTokens(a, t + 1))
    BY <1>0, PromptNext
  <2>2. UserTokens(a, u) = new + (IF Conversations[a].kept THEN 0 ELSE osl)
    BY <1>1, <1>3 DEF UserTokens
  <2>3. AtLeastOne(Session(a).turns[t].osl) = osl
    BY <1>3, <1>5 DEF AtLeastOne
  <2>4. AtLeastOne(UserTokens(a, u)) = new + (IF Conversations[a].kept THEN 0 ELSE osl)
    BY <1>3, <1>5, <2>2 DEF AtLeastOne
  <2>5. Len(Prompt(a, t)) \in Nat
    BY PromptType
  <2> QED
    BY <1>0, <2>1, <2>3, <2>4, <2>5
<1>8. CASE Conversations[a].kept
  <2>1. Again(a, t) = 0 /\ Again(a, u) = 0
    BY <1>8 DEF Again
  <2> QED
    BY <1>3, <1>4, <1>6, <1>7, <1>8, <2>1
<1>9. CASE ~Conversations[a].kept
  <2>1. Again(a, t) = olds /\ Again(a, u) = olds + osl
    BY <1>1, <1>4, <1>9 DEF Again
  <2>2. Session(a).turns[u].isl = (news + new) + (olds + osl)
    BY <1>3, <1>4
  <2>3. Len(Prompt(a, t)) = news + olds + olds
    BY <1>6, <2>1
  <2>4. Len(Prompt(a, u)) = Len(Prompt(a, t)) + osl + new + osl
    BY <1>7, <1>9
  <2> QED
    BY <2>1, <2>2, <2>3, <2>4
<1> QED
  BY <1>8, <1>9

LEMMA LengthAlways ==
    ASSUME NEW a \in Agents, NEW u \in DOMAIN Turns(a)
    PROVE  LengthHolds(a, u)
<1> DEFINE T == {t \in DOMAIN Turns(a) : ~LengthHolds(a, t)}
<1> SUFFICES ASSUME T # {}
             PROVE  FALSE
  OBVIOUS
<1>1. T \subseteq Nat
  BY TurnsType
<1> HIDE DEF T
<1>2. PICK t \in T : \A k \in T : t <= k
  BY <1>1, LeastNatural
<1>3. t \in DOMAIN Turns(a) /\ ~LengthHolds(a, t)
  BY <1>2 DEF T
<1>4. t # 1
  BY <1>3, LengthFirst
<1>5. PICK s \in DOMAIN Turns(a) : s + 1 = t
  <2>1. t - 1 \in DOMAIN Turns(a) /\ t - 1 + 1 = t
    BY <1>3, <1>4, TurnsType
  <2> QED
    BY <2>1
<1>6. s \in Nat /\ s \notin T
  BY <1>1, <1>2, <1>5, TurnsType
<1>7. LengthHolds(a, s)
  BY <1>5, <1>6 DEF T
<1> QED
  BY <1>3, <1>5, <1>7, LengthNext

-----------------------------------------------------------------------------
(* What the engine has of a prompt *)

\* c has been computed for a prompt that begins with p.
Begins(c, p) == \E more \in Seq(Token) : c = p \o more

\* A request of agent a for turn t whose prompt lacks `lacked' tokens.
Bound(a, t, cold) ==
    AtLeastOne(IF t = 1 THEN Session(a).turns[t].isl - System ELSE Session(a).turns[t].isl_new)
      + (IF t > 1 THEN AtLeastOne(Session(a).turns[t - 1].osl)
         ELSE IF cold THEN System ELSE 0)
SentRight(r) ==
    /\ r.agent \in Agents /\ r.turn \in DOMAIN Turns(r.agent)
    /\ r.prompt = Prompt(r.agent, r.turn)
    /\ r.whole => r.lacked <= Bound(r.agent, r.turn, r.cold)

\* The engine has computed nothing, or prompts that begin with the system prompt;
\* and the last prompt of an agent whose turns it has all seen.
CacheInv ==
    /\ cache \subseteq Seq(Token) /\ <<>> \in cache
    /\ \A c \in cache : c = <<>> \/ Begins(c, SystemPrompt)
    /\ next \in [Agents -> Nat \ {0}] /\ whole \in [Agents -> BOOLEAN]
    /\ \A a \in Agents :
          (whole[a] /\ next[a] > 1) =>
              /\ next[a] - 1 \in DOMAIN Turns(a)
              /\ \E c \in cache : Begins(c, Prompt(a, next[a] - 1))
    /\ \A r \in sent : SentRight(r)

\* A prefix of a prompt the engine has is a prefix it need not compute.
LEMMA CachedAtLeast ==
    ASSUME NEW p \in Seq(Token), NEW rest \in Seq(Token), NEW c \in cache, Begins(c, p)
    PROVE  /\ CachedTokens(p \o rest) \in Nat /\ Len(p) <= CachedTokens(p \o rest)
<1> DEFINE prompt == p \o rest
           T == {k \in 0 .. Len(prompt) :
                   \E d \in cache : k <= Len(d) /\ SubSeq(d, 1, k) = SubSeq(prompt, 1, k)}
<1>1. PICK more \in Seq(Token) : c = p \o more
  BY DEF Begins
<1>2. /\ prompt \in Seq(Token) /\ Len(prompt) = Len(p) + Len(rest)
      /\ \A i \in 1 .. Len(p) + Len(rest) :
            prompt[i] = IF i <= Len(p) THEN p[i] ELSE rest[i - Len(p)]
  BY ConcatProperties
<1>3. /\ c \in Seq(Token) /\ Len(c) = Len(p) + Len(more)
      /\ \A i \in 1 .. Len(p) + Len(more) :
            c[i] = IF i <= Len(p) THEN p[i] ELSE more[i - Len(p)]
  BY <1>1, ConcatProperties
<1>4. PICK n \in Nat : n = Len(p) /\ n <= Len(prompt) /\ n <= Len(c) /\ Len(prompt) \in Nat
  BY <1>2, <1>3
<1> HIDE DEF prompt
<1>5. \A i \in 1 .. n : prompt[i] = c[i] /\ c[i] \in Token /\ prompt[i] \in Token
  BY <1>2, <1>3, <1>4
<1>6. SubSeq(c, 1, n) = SubSeq(prompt, 1, n)
  <2>1. /\ SubSeq(c, 1, n) \in Seq(Token) /\ Len(SubSeq(c, 1, n)) = n
        /\ \A i \in 1 .. n : SubSeq(c, 1, n)[i] = c[i]
    <3>1. /\ SubSeq(c, 1, n) \in Seq(Token)
          /\ Len(SubSeq(c, 1, n)) = IF 1 <= n THEN n - 1 + 1 ELSE 0
          /\ \A i \in 1 .. n - 1 + 1 : SubSeq(c, 1, n)[i] = c[1 + i - 1]
      BY <1>5, SubSeqProperties
    <3> QED
      BY <3>1
  <2>2. /\ SubSeq(prompt, 1, n) \in Seq(Token) /\ Len(SubSeq(prompt, 1, n)) = n
        /\ \A i \in 1 .. n : SubSeq(prompt, 1, n)[i] = prompt[i]
    <3>1. /\ SubSeq(prompt, 1, n) \in Seq(Token)
          /\ Len(SubSeq(prompt, 1, n)) = IF 1 <= n THEN n - 1 + 1 ELSE 0
          /\ \A i \in 1 .. n - 1 + 1 : SubSeq(prompt, 1, n)[i] = prompt[1 + i - 1]
      BY <1>5, SubSeqProperties
    <3> QED
      BY <3>1
  <2> QED
    BY <1>5, <2>1, <2>2, SeqEqual
<1>7. T \subseteq 0 .. Len(prompt) /\ n \in T
  BY <1>4, <1>6
<1>8. CachedTokens(prompt) = Max(T)
  BY DEF CachedTokens
<1> HIDE DEF T
<1>9. Max(T) \in T /\ \A y \in T : y <= Max(T)
  BY <1>4, <1>7, MaxOfBounded
<1>10. CachedTokens(prompt) \in Nat /\ n <= CachedTokens(prompt)
  <2>1. \A y \in 0 .. Len(prompt) : y \in Nat
    BY <1>4
  <2>2. Max(T) \in Nat /\ n <= Max(T)
    BY <1>7, <1>9, <2>1
  <2> QED
    BY <1>8, <2>2
<1> QED
  BY <1>4, <1>10 DEF prompt

LEMMA OutputType ==
    ASSUME NEW a \in Agents, NEW t \in Nat, NEW n \in Nat
    PROVE  Output(a, t, n) \in Seq(Token)
<1>1. \A i \in 1 .. n : <<"output", a, t, i>> \in Token
  BY DEF Token
<1>2. Output(a, t, n) \in [1 .. n -> Token]
  BY <1>1 DEF Output
<1> QED
  BY <1>2, SeqDef

\* A request that is sent lacks no more than the bound.
LEMMA SentBound ==
    ASSUME CacheInv, NEW a \in Agents, NEW t \in DOMAIN Turns(a), t = next[a], whole[a]
    PROVE  Len(Prompt(a, t)) - CachedTokens(Prompt(a, t)) <= Bound(a, t, cache = {<<>>})
<1>1. t \in Nat /\ t >= 1 /\ System \in Nat
  BY TurnsType, PromptConstants
<1>2. Prompt(a, t) \in Seq(Token) /\ Len(Prompt(a, t)) \in Nat
  BY PromptType
<1>3. CachedTokens(Prompt(a, t)) \in Nat
  <2>1. <<>> \in Seq(Token) /\ <<>> \o <<>> = <<>> /\ <<>> \o Prompt(a, t) = Prompt(a, t)
    BY <1>2, ConcatEmptySeq, EmptySeq
  <2>2. <<>> \in cache /\ Begins(<<>>, <<>>)
    BY <2>1 DEF CacheInv, Begins
  <2>3. CachedTokens(<<>> \o Prompt(a, t)) \in Nat
    BY <1>2, <2>1, <2>2, CachedAtLeast
  <2> QED
    BY <2>1, <2>3
<1>4. CASE t = 1
  <2>1. Len(Prompt(a, t)) = System + AtLeastOne(Session(a).turns[t].isl - System)
    BY <1>4, PromptFirst DEF UserTokens
  <2>2. AtLeastOne(Session(a).turns[t].isl - System) \in Nat
    BY <1>1, CapturedTurn DEF AtLeastOne
  <2>3. CASE cache = {<<>>}
    BY <1>1, <1>3, <1>4, <2>1, <2>2, <2>3 DEF Bound
  <2>4. CASE cache # {<<>>}
    <3>1. PICK c \in cache : Begins(c, SystemPrompt)
      BY <2>4 DEF CacheInv
    <3>2. System <= CachedTokens(Prompt(a, t))
      BY <3>1, SystemPromptType, FlatType, CachedAtLeast DEF Prompt
    <3> QED
      BY <1>1, <1>3, <1>4, <2>1, <2>2, <2>4, <3>2 DEF Bound
  <2> QED
    BY <2>3, <2>4
<1>5. CASE t # 1
  <2>1. PICK s \in DOMAIN Turns(a), c \in cache :
          s + 1 = t /\ s = t - 1 /\ Begins(c, Prompt(a, s))
    <3>1. next[a] > 1
      BY <1>1, <1>5
    <3>2. t - 1 \in DOMAIN Turns(a) /\ \E c \in cache : Begins(c, Prompt(a, t - 1))
      BY <3>1 DEF CacheInv
    <3>3. t - 1 + 1 = t
      BY <1>1
    <3> QED
      BY <3>2, <3>3
  <2>2. PICK more \in Seq(Token) : Prompt(a, t) = Prompt(a, s) \o more
    BY <2>1, PromptNext
  <2>3. Prompt(a, s) \in Seq(Token) /\ Len(Prompt(a, s)) \in Nat
    BY PromptType
  <2>4. Len(Prompt(a, s)) <= CachedTokens(Prompt(a, t))
    BY <2>1, <2>2, <2>3, CachedAtLeast
  <2>5. Len(Prompt(a, t)) = Len(Prompt(a, s)) + AtLeastOne(Session(a).turns[s].osl)
                              + AtLeastOne(UserTokens(a, t))
    BY <2>1, PromptNext
  <2>6. /\ AtLeastOne(Session(a).turns[s].osl) \in Nat
        /\ AtLeastOne(Session(a).turns[t].isl_new) \in Nat
    BY CapturedTurn DEF AtLeastOne
  <2>7. Bound(a, t, cache = {<<>>}) = AtLeastOne(Session(a).turns[t].isl_new)
                                        + AtLeastOne(Session(a).turns[s].osl)
    BY <1>1, <1>5, <2>1 DEF Bound
  <2>8. UserTokens(a, t) = Session(a).turns[t].isl_new
    BY <1>5 DEF UserTokens
  <2> QED
    BY <1>3, <2>3, <2>4, <2>5, <2>6, <2>7, <2>8
<1> QED
  BY <1>4, <1>5

\* What the engine reads of a request begins with the prompt, and so with the
\* system prompt.
LEMMA ReadPrompt ==
    ASSUME NEW a \in Agents, NEW t \in DOMAIN Turns(a), NEW out \in Seq(Token)
    PROVE  /\ Prompt(a, t) \o out \in Seq(Token)
           /\ Begins(Prompt(a, t) \o out, Prompt(a, t))
           /\ Begins(Prompt(a, t) \o out, SystemPrompt)
<1>1. PICK S \in Seq(Token), F \in Seq(Token), p \in Seq(Token) :
        S = SystemPrompt /\ F = Flat(a, t) /\ p = S \o F /\ p = Prompt(a, t)
  BY SystemPromptType, FlatType, PromptType DEF Prompt
<1>2. (S \o F) \o out = S \o (F \o out)
  BY ConcatAssociative
<1>3. p \o out \in Seq(Token) /\ F \o out \in Seq(Token)
  BY ConcatProperties
<1>4. Begins(p \o out, p)
  BY DEF Begins
<1>5. Begins(p \o out, S)
  BY <1>1, <1>2, <1>3, Zenon DEF Begins
<1> QED
  BY <1>1, <1>3, <1>4, <1>5, Zenon

LEMMA CacheSend ==
    ASSUME CacheInv, NEW a \in Agents, next[a] \in DOMAIN Session(a).turns,
           NEW processed \in BOOLEAN, Send(a, processed)
    PROVE  CacheInv'
<1>1. PICK t \in DOMAIN Turns(a) : t = next[a] /\ t \in Nat /\ t >= 1
  <2>1. next[a] \in DOMAIN Turns(a)
    BY DEF Session, Captured, Turns
  <2> QED
    BY <2>1, TurnsType
<1> DEFINE record == [agent |-> a, turn |-> t, prompt |-> Prompt(a, t),
                      lacked |-> Len(Prompt(a, t)) - CachedTokens(Prompt(a, t)),
                      whole |-> whole[a], cold |-> cache = {<<>>}]
           out == Output(a, t, Session(a).turns[t].osl)
           read == Prompt(a, t) \o out
<1>2. /\ sent' = sent \cup {record}
      /\ cache' = IF processed THEN cache \cup {read} ELSE cache
      /\ whole' = [whole EXCEPT ![a] = @ /\ processed]
      /\ next' = [next EXCEPT ![a] = @ + 1]
  BY <1>1 DEF Send, TurnRequest, Prompt, Flat
<1>3. SentRight(record)
  <2>1. /\ record.agent = a /\ record.turn = t /\ record.prompt = Prompt(a, t)
        /\ record.whole = whole[a] /\ record.cold = (cache = {<<>>})
        /\ record.lacked = Len(Prompt(a, t)) - CachedTokens(Prompt(a, t))
    OBVIOUS
  <2> HIDE DEF record
  <2>2. whole[a] => record.lacked <= Bound(a, t, record.cold)
    BY <1>1, <2>1, SentBound
  <2> QED
    BY <2>1, <2>2 DEF SentRight
<1> HIDE DEF record
<1>4. out \in Seq(Token)
  BY <1>1, CapturedTurn, OutputType
<1> HIDE DEF out
<1>5. read \in Seq(Token) /\ Begins(read, Prompt(a, t)) /\ Begins(read, SystemPrompt)
  BY <1>4, ReadPrompt
<1> HIDE DEF read
<1>6. /\ next \in [Agents -> Nat \ {0}] /\ whole \in [Agents -> BOOLEAN]
      /\ cache \subseteq Seq(Token) /\ <<>> \in cache
      /\ \A c \in cache : c = <<>> \/ Begins(c, SystemPrompt)
      /\ \A r \in sent : SentRight(r)
  BY DEF CacheInv
<1>7. next' \in [Agents -> Nat \ {0}] /\ whole' \in [Agents -> BOOLEAN]
  BY <1>1, <1>2, <1>6
<1>8. /\ cache' \subseteq Seq(Token) /\ <<>> \in cache'
      /\ \A c \in cache' : c = <<>> \/ Begins(c, SystemPrompt)
  BY <1>2, <1>5, <1>6
<1>9. ASSUME NEW b \in Agents, whole'[b], next'[b] > 1
      PROVE  /\ next'[b] - 1 \in DOMAIN Turns(b)
             /\ \E c \in cache' : Begins(c, Prompt(b, next'[b] - 1))
  <2>1. CASE b = a
    <3>1. processed /\ next'[a] - 1 = t
      BY <1>1, <1>2, <1>6, <1>9, <2>1
    <3>2. read \in cache'
      BY <1>2, <3>1
    <3> QED
      BY <1>5, <2>1, <3>1, <3>2
  <2>2. CASE b # a
    <3>1. whole[b] /\ next[b] > 1 /\ next'[b] = next[b]
      BY <1>2, <1>6, <1>9, <2>2
    <3>2. /\ next[b] - 1 \in DOMAIN Turns(b)
          /\ \E c \in cache : Begins(c, Prompt(b, next[b] - 1))
      BY <3>1 DEF CacheInv
    <3>3. cache \subseteq cache'
      BY <1>2
    <3> QED
      BY <3>1, <3>2, <3>3
  <2> QED
    BY <2>1, <2>2
<1>10. \A r \in sent' : SentRight(r)
  BY <1>2, <1>3, <1>6
<1> QED
  BY <1>7, <1>8, <1>9, <1>10 DEF CacheInv

LEMMA CacheInit == Init => CacheInv
<1> SUFFICES ASSUME Init
             PROVE  CacheInv
  OBVIOUS
<1>1. /\ next = [a \in Agents |-> 1] /\ whole = [a \in Agents |-> TRUE]
      /\ cache = {<<>>} /\ sent = {}
  BY DEF Init
<1>2. <<>> \in Seq(Token)
  BY EmptySeq
<1> QED
  BY <1>1, <1>2 DEF CacheInv

LEMMA CacheStep ==
    CacheInv /\ [Next]_vars => CacheInv'
<1> SUFFICES ASSUME CacheInv, [Next]_vars PROVE CacheInv'
  OBVIOUS
<1>1. CASE \E a \in Agents : Answered(a) \/ Refused(a) \/ Broken(a)
  <2>1. PICK a \in Agents : Answered(a) \/ Refused(a) \/ Broken(a)
    BY <1>1
  <2>2. PICK processed \in BOOLEAN : Send(a, processed)
    BY <2>1 DEF Answered, Refused, Broken
  <2>3. next[a] \in DOMAIN Session(a).turns
    BY <2>1 DEF Answered, Refused, Broken, Ready
  <2> QED
    BY <2>2, <2>3, CacheSend
<1>2. CASE UNCHANGED <<next, whole, cache, sent>>
  BY <1>2 DEF CacheInv
<1>3. Collect \/ StartReplay \/ Poll \/ Summarise \/ UNCHANGED vars
        => UNCHANGED <<next, whole, cache, sent>>
  BY DEF Collect, StartReplay, Poll, Summarise, vars, engineVars
<1> QED
  BY <1>1, <1>2, <1>3 DEF Next

LEMMA CacheCorrect == Spec => []CacheInv
BY CacheInit, CacheStep, PTL DEF Spec

\* However the turns of the agents interleave, a prompt nothing of which is cut at
\* one token is as long as the captured one, plus the answers it holds twice.
THEOREM LengthsFollow == Spec => []LengthsFollowCapture
<1>1. CacheInv => LengthsFollowCapture
  <2> SUFFICES ASSUME CacheInv, NEW r \in sent, NothingCut(r)
               PROVE  Len(r.prompt) = Turn(r).isl
                        + (IF Conversations[r.agent].kept THEN 0
                           ELSE OldOsl(Conversations[r.agent].turns, r.turn))
    BY DEF LengthsFollowCapture
  <2>0. PICK a \in Agents : a = r.agent
    BY DEF CacheInv, SentRight
  <2>1. PICK t \in DOMAIN Turns(a) : a = r.agent /\ t = r.turn
    BY <2>0 DEF CacheInv, SentRight
  <2>2. r.prompt = Prompt(a, t)
    BY <2>1 DEF CacheInv, SentRight
  <2>3. Uncut(a, t)
    BY <2>1 DEF NothingCut, Uncut
  <2>4. Len(Prompt(a, t)) = Session(a).turns[t].isl + Again(a, t)
    BY <2>3, LengthAlways DEF LengthHolds
  <2>5. OldOsl(Turns(a), t) = SumTo(Osls(a), t - 1)
    BY DEF OldOsl, Osls
  <2> QED
    BY <2>1, <2>2, <2>4, <2>5 DEF Turn, Again, Turns
<1> QED
  BY <1>1, CacheCorrect, PTL

\* An agent whose turns the engine has all read costs it, with the next one, the
\* made-up answer and the new message and no more, whoever else plays in between.
THEOREM OnlyNewPrefilled == Spec => []OnlyLastMessagesPrefilled
<1>1. CacheInv => OnlyLastMessagesPrefilled
  <2> SUFFICES ASSUME CacheInv, NEW r \in sent, r.whole
               PROVE  r.lacked <= Bound(r.agent, r.turn, r.cold)
    BY DEF OnlyLastMessagesPrefilled, Bound, Turn
  <2> QED
    BY DEF CacheInv, SentRight
<1> QED
  BY <1>1, CacheCorrect, PTL

-----------------------------------------------------------------------------
(* The percentiles of the summary *)

Below(values, v) == {k \in DOMAIN values : values[k] < v}
Upto(values, v) == {k \in DOMAIN values : values[k] <= v}

LEMMA SubsetSize ==
    ASSUME NEW S, IsFiniteSet(S), NEW A \in SUBSET S, NEW B \in SUBSET A
    PROVE  /\ IsFiniteSet(A) /\ Cardinality(A) \in Nat /\ Cardinality(B) \in Nat
           /\ Cardinality(B) <= Cardinality(A)
           /\ A # {} => Cardinality(A) >= 1
<1>1. IsFiniteSet(A) /\ IsFiniteSet(B)
  BY FS_Subset
<1>2. Cardinality(A) \in Nat /\ Cardinality(B) \in Nat /\ Cardinality(B) <= Cardinality(A)
  BY <1>1, FS_Subset, FS_CardinalityType
<1>3. A # {} => Cardinality(A) # 0
  BY <1>1, FS_EmptySet
<1> QED
  BY <1>1, <1>2, <1>3

\* Of finitely many values one is the largest.
LEMMA LargestValue ==
    ASSUME NEW S, IsFiniteSet(S), NEW values \in [S -> Nat], NEW A \in SUBSET S, A # {}
    PROVE  \E j \in A : \A k \in A : values[k] <= values[j]
<1> DEFINE Above(j) == {k \in A : values[k] > values[j]}
           T == {Above(j) : j \in A}
<1>1. T \subseteq SUBSET S /\ T # {}
  OBVIOUS
<1>2. PICK s \in T : \A t \in T : t \subseteq s => t = s
  <2> HIDE DEF T
  <2> QED
    BY <1>1, MinimalSubset
<1>3. PICK j \in A : s = Above(j)
  OBVIOUS
<1>4. ASSUME NEW k \in A, ~(values[k] <= values[j])
      PROVE  FALSE
  <2>1. values[k] \in Nat /\ values[j] \in Nat /\ \A i \in A : values[i] \in Nat
    OBVIOUS
  <2>2. k \in Above(j)
    BY <1>4, <2>1
  <2>3. Above(k) \subseteq Above(j)
    BY <1>4, <2>1
  <2>4. k \notin Above(k)
    BY <2>1
  <2>5. Above(k) \in T
    OBVIOUS
  <2> QED
    BY <1>2, <1>3, <2>2, <2>3, <2>4, <2>5
<1> QED
  BY <1>4

\* Every place of a sorted list has a value of the list: the least value up to
\* which there are enough.
LEMMA PlaceExists ==
    ASSUME NEW S, IsFiniteSet(S), NEW values \in [S -> Nat], NEW i \in 1 .. Cardinality(S)
    PROVE  \E v \in Range(values) : AtPlace(v, i, values)
<1> DEFINE T == {v \in Range(values) : Cardinality(Upto(values, v)) >= i}
<1>0. Range(values) \subseteq Nat /\ DOMAIN values = S
  BY DEF Range
<1>1. Cardinality(S) \in Nat /\ i \in Nat /\ i >= 1 /\ Cardinality(S) >= i
  BY FS_CardinalityType
<1>2. S # {}
  BY <1>1, FS_EmptySet
<1>3. T \subseteq Nat /\ T # {}
  <2>1. PICK j \in S : \A k \in S : values[k] <= values[j]
    BY <1>2, LargestValue
  <2>2. Upto(values, values[j]) = S
    BY <2>1 DEF Upto
  <2>3. values[j] \in T
    BY <1>1, <2>2 DEF Range
  <2> QED
    BY <1>0, <2>3
<1>4. PICK v \in T : \A w \in T : v <= w
  <2> HIDE DEF T
  <2> QED
    BY <1>3, LeastNatural
<1>5. v \in Nat /\ v \in Range(values) /\ Cardinality(Upto(values, v)) >= i
  BY <1>0
<1>6. Below(values, v) \in SUBSET S
  BY <1>0 DEF Below
<1>7. ASSUME ~(Cardinality(Below(values, v)) < i)
      PROVE  FALSE
  <2>1. Cardinality(Below(values, v)) \in Nat
    BY <1>6, SubsetSize
  <2>2. Below(values, v) # {}
    BY <1>7, <1>1, FS_EmptySet
  <2>3. PICK j \in Below(values, v) : \A k \in Below(values, v) : values[k] <= values[j]
    BY <1>6, <2>2, LargestValue
  <2>4. j \in S /\ values[j] \in Nat /\ values[j] < v
    BY <1>0 DEF Below
  <2>5. Upto(values, values[j]) \in SUBSET S
    BY DEF Upto
  <2>6. Below(values, v) \subseteq Upto(values, values[j])
    BY <1>0, <2>3 DEF Below, Upto
  <2>7. /\ Cardinality(Upto(values, values[j])) \in Nat
        /\ Cardinality(Below(values, v)) <= Cardinality(Upto(values, values[j]))
    BY <2>5, <2>6, SubsetSize
  <2>8. Cardinality(Upto(values, values[j])) >= i
    BY <1>1, <1>7, <2>1, <2>7
  <2>9. values[j] \in T
    BY <2>4, <2>8 DEF Range
  <2> QED
    BY <1>4, <1>5, <2>4, <2>9
<1>8. AtPlace(v, i, values)
  BY <1>5, <1>7 DEF AtPlace, Below, Upto
<1> QED
  BY <1>5, <1>8

\* sorted(): as long as the list, each value at its place, and none before a smaller one.
Sorted(o, values) ==
    /\ o \in [1 .. Cardinality(DOMAIN values) -> Nat]
    /\ \A i \in 1 .. Cardinality(DOMAIN values) : AtPlace(o[i], i, values)
    /\ \A i, j \in 1 .. Cardinality(DOMAIN values) : i <= j => o[i] <= o[j]

LEMMA OrderedIsSorted ==
    ASSUME NEW S, IsFiniteSet(S), NEW values \in [S -> Nat]
    PROVE  Sorted(Ordered(values), values)
<1> DEFINE o == Ordered(values)
<1>0. Range(values) \subseteq Nat /\ DOMAIN values = S
  BY DEF Range
<1>1. PICK n \in Nat : n = Cardinality(S)
  BY FS_CardinalityType
<1>2. o = [i \in 1 .. n |-> CHOOSE v \in Range(values) : AtPlace(v, i, values)]
  BY <1>0, <1>1 DEF Ordered
<1>3. \A i \in 1 .. n : o[i] \in Range(values) /\ AtPlace(o[i], i, values)
  <2> SUFFICES ASSUME NEW i \in 1 .. n
               PROVE  o[i] \in Range(values) /\ AtPlace(o[i], i, values)
    OBVIOUS
  <2>1. \E v \in Range(values) : AtPlace(v, i, values)
    BY <1>1, PlaceExists
  <2>2. o[i] = CHOOSE v \in Range(values) : AtPlace(v, i, values)
    BY <1>2
  <2> HIDE DEF o
  <2> QED
    BY <2>1, <2>2
<1>4. o \in [1 .. n -> Nat]
  <2> DEFINE e(i) == CHOOSE v \in Range(values) : AtPlace(v, i, values)
  <2>1. o = [i \in 1 .. n |-> e(i)]
    BY <1>2
  <2>2. \A i \in 1 .. n : o[i] \in Nat
    BY <1>0, <1>3
  <2> HIDE DEF o, e
  <2> QED
    BY <2>1, <2>2
<1>5. ASSUME NEW i \in 1 .. n, NEW j \in 1 .. n, i <= j, ~(o[i] <= o[j])
      PROVE  FALSE
  <2>1. PICK x \in Nat, y \in Nat : x = o[i] /\ y = o[j] /\ y < x
    <3> HIDE DEF o
    <3> QED
      BY <1>4, <1>5
  <2>2. Cardinality(Below(values, x)) < i
    BY <1>3, <2>1 DEF AtPlace, Below
  <2>3. Cardinality(Upto(values, y)) >= j
    BY <1>3, <2>1 DEF AtPlace, Upto
  <2>4. Upto(values, y) \subseteq Below(values, x) /\ Below(values, x) \in SUBSET S
    BY <1>0, <2>1 DEF Upto, Below
  <2>5. /\ Cardinality(Upto(values, y)) \in Nat /\ Cardinality(Below(values, x)) \in Nat
        /\ Cardinality(Upto(values, y)) <= Cardinality(Below(values, x))
    BY <2>4, SubsetSize
  <2> QED
    BY <1>5, <2>2, <2>3, <2>5
<1> HIDE DEF o
<1>6. Sorted(o, values)
  BY <1>0, <1>1, <1>3, <1>4, <1>5 DEF Sorted
<1> QED
  BY <1>6 DEF o

Levels == {25, 50, 90, 95}

Blended(x, y, part) == x * (100 - part) + y * part

\* Between two neighbours, and nearer to the second the larger the part.
LEMMA Blend ==
    ASSUME NEW x \in Nat, NEW y \in Nat, x <= y, NEW part \in 0 .. 99
    PROVE  /\ Blended(x, y, part) \in Nat
           /\ 100 * x <= Blended(x, y, part) /\ Blended(x, y, part) <= 100 * y
           /\ part = 0 => Blended(x, y, part) = 100 * x
<1>1. PICK d \in Nat : y = x + d
  <2>1. y - x \in Nat
    OBVIOUS
  <2> QED
    BY <2>1
<1>2. PICK w \in Nat : w = d * part
  OBVIOUS
<1>3. w <= 100 * d
  BY <1>2
<1>4. Blended(x, y, part) = 100 * x + w
  BY <1>1, <1>2 DEF Blended
<1>5. part = 0 => w = 0
  BY <1>2
<1> QED
  BY <1>1, <1>3, <1>4, <1>5

LEMMA BlendGrows ==
    ASSUME NEW x \in Nat, NEW y \in Nat, x <= y,
           NEW part \in 0 .. 99, NEW more \in 0 .. 99, part <= more
    PROVE  Blended(x, y, part) <= Blended(x, y, more)
<1>1. PICK d \in Nat : y = x + d
  <2>1. y - x \in Nat
    OBVIOUS
  <2> QED
    BY <2>1
<1>2. PICK e \in Nat : more = part + e
  <2>1. more - part \in Nat
    OBVIOUS
  <2> QED
    BY <2>1
<1>3. PICK w \in Nat, v \in Nat : w = d * part /\ v = d * e
  OBVIOUS
<1>4. d * more = w + v
  BY <1>2, <1>3
<1>5. Blended(x, y, part) = 100 * x + w
  BY <1>1, <1>3 DEF Blended
<1>6. Blended(x, y, more) = 100 * x + d * more
  BY <1>1 DEF Blended
<1> QED
  BY <1>3, <1>4, <1>5, <1>6

\* Where a percentile is read: between o[lo] and the next, which there is unless the
\* rank is a place itself.
ReadAt(o, n, p, lo, hi, part) ==
    /\ (n - 1) * p = 100 * (lo - 1) + part
    /\ hi = IF lo < n THEN lo + 1 ELSE lo
    /\ part > 0 => lo < n
    /\ Percentile(o, p) = Blended(o[lo], o[hi], part)

LEMMA PercentileRead ==
    ASSUME NEW n \in Nat, n > 0, NEW o \in [1 .. n -> Nat], NEW p \in Levels
    PROVE  \E lo, hi \in 1 .. n, part \in 0 .. 99 : ReadAt(o, n, p, lo, hi, part)
<1>1. Len(o) = n
  <2>1. o \in Seq(Nat) /\ DOMAIN o = 1 .. n
    OBVIOUS
  <2> QED
    BY <2>1
<1>2. PICK r \in Nat : r = (n - 1) * p /\ r <= 95 * (n - 1)
  BY DEF Levels
<1>3. Rank(o, p) = r
  BY <1>1, <1>2 DEF Rank
<1>4. PICK l \in Nat, part \in 0 .. 99 : r = 100 * l + part /\ l = r \div 100 /\ part = r % 100
  OBVIOUS
<1>5. l < n /\ (part > 0 => l + 1 < n)
  <2>1. PICK m \in Nat : m = n - 1 /\ 100 * l + part <= 95 * m
    BY <1>2, <1>4
  <2>2. l <= m /\ (part > 0 => l < m)
    BY <2>1
  <2> QED
    BY <2>1, <2>2
<1>6. PICK lo \in 1 .. n, hi \in 1 .. n : lo = l + 1 /\ hi = IF lo < n THEN lo + 1 ELSE lo
  <2>1. l + 1 \in 1 .. n /\ (l + 1 < n => l + 2 \in 1 .. n)
    BY <1>5
  <2> QED
    BY <2>1
<1>7. Percentile(o, p) = Blended(o[lo], o[hi], part)
  BY <1>1, <1>3, <1>4, <1>6 DEF Percentile, Blended
<1>8. (n - 1) * p = 100 * (lo - 1) + part /\ (part > 0 => lo < n)
  BY <1>2, <1>4, <1>5, <1>6
<1> QED
  BY <1>6, <1>7, <1>8 DEF ReadAt

LEMMA PercentileIs ==
    ASSUME NEW S, IsFiniteSet(S), S # {}, NEW values \in [S -> Nat],
           NEW o, Sorted(o, values), NEW p \in Levels
    PROVE  Percentile(o, p) \in Nat /\ IsPercentile(Percentile(o, p), values, p)
<1>1. PICK n \in Nat : n = Cardinality(S) /\ n > 0
  BY FS_CardinalityType, FS_EmptySet
<1>2. /\ o \in [1 .. n -> Nat] /\ DOMAIN values = S
      /\ \A i \in 1 .. n : AtPlace(o[i], i, values)
      /\ \A i, j \in 1 .. n : i <= j => o[i] <= o[j]
  BY <1>1 DEF Sorted
<1>3. PICK lo \in 1 .. n, hi \in 1 .. n, part \in 0 .. 99 : ReadAt(o, n, p, lo, hi, part)
  BY <1>1, <1>2, PercentileRead
<1>4. /\ (n - 1) * p = 100 * (lo - 1) + part
      /\ hi = IF lo < n THEN lo + 1 ELSE lo
      /\ part > 0 => lo < n
  BY <1>3 DEF ReadAt
<1>5. PICK x \in Nat, y \in Nat : x = o[lo] /\ y = o[hi] /\ x <= y
  BY <1>2, <1>4
<1>6. PICK q \in Nat : /\ q = Percentile(o, p)
                       /\ 100 * x <= q /\ q <= 100 * y /\ (part = 0 => q = 100 * x)
  <2>1. Percentile(o, p) = Blended(x, y, part)
    BY <1>3, <1>5 DEF ReadAt
  <2>2. /\ Blended(x, y, part) \in Nat
        /\ 100 * x <= Blended(x, y, part) /\ Blended(x, y, part) <= 100 * y
        /\ part = 0 => Blended(x, y, part) = 100 * x
    BY ONLY <1>5, Blend
  <2> QED
    BY <2>1, <2>2
<1> DEFINE under == {k \in DOMAIN values : 100 * values[k] < q}
           upto == {k \in DOMAIN values : 100 * values[k] <= q}
<1>7. \A k \in S : values[k] \in Nat
  OBVIOUS
<1>8. 100 * Cardinality(upto) > (n - 1) * p
  <2>1. Upto(values, x) \subseteq upto /\ upto \in SUBSET S
    BY <1>2, <1>6, <1>7 DEF Upto
  <2>2. Cardinality(Upto(values, x)) >= lo
    BY <1>2, <1>5 DEF AtPlace, Upto
  <2>3. /\ Cardinality(upto) \in Nat /\ Cardinality(Upto(values, x)) \in Nat
        /\ Cardinality(Upto(values, x)) <= Cardinality(upto)
    BY <2>1, SubsetSize
  <2> HIDE DEF upto
  <2> QED
    BY <1>4, <2>2, <2>3
<1>9. 100 * (Cardinality(under) - 1) < (n - 1) * p
  <2>1. under \subseteq Below(values, y) /\ Below(values, y) \in SUBSET S /\ under \in SUBSET S
    BY <1>2, <1>6, <1>7 DEF Below
  <2>2. Cardinality(Below(values, y)) < hi
    BY <1>2, <1>5 DEF AtPlace, Below
  <2>3. /\ Cardinality(under) \in Nat /\ Cardinality(Below(values, y)) \in Nat
        /\ Cardinality(under) <= Cardinality(Below(values, y))
    BY <2>1, SubsetSize
  <2>4. CASE part > 0
    <3>1. PICK u \in Nat : u = Cardinality(under) /\ u < lo + 1
      BY <1>4, <2>2, <2>3, <2>4
    <3> QED
      BY <1>4, <2>4, <3>1
  <2>5. CASE part = 0
    <3>1. under \subseteq Below(values, x) /\ Below(values, x) \in SUBSET S
      BY <1>2, <1>6, <1>7, <2>5 DEF Below
    <3>2. Cardinality(Below(values, x)) < lo
      BY <1>2, <1>5 DEF AtPlace, Below
    <3>3. Cardinality(Below(values, x)) \in Nat /\ Cardinality(under) <= Cardinality(Below(values, x))
      BY <3>1, SubsetSize
    <3>4. PICK u \in Nat : u = Cardinality(under) /\ u < lo
      BY <2>3, <3>2, <3>3
    <3> QED
      BY <1>4, <2>5, <3>4
  <2> QED
    BY <2>4, <2>5
<1> QED
  BY <1>1, <1>2, <1>6, <1>8, <1>9 DEF IsPercentile

LEMMA PercentilesGrow ==
    ASSUME NEW n \in Nat, n > 0, NEW o \in [1 .. n -> Nat],
           \A i, j \in 1 .. n : i <= j => o[i] <= o[j],
           NEW p \in Levels, NEW q \in Levels, p < q
    PROVE  Percentile(o, p) <= Percentile(o, q)
<1>1. PICK lo \in 1 .. n, hi \in 1 .. n, part \in 0 .. 99 : ReadAt(o, n, p, lo, hi, part)
  BY PercentileRead
<1>2. PICK lo2 \in 1 .. n, hi2 \in 1 .. n, part2 \in 0 .. 99 : ReadAt(o, n, q, lo2, hi2, part2)
  BY PercentileRead
<1>3. PICK x \in Nat, y \in Nat : x = o[lo] /\ y = o[hi] /\ x <= y
  BY <1>1 DEF ReadAt
<1>4. PICK x2 \in Nat, y2 \in Nat : x2 = o[lo2] /\ y2 = o[hi2] /\ x2 <= y2
  BY <1>2 DEF ReadAt
<1>5. 100 * (lo - 1) + part <= 100 * (lo2 - 1) + part2
  <2>1. (n - 1) * p <= (n - 1) * q
    BY DEF Levels
  <2> QED
    BY <1>1, <1>2, <2>1 DEF ReadAt
<1>6. /\ Percentile(o, p) = Blended(x, y, part)
      /\ Percentile(o, q) = Blended(x2, y2, part2)
  BY <1>1, <1>2, <1>3, <1>4 DEF ReadAt
<1>7. CASE lo = lo2
  <2>1. part <= part2 /\ x = x2 /\ y = y2
    BY <1>1, <1>2, <1>3, <1>4, <1>5, <1>7 DEF ReadAt
  <2> QED
    BY <1>3, <1>6, <2>1, BlendGrows
<1>8. CASE lo # lo2
  <2>1. lo < lo2
    BY <1>5, <1>8
  <2>2. hi <= lo2
    BY <1>1, <2>1 DEF ReadAt
  <2>3. y <= x2
    BY <1>3, <1>4, <2>2
  <2>4. Blended(x, y, part) \in Nat /\ Blended(x, y, part) <= 100 * y
    BY ONLY <1>3, Blend
  <2>5. Blended(x2, y2, part2) \in Nat /\ 100 * x2 <= Blended(x2, y2, part2)
    BY ONLY <1>4, Blend
  <2> QED
    BY <1>6, <2>3, <2>4, <2>5
<1> QED
  BY <1>7, <1>8

EventRow == [ttft_ms : Nat \cup {None}, status_code : {200, 400, None}, error : BOOLEAN]

\* A summary is made of the rows there are when it is written, and it is written
\* once; a time to a first byte is a number or missing.
PercentilesInv ==
    /\ event_rows \in Seq(EventRow)
    /\ Summarised => /\ phase = "done"
                     /\ summary.interactivity.ttft_ms = Distribution(Times)
                     /\ csv[1].p50_ttft_ms = CsvPercentile(Distribution(Times), 50)

LEMMA PercentilesInit == Init => PercentilesInv
BY DEF Init, PercentilesInv, Summarised

LEMMA PercentilesStep ==
    PercentilesInv /\ [Next]_vars => PercentilesInv'
<1> SUFFICES ASSUME PercentilesInv, [Next]_vars PROVE PercentilesInv'
  OBVIOUS
<1>1. CASE Summarise
  <2>1. PICK elapsed_s \in Elapsed, power_watts \in Powers, total \in RoundedTotals(metric_rows) :
          /\ stats' = [stats EXCEPT !.elapsed_s = elapsed_s]
          /\ summary' = Summary(metric_rows, event_rows, stats', Cardinality(Agents),
                                3, 1, power_watts, total)
          /\ csv' = <<CsvRow(summary')>>
    BY <1>1 DEF Summarise
  <2>2. phase' = "done" /\ event_rows' = event_rows
    BY <1>1 DEF Summarise
  <2>3. summary'.interactivity.ttft_ms = Distribution(Times)
    BY <2>1 DEF Summary, LatencyStats, Times
  <2>4. csv'[1].p50_ttft_ms = CsvPercentile(summary'.interactivity.ttft_ms, 50)
    BY <2>1 DEF CsvRow
  <2>5. Times' = Times
    BY <2>2 DEF Times
  <2> QED
    BY <2>2, <2>3, <2>4, <2>5 DEF PercentilesInv
<1>2. CASE \E a \in Agents : Answered(a) \/ Refused(a) \/ Broken(a)
  <2>1. PICK a \in Agents : Answered(a) \/ Refused(a) \/ Broken(a)
    BY <1>2
  <2>2. phase = "replay" /\ UNCHANGED summary
    BY <2>1 DEF Answered, Refused, Broken, Ready, outVars
  <2>3. PICK row \in EventRow : event_rows' = Append(event_rows, row)
    <3>1. CASE Answered(a)
      <4>1. PICK ttft \in Ttfts : Log(ttft, 200, FALSE)
        BY <3>1 DEF Answered
      <4>2. [ttft_ms |-> ttft, status_code |-> 200, error |-> FALSE] \in EventRow
        BY MainConstants DEF EventRow
      <4> QED
        BY <4>1, <4>2 DEF Log
    <3>2. CASE Refused(a)
      <4>1. PICK ttft \in Ttfts : Log(ttft, 400, FALSE)
        BY <3>2 DEF Refused
      <4>2. [ttft_ms |-> ttft, status_code |-> 400, error |-> FALSE] \in EventRow
        BY MainConstants DEF EventRow
      <4> QED
        BY <4>1, <4>2 DEF Log
    <3>3. CASE Broken(a)
      <4>1. Log(None, None, TRUE)
        BY <3>3 DEF Broken
      <4>2. [ttft_ms |-> None, status_code |-> None, error |-> TRUE] \in EventRow
        BY DEF EventRow
      <4> QED
        BY <4>1, <4>2 DEF Log
    <3> QED
      BY <2>1, <3>1, <3>2, <3>3
  <2> QED
    BY <2>2, <2>3 DEF PercentilesInv, Summarised
<1>3. CASE Collect \/ StartReplay \/ Poll
  <2>1. phase # "done" /\ UNCHANGED <<event_rows, summary>>
    BY <1>3 DEF Collect, StartReplay, Poll, rowVars, outVars
  <2> QED
    BY <2>1 DEF PercentilesInv, Summarised
<1>4. CASE UNCHANGED vars
  BY <1>4 DEF vars, rowVars, outVars, PercentilesInv, Summarised, Times
<1> QED
  BY <1>1, <1>2, <1>3, <1>4 DEF Next

\* However many requests a run makes and in whatever order their rows come, the
\* percentiles of the times to a first byte are percentiles and in their order,
\* and summary.csv has none exactly if no request had a first byte.
THEOREM PercentilesAreSound == Spec => []PercentilesSound
<1>1. PercentilesInv => PercentilesSound
  <2> SUFFICES ASSUME PercentilesInv, Summarised
               PROVE  LET d == summary.interactivity.ttft_ms
                      IN  /\ d.count = Cardinality(DOMAIN Times)
                          /\ csv[1].p50_ttft_ms = None <=> DOMAIN Times = {}
                          /\ DOMAIN Times # {} =>
                               /\ \A p \in Levels : IsPercentile(d.percentile[p], Times, p)
                               /\ \A p, q \in Levels :
                                    p < q => d.percentile[p] <= d.percentile[q]
    BY DEF PercentilesSound, Levels
  <2>1. /\ summary.interactivity.ttft_ms = Distribution(Times)
        /\ csv[1].p50_ttft_ms = CsvPercentile(Distribution(Times), 50)
    BY DEF PercentilesInv
  <2>2. PICK S : S = DOMAIN Times /\ IsFiniteSet(S) /\ Times \in [S -> Nat]
    <3> DEFINE kept == {i \in DOMAIN event_rows : event_rows[i].ttft_ms # None}
    <3>1. \A i \in DOMAIN event_rows : event_rows[i].ttft_ms \in Nat \cup {None}
      <4>1. \A i \in DOMAIN event_rows : event_rows[i] \in EventRow
        BY DEF PercentilesInv
      <4> QED
        BY <4>1 DEF EventRow
    <3>2. IsFiniteSet(kept)
      <4>1. PICK n \in Nat : n = Len(event_rows) /\ DOMAIN event_rows = 1 .. n
        BY DEF PercentilesInv
      <4>2. IsFiniteSet(1 .. n)
        BY IntervalSize
      <4> QED
        BY <4>1, <4>2, FS_Subset
    <3>3. Times = [i \in kept |-> event_rows[i].ttft_ms]
      BY DEF Times, FirstByteTimes
    <3> QED
      BY <3>1, <3>2, <3>3
  <2>3. CASE S = {}
    <3>1. Distribution(Times) = NoDistribution
      BY <2>2, <2>3 DEF Distribution
    <3>2. CsvPercentile(Distribution(Times), 50) = None /\ Distribution(Times).count = 0
      BY <3>1 DEF CsvPercentile, NoDistribution
    <3> QED
      BY <2>1, <2>2, <2>3, <3>2, FS_EmptySet
  <2>4. CASE S # {}
    <3>1. PICK n \in Nat : n = Cardinality(S) /\ n > 0
      BY <2>2, <2>4, FS_CardinalityType, FS_EmptySet
    <3>2. PICK o : o = Ordered(Times) /\ Sorted(o, Times)
      BY <2>2, OrderedIsSorted
    <3>3. /\ o \in [1 .. n -> Nat] /\ \A i, j \in 1 .. n : i <= j => o[i] <= o[j]
      BY <2>2, <3>1, <3>2 DEF Sorted
    <3>4. Len(o) = n
      <4>1. o \in Seq(Nat) /\ DOMAIN o = 1 .. n
        BY <3>3
      <4> QED
        BY <4>1
    <3>5. PICK d : d = Distribution(Times)
      OBVIOUS
    <3>6. /\ d.count = n
          /\ \A p \in Levels : d.percentile[p] = Percentile(o, p)
      BY <2>2, <2>4, <3>2, <3>4, <3>5 DEF Distribution, Levels
    <3>7. \A p \in Levels : Percentile(o, p) \in Nat /\ IsPercentile(Percentile(o, p), Times, p)
      BY <2>2, <2>4, <3>2, PercentileIs
    <3>8. \A p, q \in Levels : p < q => Percentile(o, p) <= Percentile(o, q)
      BY <3>1, <3>3, PercentilesGrow
    <3>9. csv[1].p50_ttft_ms # None
      <4>1. 50 \in Levels /\ d.count # 0
        BY <3>1, <3>6 DEF Levels
      <4>2. CsvPercentile(d, 50) \in Nat
        BY <4>1, <3>6, <3>7 DEF CsvPercentile
      <4> QED
        BY <2>1, <3>5, <4>2, NoneIsNoNumber
    <3> QED
      BY <2>1, <2>2, <2>4, <3>1, <3>5, <3>6, <3>7, <3>8, <3>9
  <2> QED
    BY <2>3, <2>4
<1> QED
  BY <1>1, PercentilesInit, PercentilesStep, PTL DEF Spec
=============================================================================
