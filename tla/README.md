# Formal verification of coding_agents

`coding_agents` captures coding-agent sessions (claude-cli against a local vLLM)
and replays the captured load. What it produces are measurements: a run can
finish without an error and be wrong all the same, because a request was counted
twice, a pause was measured from the wrong moment, a file is left over from an
earlier attempt. This directory models the parts of the program where such things
are decided, checks them with TLC on small instances, and proves the most
important of them with TLAPS for all instances.

Paths below are relative to `src/coding_agents/`.

## 1. The system

    trace_collection/main.py ── one task after the other ──────────────────┐
       │ enters                                                            │
       ├─ VllmServer (serving/server.py)        a process tree on port 8000│
       ├─ MetricsScraper (serving/…)            a thread, polls /metrics ──┼─> engine_metrics.jsonl
       ├─ Proxy (trace_collection/…/proxy)      a thread with an event loop┼─> turn_traces.jsonl
       └─ run_session (…/harness/runner.py)     claude-cli, a child process│
              claude-cli ── POST /v1/messages ─> Proxy ─> vLLM             └─> session.json

    trace_replay/main.py ─ load_sessions (zips the two files, row by row)
       └─ replay_traces: VllmServer + MetricsScraper + GpuPowerMonitor
            + run_concurrent_replay (asyncio, N virtual agents) ─> turn_events.jsonl
       └─ compute_and_write_summary ─> summary.json

| component | state | operations | what is hard | what makes it correct |
|---|---|---|---|---|
| metrics scraper (`serving/metric_scraper.py`) | stop flag, thread, baseline, peak, file | enter, exit, poll | a poll races the engine and the stop; scrapes fail; pages without counters; join with a time limit | no request in two rows; losses only where a scrape failed; a row describes its requests; at most one row comes after the stop |
| replay engine (`trace_replay/engine.py`) | deadline; per agent index, session, turn; shared live counters; event file | pick a session, sleep, send, stream, count, log, gather, cancel | agents interleave at every await; the deadline falls anywhere; an exception between count and log | counters, file and statistics agree; every agent keeps order and pauses; at most one late request each; the run ends |
| capture proxy (`proxy/app.py`, `recorder.py`, `parse.py`) | last chunks, last time, file | forward, can a title, record | a handler is suspended between noting the time and writing the row; sub-agents; retries; clients that give up | one row for each answered turn and for nothing else; differences decode; pauses neither overlap nor lose time |
| trace loader (`trace_replay/trace_loader.py`) | – | zip | two files of two threads, without a common key | a turn takes both halves from one request |
| vLLM server (`serving/server.py`, `utils/processes.py`) | Popen, process tree, port | stop leftovers, launch, wait, stop | crashes, forks during the kill, processes that ignore SIGTERM, a stranger on the port | one server at a time; nobody else's process is killed; every wait ends |
| collection run (`trace_collection/main.py`, `vllm/backend.py`, `runner.py`, `datasets`, `config.py`) | loop, session stack, the files of each task | start, enter, clone, solve, leave, save, resume | failure, Ctrl-C or SIGKILL at any point, Ctrl-C within the handling of another one included; a timeout racing the end; orphans; `--resume` | solved tasks stay as they are; files of one attempt; every task tried; nothing left behind but what the code cannot end |
| Anthropic backend and transcripts (`harness/runner.py`, `transcript.py`, `sandbox.py`) | claude-cli, its pipe, the thread that reads it, the id, the transcript, session.json | begin, start, read, wait, time out, interrupt, kill or be cut short in it, join, copy, save | the reader dies or is held up, claude-cli goes on writing, other sessions write transcripts too | the transcript kept is that session's, and whole if its end was seen; exit code 0 is claude-cli's own; every attempt ends |
| GPU power and NVML (`serving/gpu_power.py`, `utils.py`) | NVML's own count, handles, samples, the monitor's thread | open, query, close, sample, stop, join, average | init and shutdown are not paired; calls fail; a join gives up | NVML is up under its users and released at the end; the average is that of all samples |
| prompt synthesis (`trace_replay/synthetic.py`) | – | a turn's messages from token counts | prompts are rebuilt for each turn and must begin like the one before; counts of 0 | prompts as long as captured, and cached but for their last messages |
| settings (`serving/server.py`, `server.sh`, `utils/config.py`, `trace_loader.py`) | run_config.json | resolve, start, save, take over | four sources in two orders, a file written once, resumed runs | a replay serves what was captured |
| replay summary (`trace_replay/summary.py`) | – | percentiles, totals, ratios, CSV | empty inputs, averages multiplied back | percentiles are percentiles, tokens are recovered |
| replay entry point (`trace_replay/main.py`) | – | from run_config.json to summary.csv | what the parts do to each other | the three rows above, together |
| datasets, environment, HTTP probes, arguments | – | I/O | | not modelled |

`PROJECT.json` has the list of the hazards, each at its line and with the
properties that watch it.

## 2. The modules

| module | models | composed of |
|---|---|---|
| `CompletionLog` | what any log of completions promises: each request at most once, in order, never before it is finished | |
| `MetricsScraper` | the scraper, its thread and the engine's counters | implements `CompletionLog` |
| `ReplayEngine` | `run_concurrent_replay` and its agents | |
| `TraceProxy` | the proxy's `/v1/messages` | |
| `CapturePairing` | one captured session and the loader's zip | extends `TraceProxy`, uses `CompletionLog` for the scraper |
| `ServerLifecycle` | `VllmServer` over a process tree | |
| `CollectionRun` | `trace_collection/main.py` over several invocations | takes scraper, proxy and server at the level of their contracts |
| `ClaudeSession` | `run_session` with a transcript, over several attempts | takes the loop of `CollectionRun` as attempts that follow each other |
| `NvmlRefcount` | the users of NVML in both programs | |
| `SyntheticPrompts`, `ServingConfig`, `SummaryStats` | pure operators: the messages of a turn, the settings of vLLM, the numbers of the summary | |
| `ReplayMain` | `trace_replay/main.py` | extends the three above; the agents of `ReplayEngine` and the polls of `MetricsScraper` reduced to what the summary sees |
| `MC…` | the instances TLC checks | extend the module of their name |
| `MetricsScraperProofs`, `ReplayEngineProofs`, `ClaudeSessionProofs`, `CollectionRunProofs`, `ReplayMainProofs` | theorems | extend the module of their name |
| `TraceProxyProofs` | theorems about the proxy, alone and beside the scraper | extends `CapturePairing` |
| `ResourceProofs` | theorems about what must be given back | extends `NvmlRefcount` and `ServerLifecycle` |
| `FoldLemmas` | lemmas about least and largest elements and sums | |

A definition `X_Something` directly before a definition `X` is a variant of `X`
with a plausible bug in it. It is used by nothing; a property that keeps holding
when `X` is replaced by it would say nothing about `X` (PROJECT.json, `mutants`).

### MetricsScraper

`main` is the thread in the context manager (`out`, `in`, `joining`, `exited`),
`pc` the place of the poller in `Poller.run`: `baseline…` is the first loop
(lines 128–133), `loop`/`sleep`/`fetch` the second one (138–164), `done` the end of
`run`, `dead` the end by an exception that is not `httpx.HTTPError`. A scrape is two
steps, `Answer` (the engine evaluates `/metrics`) and the poller's use of it
(`BaselineTaken`, `Rebase`, `Quiet`, `Record`), so that requests finish in between.
`Record` is the whole of lines 151–164: peak, row, callback, new baseline. Averages
are kept in tenths, as `round(x, 1)` does, with either neighbour on a tie. Both runs
let the join give up (`SlowScrapes`): `__exit__` may then return while a scrape is on
its way, and `at_stop` keeps how many rows there were when stop was set. History
variables and fields (`requests`, `scraped`, `window_kv`, `at_stop`, `lo`, `hi`, `era`,
`kvs`) are read by no action.

### ReplayEngine

An action is what an agent does between two awaits or two readings of the clock.
`PickSession`/`Return` are lines 386–389, `BeginTurn` 307–312 up to the sleep, `Send` 314–325,
`FirstByte` 327–329, `EndTurn` 330–365 (the lock of `ReplayWriter` is never held across
an await, so count and row are one step unless an exception separates them:
`RaiseInWrite`), `EndSession` 367–369 with the sums of 400–402. `Gather`, `GatherRaises` and
`Cancel` are the three ways `run_concurrent_replay` goes on. The clock is discrete
and shared; a tick may come anywhere.

### TraceProxy

A handler is two steps, before the await (`AnswerTitle`, or `Forward` by way of `Ask`,
`Retry`, `Opaque`) and after it (`Respond`, `ForwardFails`). A message is a record of who said it,
its place and its role; a chunk is the same record. The billing header is the
nonce of a body's `system`, and `StripNonce` takes it off. claude-cli is modelled as append-only
conversations (a main loop and sub-agents) that retry after a failure, an error
answer or their own patience; vLLM as anything that answers 200, 500, or 400 for what
it refuses.

### CapturePairing

`TraceProxy` with the order in which vLLM counts its successful requests, and a log of
these requests that may do what `CompletionLog` allows: merge several, skip some.
`LoadedTurns` is `_load_session_from_dir`.

### ServerLifecycle

`find`, `term`, `kill`, `port` are the stages of `_stop`, `boot` the wait for `/v1/models`. The
processes have a parent, a tag (the environment variable that is inherited) and
a temper (stubborn ones survive SIGTERM). `Crash` is the end of the harness at any
point; the next start has no `Popen` object (`proc = 0`) and finds processes by tag only.

### CollectionRun

`pc` walks through `main()`, `VllmSession.__enter__`, `run_task`, `VllmSession.__exit__` and
`save_session_config` of one task. A file is the set of the attempts with rows in it.
`InterruptEnter` and `InterruptExit` differ because `VllmSession.__enter__` builds an `ExitStack`
that nobody unwinds if it raises half-way. `Kill` runs no handler: the server and
claude-cli stay, and claude-cli may reach the next session's proxy
(`ClaudeTurn` of an old attempt).

Nor does a harness that goes on always end its claude-cli. Between `Popen` (runner.py:90)
and `try` (118) an exception finds no handler (`started`, `EnterTry`). And
`terminate_process_tree` in an `except` branch (127, 130) takes up to ten seconds, in which a
second Ctrl-C, or an `OSError` of `wait_procs` (processes.py:78), is caught by no branch beside it and
leaves claude-cli without its SIGKILL (`kill`, `KillCut`); an `OSError` even lets the
run go on, as `run_task` makes 1 of it. `lost` is the history of the attempts whose
claude-cli nobody is going to end, by one of these two ways or by a `Kill`, and the properties except exactly
these. A process that has been sent SIGKILL counts as gone in this module; the time it still takes is in `ClaudeSession`.

### ClaudeSession

`pc` is where `run_session` is: `clone` and `start` are before the `try`, `wait` is
`proc.wait(timeout)`, `kill` the grace of `terminate_process_tree` in its `except` branches, `join` the
thread's, `copy` the copy of the transcript, `save` session.json. The kill ends with SIGKILL for who is left
(`KillSurvivors`; a process is `dying` until the signal has taken effect, which nobody waits for) or is cut short by
an exception in it (`KillCut`), and then `finally` joins for ten seconds and copies the transcript of a
claude-cli that may still write it; `unwaited` is the history of the attempts for which this was so. The pipe is
bounded, so that a claude-cli whose reader has died blocks on it; `held` is a
process in the background that keeps the pipe open after claude-cli has ended.
A transcript is a number of lines; session 0 is another session of the user's,
which makes "the newest one" dangerous.

### NvmlRefcount

NVML counts `nvmlInit` and `nvmlShutdown` per process. `Replay` and `Collect` are the
calls the two programs make in order, `at` the next one, and the monitor's thread and
the scraper's draw run beside them. Any call may fail. `leaked` is the
count `open_gpu_handles` keeps if a call after its `nvmlInit` fails.

### SyntheticPrompts, ServingConfig, SummaryStats, ReplayMain

The first three are operators. A token of a made-up text is its label and its
place, so that two texts agree exactly where the code's texts do. A source of
settings is a function on the keys with `Unset` where it has none. Numbers of the
summary are integers, scaled (hundredths, tenths, thousandths). A list that is only
summed or sorted is a function from the rows its values come from, and `sorted()` is defined by
what it does: at the i-th place is the value below which there are fewer
than i, and up to which there are at least i (`AtPlace`). The total of the tokens is
rounded to a whole one, as summary.py:170 does, with either neighbour on a tie (`Nearest`).

`ReplayMain` is a replay from end to end: collections under changing settings
(`Collect`), the start of vLLM from the first one's run_config.json, the requests
(`Answered`, `Refused`, `Broken`) against a prefix cache that keeps what it has
computed (token by token; vLLM's blocks and their eviction are left out), polls, and the summary. The capture is given with the prompts' parts (`new`,
`osl`) and with whether the captured engine had kept its own answers in the
cache (`kept`); `Captured` is what its counters then said.

## 3. The runs

| run | instance | what it shows |
|---|---|---|
| `scraper_safety` | 3 requests, 2 reasons, 2 token counts, 2 gauge values, error pages, joins that time out; 8.2 M states | windows in order and disjoint; each row, and the live total of the replay, true of the requests in the windows |
| `scraper_live` | 3 requests, 2 failed scrapes, a poller that may die, a join that may give up; fair; 9 k states | losses only by failed scrapes, nothing seen is forgotten, end of the thread, one row at most after the stop, a row for each completion, `CompletionLog` implemented |
| `replay_safety` | 2 agents, 2 sessions of 2 and 1 turns, deadline 1, clock to 2, 2 picks each, exceptions; fair; 2.3 M states | agreement of counters, events and statistics, unique keys, schedule, pauses, one late request, the run ends |
| `proxy_agents` | main loop and one sub-agent, 3 requests of all kinds, a failure and a client that gives up, clock to 2; fair; 0.4 M states | a row for each answered turn and for nothing else, differences, pauses that tile the session, every wait ends |
| `proxy_since` | violation | `tool_exec_ms` contains the engine's time |
| `capture_pairing` | one conversation, 5 requests of all kinds, one failure; 23 k states | each message new once; rows pair up until the first merge |
| `run_resume` | 2 tasks, 2 invocations, 2 failures or interrupts, 1 kill; fair; 4.1 M states | solved stays solved, files of one attempt, fresh servers and nothing left but lost claude-cli processes, every task tried, the end of each invocation |
| `server_safety` | 3 starts, 2 forks, 1 crash, stubborn processes, a stranger; fair; 0.5 M states | one server, escape only of the late-born, a port that stays busy is a stranger's, each start ends |
| `claude_session` | 2 attempts, 2 lines, 3 events, a pipe of 1, interrupts and a killed harness at any point; fair; 1.7 M states | the transcript of the session, and all of it unless claude-cli outlived its kill, code 0 only from claude-cli, each attempt ends |
| `nvml` | 2 draws of power, 3 samples, joins that give up; 0.9 k states | NVML up under its users, released at the end, the average of all samples |
| `replay_main` | 2 collections, 2 values of a setting; 2 agents with conversations of 2 turns, one of an engine that kept its answers and one that asks for 0 tokens; 1 turn refused or broken; 0.7 M states | the captured settings served, lengths of prompts, what of them is cached, percentiles, tokens recovered |
| `replay_prompts` | violation | prompts are not the captured `isl` and `isl_new` |

**Why the bounds are enough.** Three requests give two rows and a window between
them, or a row that merges two; two failed scrapes give a loss before and after
a row. Two agents and two sessions of different length, each agent going on to
the other's first session, give every kind of step next to every other one;
deadline and clock bound put the deadline into a sleep, a stream and between two turns. Three
requests of two conversations give an answer that overtakes another one and
one that comes after its retry. Two tasks and two invocations give a task
that is solved, one that fails and is retried, and a retry after a kill; two faults give
an interrupt and a second one in the handling of the first, or a failure in each invocation, and with
the kill a lost claude-cli beside either. Three
starts give a leftover of a leftover. A pipe of one line and three events block
claude-cli before it has ended; two attempts give one that finds the files, the transcript
and the claude-cli of a killed one. Two collections give a resumed one under
other settings; two agents of two turns give a percentile between two values,
one of a single value and one of none, a poll over two requests, and an agent's second turn
with the other's first before it or after it.

**Bounds are constants** (`Max…`, `Horizon`) in the guards of environment actions or
of `Tick`; the proofs do not use that they are small.

**Fairness.** The scraper's thread and the join are scheduled by the operating system,
and httpx ends a scrape after its 10 s timeout (`ThreadStep`); the engine is not
assumed to finish anything. In the replay the event loop runs every ready
agent; that a stream ends is an assumption the code makes, with `timeout=None`
(engine.py:246), and `Terminates` says no more than that the run ends if every
request does. The same holds for the proxy (`timeout=None`, app.py:71), without
fairness for failures or patience. In `ServerLifecycle`, `CollectionRun` and `ClaudeSession` every
wait has a time limit (`_READY_TIMEOUT`, `_wait_port_free`, `--timeout`, `join(timeout=…)`), which is the
fairness of the harness's own steps; processes, strangers and claude-cli need not do anything.

**Deadlock** is checked in every run but two: a system that may stop has a stuttering
action for it (`Terminated`, `Quiet`, `AllDone`, `Done`, `Finished`). `replay_main` and `replay_prompts`
end when the summary is written, and say `CHECK_DEADLOCK FALSE`.

Types are not checked by a run: they are parts of the inductive invariants, which
are proved (section 5).

## 4. Where documents and code disagree

Two runs end with a violation on purpose (PROJECT.json, `findings`):

* README.md:37, `tool_exec_ms` is the time since the previous response: it is the time since the previous *arrival*.
* trace_replay/README.md:3, prompts "matching the captured ISL, OSL, and ISL_new", and synthetic.py:85,
  "only the isl_new suffix is new prefill": the answers in a prompt are made up, so
  the engine has none of them; and where the captured `isl_new` contains the last
  answer, as README.md:21 says it may, that answer is in the next prompt twice. `LengthsFollowCapture` and `OnlyLastMessagesPrefilled`
  say what does hold.

The models show more of the kind, without a run of their own:

* README.md:13, "each completed request produces one row": not the requests of the last poll interval
  (the file only gets rows of scrapes), nor those of a window whose scrape failed, of which the file has
  no trace (`LossOnlyByError` says that nothing else is lost).
* trace_collection/README.md:135, "one row per assistant turn": two requests in one tick make one, and the
  loader's zip is off from there on (`PairedUntilMerge` holds up to there).
* README.md:32, "One row is written to `turn_traces.jsonl` per API request": not for the request for a title, which the proxy
  answers itself, nor for a body that is no JSON object, nor for a request whose answer was broken off
  (`RowsAreAnswers` says which ones have a row).
* server.py:122, "port … is busy, but no process owned by this harness was found to stop": it is also raised after
  processes of the harness were found and killed, if a stranger has taken the port since; and a stranger
  that answers `/v1/models` in time is taken for the server (`OnlyLateBornEscape` says no more than who holds a port that is busy after a stop).
* trace_collection/README.md:136, `turn_traces.jsonl` "only with `--capture`": an older one stays
  (`FilesOfOneAttempt` has `--capture` given each time for that part).
* trace_replay/README.md:69, `cycle` counts wraps: it starts above 0 for agents beyond the number of sessions
  (`EventKeysUnique` does not need it to).
* trace_replay/README.md, "configured automatically from the capture run's run_config.json": true of the settings
  of `VllmConfig` (`ReplayServesAsCaptured`), but server.sh reads others, as `MAX_NUM_SEQS`, which are not saved.
* An error answer counts as a completed turn with a time to its first byte (`Refused`).
* A failed scrape and then an error page make the next row count requests again
  (`AtMostOneRow` is proved for the case without); `prefix_cache_hits` is a sum over
  the row's requests and not an average (`RowsDescribeTheirWindow`).
* The deadline of the replay is not looked at after the sleep (`OneLateRequest` bounds what comes of it).
* With sub-agents, or when a client gives up and its first answer is logged late, whole conversations are new
  again (`OnlyFreshMessagesNew` is checked and proved for one conversation, `IslNewDecodes` for all).

## 5. The proofs

Proved with TLAPS for all values of the constants, from the `ASSUME`s on the
constants alone (which TLC evaluates in every run):

| theorem | says |
|---|---|
| `MetricsScraperProofs!TypeCorrect` | `[]TypeOK` |
| `…!AtMostOneRow` | `[]WindowsOrdered`, unless error pages and failed scrapes come together |
| `…!LossNeedsAnError` | `[]LossOnlyByError` |
| `…!SeenStaysAccounted` | `[]SeenIsAccounted`, without error pages |
| `…!LateRowIsOne` | `[]OneLateRow` |
| `…!RowsDescribe` | `[]RowsDescribeTheirWindow` |
| `…!Refinement` | `Spec => ImplementsCompletionLog`, under the assumption of `AtMostOneRow` |
| `ReplayEngineProofs!TypeCorrect` | `[]TypeOK` |
| `…!KeysUnique` | `[]EventKeysUnique` |
| `…!AtMostOneLate` | `[]OneLateRequest` |
| `…!PausesKept` | `[]PacingRespected` |
| `…!LiveIsTheFile` | `[]LiveMatchesEvents` |
| `…!ScheduleFollowed` | `[]FollowsSchedule` |
| `…!SessionsAreCountedOnce` | `[]SessionsCountedOnce` |
| `TraceProxyProofs!OneRowEach` | `[]RowsAreAnswers` |
| `…!RowsDecode` | `[]IslNewDecodes` |
| `…!PausesAddUp` | `[]PausesTile` |
| `…!ProxyAlone` | `PairSpec => Spec`: what is proved of the proxy holds beside the scraper |
| `…!FreshBesideScraper` | `[]OnlyFreshMessagesNew`, for one conversation whose client does not give up |
| `…!PairedRight` | `[]PairedUntilMerge`, for finitely many conversations |
| `ResourceProofs!OneAtATime` | `[]OneServer` |
| `…!EscapeByBirth` | `[]OnlyLateBornEscape` |
| `CollectionRunProofs!OneAttempt` | `[]FilesOfOneAttempt` |
| `…!FreshAndGone` | `[]FreshThenGone` |
| `…!AllTried` | `[]EveryTaskTried` |
| `…!SolvedIsFinal` | `SolvedStaysSolved` |
| `ClaudeSessionProofs!TranscriptKept` | `[]TranscriptOfSession` |
| `…!ZeroIsEarned` | `[]ZeroMeansSolved` |
| `ResourceProofs!UpForUsers` | `[]UpWhileUsed` |
| `…!Released` | `[]ReleasedAtEnd` |
| `…!WattsMeasured` | `[]WattsOfAllSamples` |
| `ReplayMainProofs!ServedAsCaptured` | `[]ReplayServesAsCaptured` |
| `…!LengthsFollow` | `[]LengthsFollowCapture` |
| `…!OnlyNewPrefilled` | `[]OnlyLastMessagesPrefilled` |
| `…!TokensAreRecovered` | `[]TokensRecovered` |
| `…!PercentilesAreSound` | `[]PercentilesSound` |

*Scraper.* `WindowsOrdered` is not inductive: that a new row begins after the last one
depends on the baseline, and the baseline on a snapshot that was taken some steps
earlier. `OrderInv` therefore adds that the last row ends at or before the baseline
or, if there is none, that it ends at or before whatever the scrape in flight will
bring, which the engine's counter bounds. `PhaseInv` says what the poller holds where: no
snapshot before `Enter`, no baseline and no row of the session before the loop. `LateInv` says when the late row of
`OneLateRow` is still to come: only while the poller is between its last look at stop and its next one. `LossInv` says that rows
of the current era meet the baseline. The refinement maps `logged` to the windows of
the rows; `Record` is one `Log` step because of `OrderInv`, every other step a `Finish` or a stutter.
For `RowsDescribeTheirWindow`, `ExactInv` says that the engine's counters, and every
snapshot of them, are the sums and counts over the requests finished so far, an
error page included (it is the snapshot of an engine that has finished nothing); the difference of two
exact snapshots is the sum over the window between them. `PeakInv` ties the peak to the
window that is open, and `RowsInv` collects the rows: a request that finishes later changes no sum of theirs, and
the tolerances of their roundings add up. It needs none of the hypotheses of `AtMostOneRow`: a
window that goes back to nothing after an error page is described correctly too.

*Replay.* `PlaceInv` gives what an agent is doing from its index (`Session` and
`Cycle` are the remainder and quotient of `session_idx - 1`, and `DivMod` that they determine it). An agent's
logged keys all lie before the pair (`session_idx`, `turn`) it is at, which only grows; hence
`KeysUnique`. `AtMostOneLate` and `PausesKept` carry what a sleeping or streaming agent owes (`wake` is at
least the end of its last event and its pause; a late request was begun
before the deadline, and nothing is begun after it). `LiveIsTheFile` counts rows by their index sets and
adds one element per `EndTurn`. `ScheduleInv`: as long as the deadline has not cut a session short, where an
agent is in the pool follows from its last row, and an agent without a row is at its own first place; `FollowsSchedule`
alone says nothing of the agent that is about to add a row. For `SessionsCountedOnce`, `DoneInv`
says that an agent has something to add up for its session exactly if the session
has a row, `LeftInv` that the shared counter is the number of sessions left with a
row, and `SumInv` that the shared counters are, at any time, the sums of what the
agents have returned and still have in hand; `gather` then returns the same sums (`StatsInv`).

*Proxy.* `Diffed`: the chunks the next difference is taken to are those of the last
row. `Logged` ties a row to its request, and the number of rows to the number of
answers. `Timed`: the last arrival is the latest one, and a later request's pause does not go
back beyond an earlier arrival. The common prefix is the cardinality of a set of
positions without a gap (`InitialSegment`), so that no induction over the
lists is needed. `Covered` gives the second half of `PausesTile`: if every request has a row, each
stretch between two neighbouring arrivals is in the pause of one of them.
For `OnlyFreshMessagesNew`, `Spoken` says that the requests of a conversation are its
growing beginnings, and `InTurn` that the rows are in the order of the requests and that a request is
only made when no answer to an earlier one is outstanding. That is where the two hypotheses come in: a
second conversation, or an answer that comes after its client has given up, puts a row between
two rows that continue each other, and the property is false. `Paired` adds, for `PairedUntilMerge`, that the k-th
completion is the k-th row's as long as nothing has gone wrong, which no log of the
completions can disturb. `PairedRight` assumes that the conversations are finitely many because
the property counts them; which of them there are is claude-cli's affair.

*Server.* `Tagged`: all that lives carries the tag, whatever has become of its parents and
of the harness; so a listing is complete (`AllListed`), and what lives afterwards has been listed
or is younger (`Listed`). Nothing younger is a root, as only a launch makes one.

*Collection run.* `Queued`: the task in hand and those to come are unsolved and all
different, and only the one in hand is written to. `Processes` and `Sides` say what is alive
at each place, `Files` and `Matching` which attempts' rows the files have, `Tried` that a task taken is
done, in hand or to come. A row is of the attempt in hand or of a lost one, as the only
claude-cli processes alive are that one's and lost ones.

*Claude session.* A claude-cli that has ended stays so and writes no more, so what was
true of its transcript and its code when they were taken stays true (`Copied`,
`Earned`); `Waited` says that they are taken after its end or that it is one of `unwaited`, `Named` that the id is the current one.

*NVML.* `Counted`: the count lies between the number of users and that number plus what is
leaked. It is inductive only with `Places`, who can be a user at which call.

*Settings.* What has all keys keeps its values whatever it is laid over
(`OverComplete`), and run_config.json has all keys from the first collection on (`Kept`).

*Requests.* A prompt is a flattened list of messages. A flattening is a function of how much has been
laid down after each message (`Flattens`), of which there is one (`FlattensUnique`); so that a list with
more messages is the flattening so far with theirs behind it (`FlattenMore`). Hence a turn's prompt begins like
the prompt before it and ends in an answer and a new message (`PromptNext`), and its length is that of
the captured one (`LengthHolds`, turn by turn, as a turn at which it failed first would contradict the
one before). `CacheInv`: an agent whose turns the engine has all read has left the prompt of its last one
in the cache, and the cache never loses anything. The proofs use `ConversationTurns`: captured counts are natural numbers.

*Summary.* `TokensInv` keeps the distance between the tokens of the rows and the
tokens generated below half a tenth for each request, from the same fact about one row
(`TenthsWithin`); the rounding of the total adds half a token to it once. `PercentilesInv` says that what is in the summary was made of the rows there
are, as no row comes after it. The rest is about one list: every place has a value (`PlaceExists`: the least one up to
which there are enough), a sorted list does not fall (`OrderedIsSorted`), and a percentile lies between
the two neighbours of its rank (`ReadAt`, `Blend`), so that what is counted below it and up to it is
what is counted at these two places. `NoneIsNoNumber` keeps a missing percentile apart from one.

*Sums* are the sizes of areas, the pairs of a row and a number up to its value (`SumIsArea`); so a sum over one
row more, over a part or over two functions is the size of a union. The step from one row to the next that
an induction would make is made by taking a smallest set for which the claim fails (`MinimalSubset`),
or a least number.

Only model-checked: all liveness (`Terminates`, `StopEndsThread`, `CompletionGetsRow`, `WaitEnds`,
`InvocationEnds`, `EnterEnds`, `AttemptEnds`), which the prover does not reach, and the
two violations of section 4. Under their hypotheses only: the theorems
on the scraper's windows, which are false with error pages, and
the two on one conversation, as said above.

## 6. What is left out

Within the modelled parts: the fields of a row that are computed like `osl` (one
stands for all), the output text, requests to other paths of the proxy, the
display, `/dev/shm`, the wait for GPU memory (it goes on after a time limit in any
case), the wording of prompts, the loader's shuffle and rounding of averages, the rounding of the measured power
to a tenth of a watt (gpu_power.py:52) and of the summary's rates and percentiles to thousandths, which the models
keep exact or cut off.

Not modelled at all: downloading datasets, environment variables, HTTP probes and
argument parsing, which are I/O or keep no state; what a probe finds is a choice
in `ServerLifecycle`.

What could come next, in this order:

1. torn last lines of `.jsonl` files and the loader (trace_loader.py:115);
2. a composition of `ReplayEngine` with `MetricsScraper` that relates `turn_events.jsonl` to
   `engine_metrics.jsonl` under overlapping requests;
3. the display task as an actor of `ReplayEngine` (engine.py:265).
