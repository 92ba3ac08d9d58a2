---------------------------- MODULE NvmlRefcount ----------------------------
(***************************************************************************)
(* Who starts NVML and who shuts it down (serving/utils.py, gpu_power.py).   *)
(* nvmlInit and nvmlShutdown count their calls in the process, and NVML is up *)
(* as long as the count is not 0; each call may fail.  The callers of a       *)
(* process do not know of each other: short contexts around a query, the      *)
(* handles the display reads, and the power monitor with its thread.  The two *)
(* programs make the calls in the orders of Replay and Collect.              *)
(***************************************************************************)
EXTENDS Integers, Sequences

CONSTANTS
    Watts,          \* what the GPUs draw, added up
    None,
    MaxSamples,     \* bound: samples of the monitor
    SlowQueries     \* may a query outlive a join (10 s, 15 s)?

ASSUME NvmlConstants ==
    /\ Watts \subseteq Nat /\ None \notin Nat /\ MaxSamples \in Nat /\ SlowQueries \in BOOLEAN

\* trace_replay: VllmServer is entered (gpu_used_mib), then the power monitor; the
\* replay opens the handles, draws with them, and closes them; the monitor and
\* the server are left.
Replay == <<"context", "monitor", "open", "draw", "close", "stop", "join", "context">>

\* trace_collection: gpu_info for run_config.json, the handles, and for a task a
\* server that is entered, a scraper that draws with the handles from its thread, and
\* the server left.
Collect == <<"context", "open", "context", "scrape", "unscrape", "context", "close">>

VARIABLES
    program,        \* Replay or Collect
    at,             \* the call the main thread makes next
    count,          \* NVML's own count
    inside,         \* is the main thread in an nvml_context?
    handles,        \* has open_gpu_handles returned any?
    scraper,        \* does the scraper's thread draw?
    monitor,        \* has the monitor's nvmlInit succeeded, and its exit not begun?
    thread,         \* the monitor's thread
    stop,           \* _stop
    samples,        \* _samples
    watts_measured,
    leaked,         \* history: nvmlInit calls nobody will undo
    late            \* history: has a join given up?

mainVars    == <<program, at, inside, handles, scraper>>
monitorVars == <<monitor, thread, stop, samples, watts_measured>>
historyVars == <<leaked, late>>
vars == <<mainVars, count, monitorVars, historyVars>>

Init ==
    /\ program \in {Replay, Collect} /\ at = 1
    /\ count = 0 /\ inside = FALSE /\ handles = FALSE /\ scraper = FALSE
    /\ monitor = FALSE /\ thread = "none" /\ stop = FALSE /\ samples = <<>>
    /\ watts_measured = None /\ leaked = 0 /\ late = FALSE

-----------------------------------------------------------------------------
(* A definition X_... before X is a bug X does not have, put in the place of X  *)
(* by a mutant of PROJECT.json.                                             *)

Calls(call) == at \in DOMAIN program /\ program[at] = call

\* nvmlShutdown fails on a count of 0, and all callers ignore that.
Shutdown == IF count > 0 THEN count - 1 ELSE 0

\* close_gpu_handles is called for handles that are open only.
MustClose_Always == TRUE
MustClose_Never == FALSE
MustClose == handles

Joined_NoWait == TRUE
Joined == thread \in {"none", "ended"}

Average(values) ==
    LET total[i \in 0 .. Len(values)] == IF i = 0 THEN 0 ELSE total[i - 1] + values[i]
    IN  total[Len(values)] \div Len(values)

Measured == IF samples = <<>> THEN None ELSE Average(samples)

-----------------------------------------------------------------------------
(* The main thread *)

\* nvml_context: an nvmlInit that fails ends it, and gpu_used_mib says 0.
EnterContext ==
    /\ Calls("context") /\ ~inside
    /\ \/ inside' = TRUE /\ count' = count + 1 /\ at' = at
       \/ inside' = FALSE /\ count' = count /\ at' = at + 1
    /\ UNCHANGED <<program, handles, scraper, monitorVars, historyVars>>

LeaveContext ==
    /\ Calls("context") /\ inside
    /\ inside' = FALSE /\ count' = Shutdown /\ at' = at + 1
    /\ UNCHANGED <<program, handles, scraper, monitorVars, historyVars>>

\* GpuPowerMonitor.__enter__
EnterMonitor ==
    /\ Calls("monitor")
    /\ \/ monitor' = TRUE /\ count' = count + 1 /\ thread' = "enumerate"
       \/ monitor' = FALSE /\ count' = count /\ thread' = "none"
    /\ at' = at + 1
    /\ UNCHANGED <<program, inside, handles, scraper, stop, samples, watts_measured, historyVars>>

\* open_gpu_handles: nothing undoes the nvmlInit if a later call fails or there is
\* no GPU.
OpenHandles ==
    /\ Calls("open")
    /\ \/ handles' = TRUE /\ count' = count + 1 /\ leaked' = leaked
       \/ handles' = FALSE /\ count' = count /\ leaked' = leaked
       \/ handles' = FALSE /\ count' = count + 1 /\ leaked' = leaked + 1
    /\ at' = at + 1
    /\ UNCHANGED <<program, inside, scraper, monitorVars, late>>

\* The display of a replay draws on the main thread; an exception, or the end of
\* the run, leads to close.
Draw ==
    /\ Calls("draw")
    /\ at' = at + 1
    /\ UNCHANGED <<program, inside, handles, scraper, count, monitorVars, historyVars>>

StartScraper ==
    /\ Calls("scrape")
    /\ scraper' = TRUE /\ at' = at + 1
    /\ UNCHANGED <<program, inside, handles, count, monitorVars, historyVars>>

\* MetricsScraper.__exit__ waits 15 s for a thread that may be in a query.
StopScraper ==
    /\ Calls("unscrape")
    /\ \/ scraper' = FALSE /\ late' = late
       \/ SlowQueries /\ scraper' = TRUE /\ late' = TRUE
    /\ at' = at + 1
    /\ UNCHANGED <<program, inside, handles, count, monitorVars, leaked>>

CloseHandles ==
    /\ Calls("close")
    /\ handles' = FALSE
    /\ count' = IF MustClose THEN Shutdown ELSE count
    /\ at' = at + 1
    /\ UNCHANGED <<program, inside, scraper, monitorVars, historyVars>>

\* GpuPowerMonitor.__exit__
StopMonitor ==
    /\ Calls("stop")
    /\ stop' = TRUE /\ at' = at + 1
    /\ UNCHANGED <<program, inside, handles, scraper, count, monitor, thread, samples,
                   watts_measured, historyVars>>

\* It shuts NVML down whether its nvmlInit has succeeded or not.
JoinMonitor ==
    /\ Calls("join")
    /\ \/ Joined /\ late' = late
       \/ SlowQueries /\ thread = "query" /\ late' = TRUE
    /\ monitor' = FALSE /\ count' = Shutdown
    /\ watts_measured' = Measured
    /\ at' = at + 1
    /\ UNCHANGED <<program, inside, handles, scraper, thread, stop, samples, leaked>>

-----------------------------------------------------------------------------
(* GpuPowerMonitor._run *)

Enumerate ==
    /\ thread = "enumerate"
    /\ \/ count > 0 /\ thread' = "check"
       \/ thread' = "ended"
    /\ UNCHANGED <<mainVars, count, monitor, stop, samples, watts_measured, historyVars>>

CheckStop ==
    /\ thread = "check"
    /\ thread' = IF stop THEN "ended" ELSE "query"
    /\ UNCHANGED <<mainVars, count, monitor, stop, samples, watts_measured, historyVars>>

\* A query that fails is logged and the next one made.  _stop.wait then returns
\* after a second or when stop is set.
Sample ==
    /\ thread = "query"
    /\ \/ count > 0 /\ Len(samples) < MaxSamples
          /\ \E w \in Watts : samples' = Append(samples, w)
       \/ samples' = samples
    /\ thread' = "check"
    /\ UNCHANGED <<mainVars, count, monitor, stop, watts_measured, historyVars>>

Main ==
    \/ EnterContext \/ LeaveContext \/ EnterMonitor \/ OpenHandles \/ Draw
    \/ StartScraper \/ StopScraper \/ CloseHandles \/ StopMonitor \/ JoinMonitor
Thread == Enumerate \/ CheckStop \/ Sample
Finished == at > Len(program) /\ thread \in {"none", "ended"} /\ UNCHANGED vars

Next == Main \/ Thread \/ Finished

Spec == Init /\ [][Next]_vars

-----------------------------------------------------------------------------
(* Properties *)

\* (WattsOfAllSamples says what watts_measured is.)
TypeOK ==
    /\ program \in {Replay, Collect} /\ at \in 1 .. Len(program) + 1
    /\ count \in Nat /\ leaked \in Nat
    /\ inside \in BOOLEAN /\ handles \in BOOLEAN /\ scraper \in BOOLEAN
    /\ monitor \in BOOLEAN /\ stop \in BOOLEAN /\ late \in BOOLEAN
    /\ thread \in {"none", "enumerate", "check", "query", "ended"}
    /\ samples \in Seq(Watts)

Users ==
    (IF inside THEN 1 ELSE 0) + (IF handles THEN 1 ELSE 0) + (IF monitor THEN 1 ELSE 0)

\* Nobody shuts NVML down under somebody who uses it: the count is at least the
\* number of users, although the monitor shuts down what it may not have started and
\* open_gpu_handles may leave a count behind; and what the threads use, the handles or
\* the monitor's own count, stays for as long as no join has given up.
UpWhileUsed ==
    /\ count >= Users
    /\ ~late => /\ thread \in {"enumerate", "check", "query"} => monitor
                /\ thread = "query" => count > 0
                /\ scraper => ~Calls("close")

\* When the program has ended nothing is left of NVML but what open_gpu_handles
\* has leaked, at most once.
ReleasedAtEnd == at > Len(program) => count <= leaked /\ leaked <= 1

\* "the average total watts ... None if pynvml is unavailable or no samples were
\* collected" (gpu_power.py:15): when the replay takes the value, it is that of all
\* samples, and no sample comes after it, unless the join has given up.
WattsOfAllSamples ==
    (program = Replay /\ at > 7 /\ ~late) =>
        watts_measured = IF samples = <<>> THEN None ELSE Average(samples)
=============================================================================
