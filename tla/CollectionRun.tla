--------------------------- MODULE CollectionRun ----------------------------
(***************************************************************************)
(* A capture run with the vLLM backend (trace_collection/main.py): one task  *)
(* after the other, each with a server, a scraper and a proxy of its own     *)
(* (inference_servers/vllm/backend.py), a sandbox, a clone and a claude-cli  *)
(* process (harness/runner.py), and a session.json at the end; and the next  *)
(* invocation with --resume, after the run has ended, failed, been          *)
(* interrupted or been killed.                                             *)
(*                                                                         *)
(* A file is the set of the attempts that have rows in it, {} if there is    *)
(* none.  Attempts are numbered over all invocations; the number is history. *)
(* How a row comes about is in MetricsScraper and TraceProxy.               *)
(***************************************************************************)
EXTENDS Integers, Sequences, FiniteSets

CONSTANTS
    NumTasks,       \* problems in the dataset
    NumSamples,     \* --num-samples; NumTasks if it is not given
    Captures,       \* values of --capture the invocations are given
    MaxInvocations, \* bound: times main() is started
    MaxFaults,      \* bound: failed starts and interrupts
    MaxKills        \* bound: times the harness is killed outright

ASSUME RunConstants ==
    /\ NumTasks \in Nat \ {0} /\ NumSamples \in Nat
    /\ Captures \subseteq BOOLEAN
    /\ MaxInvocations \in Nat /\ MaxFaults \in Nat /\ MaxKills \in Nat

Tasks == 1 .. NumTasks

VARIABLES
    pc,             \* where main() is; "out" before, "finished" or "failed" after
    capture,        \* --capture, in this invocation
    queue,          \* tasks the loop has yet to take
    taken,          \* history: the tasks this invocation was given
    first,          \* history: attempts made before this invocation
    task,           \* the task in hand
    attempt,        \* history: number of the attempt in hand
    begun,          \* history: has this attempt had a claude-cli?
    outcome,        \* exit_code, or Raised
    servers,        \* the attempts whose vLLM processes live
    scraping,       \* is the scraper's thread running?
    proxy,          \* the attempt whose proxy listens on the port, or 0
    claudes,        \* claude-cli processes alive, by attempt
    lost,           \* history: attempts whose claude-cli nobody is going to end any more
    engine,         \* engine_metrics.jsonl of each task
    traces,         \* turn_traces.jsonl of each task
    session,        \* session.json of each task
    invocations, faults, kills

runVars     == <<capture, queue, taken, first>>
attemptVars == <<task, attempt, begun>>
claudeVars  == <<claudes, lost>>
sideVars    == <<servers, scraping, proxy>>
diskVars    == <<engine, traces, session>>
countVars   == <<invocations, faults, kills>>
vars == <<pc, runVars, attemptVars, outcome, sideVars, claudeVars, diskVars, countVars>>

Raised == -1
Timeout_exit_code == 124

\* What session.json says.  A file that was opened and not yet written is Torn.
NoSession == [exit_code |-> -1, attempt |-> 0, capture |-> FALSE]
Torn(a)   == [exit_code |-> -2, attempt |-> a, capture |-> FALSE]

Init ==
    /\ pc = "out" /\ capture = FALSE /\ queue = <<>> /\ taken = {} /\ first = 0
    /\ task = 1 /\ attempt = 0 /\ begun = FALSE /\ outcome = 0
    /\ servers = {} /\ scraping = FALSE /\ proxy = 0 /\ claudes = {} /\ lost = {}
    /\ engine = [i \in Tasks |-> {}] /\ traces = [i \in Tasks |-> {}]
    /\ session = [i \in Tasks |-> NoSession]
    /\ invocations = 0 /\ faults = 0 /\ kills = 0

-----------------------------------------------------------------------------
(* The pieces the actions share.  A definition X_... before X is a bug X does  *)
(* not have; the mutants of PROJECT.json put it in the place of X.             *)

\* _load_solved_ids: a session.json that parses, with exit code 0.
Solved_AnyFile(i) == session[i] # NoSession
Solved_Never(i) == FALSE
Solved(i) == session[i].exit_code = 0

\* MetricsScraper.__enter__ and Proxy.__enter__ start from no file.
FreshEngine == [engine EXCEPT ![task] = {}]

FreshTraces_Kept == traces
FreshTraces == IF capture THEN [traces EXCEPT ![task] = {}] ELSE traces

\* VllmServer._stop: every process with the port's tag is killed.
LeftAfterStop == {}

\* terminate_process_tree, when it comes to its end.
AfterTerminate_Alive == claudes
AfterTerminate == claudes \ {attempt}

\* Does proc.wait have a timeout?
TimeLimit_None == FALSE
TimeLimit == TRUE

\* What run_task makes of a clone that fails.
CloneFailure == 1

Fault == faults < MaxFaults /\ faults' = faults + 1

-----------------------------------------------------------------------------
(* main() *)

Unsolved == {i \in Tasks : ~Solved(i)}

\* get_dataset: the unsolved tasks in their order, as many as there are to be.
Pending(q) ==
    LET these == {q[k] : k \in DOMAIN q} IN
    /\ \A j, k \in DOMAIN q : j < k => q[j] < q[k]
    /\ these \subseteq Unsolved /\ Len(q) <= NumSamples
    /\ \A i \in Unsolved \ these : Len(q) = NumSamples /\ \A k \in DOMAIN q : q[k] < i

Invoke(cap) ==
    /\ pc \in {"out", "finished", "failed"} /\ invocations < MaxInvocations
    /\ invocations' = invocations + 1
    /\ capture' = cap
    /\ \E n \in 0 .. NumTasks : \E q \in [1 .. n -> Tasks] : Pending(q) /\ queue' = q
    /\ taken' = {queue'[k] : k \in DOMAIN queue'}
    /\ first' = attempt
    /\ pc' = "loop"
    /\ UNCHANGED <<attemptVars, outcome, sideVars, claudeVars, diskVars, faults, kills>>

NextTask ==
    /\ pc = "loop" /\ queue # <<>>
    /\ task' = Head(queue) /\ queue' = Tail(queue)
    /\ attempt' = attempt + 1 /\ begun' = FALSE
    /\ outcome' = 0
    /\ pc' = "server"
    /\ UNCHANGED <<capture, taken, first, sideVars, claudeVars, diskVars, countVars>>

LoopEnds ==
    /\ pc = "loop" /\ queue = <<>>
    /\ pc' = "finished"
    /\ UNCHANGED <<runVars, attemptVars, outcome, sideVars, claudeVars, diskVars, countVars>>

\* The exception leaves main(): the process ends, and its threads with it.
Leave ==
    /\ pc' = "failed"
    /\ scraping' = FALSE /\ proxy' = 0
    /\ UNCHANGED <<runVars, attemptVars, outcome, claudeVars, diskVars, invocations, kills>>

-----------------------------------------------------------------------------
(* VllmSession.__enter__: what it has entered is not left when it raises *)

StopLeftover ==
    /\ pc = "server"
    /\ servers' = LeftAfterStop
    /\ pc' = "launch"
    /\ UNCHANGED <<runVars, attemptVars, outcome, scraping, proxy, claudeVars, diskVars,
                   countVars>>

\* "port is busy": somebody else's process listens on it.
PortBusy ==
    /\ pc = "launch" /\ Fault
    /\ UNCHANGED servers
    /\ Leave

Launch ==
    /\ pc = "launch"
    /\ servers' = servers \cup {attempt}
    /\ pc' = "boot"
    /\ UNCHANGED <<runVars, attemptVars, outcome, scraping, proxy, claudeVars, diskVars,
                   countVars>>

Ready ==
    /\ pc = "boot"
    /\ pc' = "scraper"
    /\ UNCHANGED <<runVars, attemptVars, outcome, sideVars, claudeVars, diskVars, countVars>>

\* vLLM has died on startup, or is not ready in time and is left as it is.
NotReady ==
    /\ pc = "boot" /\ Fault
    /\ servers' \in {{}, servers}
    /\ Leave

EnterScraper ==
    /\ pc = "scraper"
    /\ engine' = FreshEngine
    /\ scraping' = TRUE
    /\ pc' = "proxy"
    /\ UNCHANGED <<runVars, attemptVars, outcome, servers, proxy, claudeVars, traces, session,
                   countVars>>

EnterProxy ==
    /\ pc = "proxy"
    /\ traces' = FreshTraces
    /\ proxy' = attempt
    /\ pc' = "clone"
    /\ UNCHANGED <<runVars, attemptVars, outcome, servers, scraping, claudeVars, engine,
                   session, countVars>>

\* The proxy does not come up: the files are gone, the server stays.
ProxyFails ==
    /\ pc = "proxy" /\ Fault
    /\ traces' = FreshTraces
    /\ pc' = "failed" /\ scraping' = FALSE
    /\ UNCHANGED <<runVars, attemptVars, outcome, servers, proxy, claudeVars, engine, session,
                   invocations, kills>>

\* An exception from outside (Ctrl-C) while the session is being entered.
InterruptEnter ==
    /\ pc \in {"server", "launch", "boot", "scraper", "proxy"} /\ Fault
    /\ UNCHANGED servers
    /\ Leave

-----------------------------------------------------------------------------
(* run_task and run_session, in a sandbox *)

\* The repository is cloned and claude-cli started.
StartClaude ==
    /\ pc = "clone"
    /\ claudes' = claudes \cup {attempt} /\ begun' = TRUE
    /\ pc' = "started"
    /\ UNCHANGED <<runVars, task, attempt, outcome, sideVars, lost, diskVars, countVars>>

\* Only in the try there is somebody to end it.
EnterTry ==
    /\ pc = "started"
    /\ pc' = "solve"
    /\ UNCHANGED <<runVars, attemptVars, outcome, sideVars, claudeVars, diskVars, countVars>>

\* git fails or takes too long, or there is no claude-cli.
CloneFails ==
    /\ pc = "clone"
    /\ outcome' = CloneFailure
    /\ pc' = "exitProxy"
    /\ UNCHANGED <<runVars, attemptVars, sideVars, claudeVars, diskVars, countVars>>

\* A turn of a claude-cli, of this attempt or one that was lost: it has the
\* address of the proxy, whosever that is now.  The last row may go unscraped.
ClaudeTurn(c, scraped) ==
    /\ c \in claudes /\ proxy # 0
    /\ engine' = IF scraping /\ scraped THEN [engine EXCEPT ![task] = @ \cup {c}] ELSE engine
    /\ traces' = IF capture THEN [traces EXCEPT ![task] = @ \cup {c}] ELSE traces
    /\ UNCHANGED <<pc, runVars, attemptVars, outcome, sideVars, claudeVars, session, countVars>>

\* proc.wait returns.
ClaudeExits(code) ==
    /\ pc = "solve" /\ attempt \in claudes
    /\ claudes' = claudes \ {attempt}
    /\ outcome' = code
    /\ pc' = "exitProxy"
    /\ UNCHANGED <<runVars, attemptVars, sideVars, lost, diskVars, countVars>>

\* A claude-cli ends that is not waited for, of a signal or by itself.
OtherExits(c) ==
    /\ c \in claudes /\ ~(pc \in {"started", "solve"} /\ c = attempt)
    /\ claudes' = claudes \ {c}
    /\ UNCHANGED <<pc, runVars, attemptVars, outcome, sideVars, lost, diskVars, countVars>>

\* In "kill" terminate_process_tree has sent SIGTERM, and waits for ten seconds at
\* most.
Timeout ==
    /\ pc = "solve" /\ TimeLimit
    /\ outcome' = Timeout_exit_code
    /\ pc' = "kill"
    /\ UNCHANGED <<runVars, attemptVars, sideVars, claudeVars, diskVars, countVars>>

TreeKilled ==
    /\ pc = "kill"
    /\ claudes' = AfterTerminate
    /\ pc' = "exitProxy"
    /\ UNCHANGED <<runVars, attemptVars, outcome, sideVars, lost, diskVars, countVars>>

\* An exception in terminate_process_tree itself, Ctrl-C or an OSError of wait_procs,
\* of which run_task makes 1: SIGKILL is never sent.
KillCut ==
    /\ pc = "kill" /\ Fault
    /\ outcome' \in {Raised, 1}
    /\ lost' = lost \cup (claudes \cap {attempt})
    /\ pc' = "exitProxy"
    /\ UNCHANGED <<runVars, attemptVars, sideVars, claudes, diskVars, invocations, kills>>

\* An exception from outside, once the session is entered: everything is left in turn,
\* and claude-cli is killed unless the try is not yet entered.
Interrupt ==
    /\ pc \in {"clone", "started", "solve"} /\ Fault
    /\ outcome' = Raised
    /\ pc' = IF pc = "solve" THEN "kill" ELSE "exitProxy"
    /\ lost' = IF pc = "started" THEN lost \cup {attempt} ELSE lost
    /\ UNCHANGED <<runVars, attemptVars, sideVars, claudes, diskVars, invocations, kills>>

\* The engine answers a turn when its claude-cli does not wait for it any more: the
\* handler and the scraper log it all the same.
LateAnswer(scraped) ==
    /\ begun
    /\ pc \in {"exitProxy", "exitScraper", "exitServer"}
    /\ engine' = IF scraping /\ scraped THEN [engine EXCEPT ![task] = @ \cup {attempt}]
                                       ELSE engine
    /\ traces' = IF capture THEN [traces EXCEPT ![task] = @ \cup {attempt}] ELSE traces
    /\ UNCHANGED <<pc, runVars, attemptVars, outcome, sideVars, claudeVars, session, countVars>>

-----------------------------------------------------------------------------
(* VllmSession.__exit__, in the order of its stack *)

ExitProxy ==
    /\ pc = "exitProxy"
    /\ proxy' = 0
    /\ pc' = "exitScraper"
    /\ UNCHANGED <<runVars, attemptVars, outcome, servers, scraping, claudeVars, diskVars,
                   countVars>>

ExitScraper ==
    /\ pc = "exitScraper"
    /\ scraping' = FALSE
    /\ pc' = "exitServer"
    /\ UNCHANGED <<runVars, attemptVars, outcome, servers, proxy, claudeVars, diskVars, countVars>>

ExitServer ==
    /\ pc = "exitServer"
    /\ servers' = LeftAfterStop
    /\ pc' = IF outcome = Raised THEN "failed" ELSE "save"
    /\ UNCHANGED <<runVars, attemptVars, outcome, scraping, proxy, claudeVars, diskVars,
                   countVars>>

(* save_session_config: the file is truncated, then written *)

OpenSession ==
    /\ pc = "save"
    /\ session' = [session EXCEPT ![task] = Torn(attempt)]
    /\ pc' = "write"
    /\ UNCHANGED <<runVars, attemptVars, outcome, sideVars, claudeVars, engine, traces,
                   countVars>>

WriteSession ==
    /\ pc = "write"
    /\ session' = [session EXCEPT ![task] = [exit_code |-> outcome, attempt |-> attempt,
                                             capture |-> capture]]
    /\ pc' = "loop"
    /\ UNCHANGED <<runVars, attemptVars, outcome, sideVars, claudeVars, engine, traces,
                   countVars>>

\* An exception from outside on the way out: the rest of the stack is still left, but
\* the stop of the server is not begun again.
InterruptExit ==
    /\ pc \in {"exitProxy", "exitScraper"} /\ Fault
    /\ outcome' = Raised
    /\ pc' = IF pc = "exitProxy" THEN "exitScraper" ELSE "exitServer"
    /\ proxy' = IF pc = "exitProxy" THEN 0 ELSE proxy
    /\ scraping' = IF pc = "exitProxy" THEN scraping ELSE FALSE
    /\ UNCHANGED <<runVars, attemptVars, servers, claudeVars, diskVars, invocations, kills>>

InterruptEnd ==
    /\ pc \in {"exitServer", "save", "write", "loop"} /\ Fault
    /\ servers' \in IF pc = "exitServer" THEN {{}, servers} ELSE {servers}
    /\ Leave

-----------------------------------------------------------------------------
\* SIGKILL, SIGTERM, a crash of the machine's session: no handler runs.  The server is
\* in a session of its own and claude-cli is nobody's child now.
Kill ==
    /\ pc \notin {"out", "finished", "failed"} /\ kills < MaxKills
    /\ kills' = kills + 1
    /\ pc' = "failed" /\ scraping' = FALSE /\ proxy' = 0
    /\ lost' = lost \cup claudes
    /\ UNCHANGED <<runVars, attemptVars, outcome, servers, claudes, diskVars, invocations,
                   faults>>

Enter == StopLeftover \/ Launch \/ Ready \/ EnterScraper \/ EnterProxy

EnterRaises == PortBusy \/ NotReady \/ ProxyFails

Interrupted == InterruptEnter \/ Interrupt \/ KillCut \/ InterruptExit \/ InterruptEnd

Solve == StartClaude \/ CloneFails \/ EnterTry \/ Timeout \/ TreeKilled

Exit == ExitProxy \/ ExitScraper \/ ExitServer

HarnessStep == NextTask \/ LoopEnds \/ Enter \/ Solve \/ Exit \/ OpenSession \/ WriteSession

Claude == \/ \E code \in {0, 1} : ClaudeExits(code)
          \/ \E c \in claudes : OtherExits(c) \/ \E scraped \in BOOLEAN : ClaudeTurn(c, scraped)
          \/ \E scraped \in BOOLEAN : LateAnswer(scraped)

AllDone ==
    /\ pc \in {"out", "finished", "failed"} /\ invocations = MaxInvocations
    /\ UNCHANGED vars

Next == \/ \E cap \in Captures : Invoke(cap)
        \/ HarnessStep \/ EnterRaises \/ Interrupted \/ Claude \/ Kill \/ AllDone

Spec == Init /\ [][Next]_vars

\* main() runs on: every wait in it has a time limit.
FairSpec == Spec /\ WF_vars(HarnessStep)

-----------------------------------------------------------------------------
(* Properties *)

\* A solved task is left alone: no later step, of this invocation or another one, of
\* the harness or of a claude-cli it lost, changes one of its files.
SolvedStaysSolved ==
    [][\A i \in Tasks : session[i].exit_code = 0 =>
          /\ session'[i] = session[i] /\ engine'[i] = engine[i] /\ traces'[i] = traces[i]]_vars

\* The files of a task are of one attempt each, but for the rows of a claude-cli that
\* was lost and still has the address of the proxy: engine_metrics.jsonl of the last
\* attempt that came as far as its scraper, so that a session.json written after it
\* describes that attempt.  With --capture given each time the two files the loader
\* zips are of the same attempt, and of the one that solved the task.
FilesOfOneAttempt ==
    \A i \in Tasks :
        LET rows == engine[i] \ lost
            turns == traces[i] \ lost
        IN
        /\ \A a, b \in rows : a = b
        /\ \A a, b \in turns : a = b
        /\ session[i].exit_code >= 0 => \A a \in rows : a >= session[i].attempt
        /\ Captures = {TRUE} =>
              /\ rows # {} /\ turns # {} => rows = turns
              /\ session[i].exit_code = 0 => rows \cup turns \subseteq {session[i].attempt}

\* "starts a fresh vLLM server, metrics scraper, and proxy for each problem": a
\* claude-cli of this harness is served by the server of its own attempt.  And
\* nothing outlives an invocation that has run to its end, whatever the ones before
\* have left, or one that has failed: but for a claude-cli that was lost, to a kill
\* of the harness, to an exception before its try, or to one that cut its kill short.
FreshThenGone ==
    /\ pc \in {"started", "solve", "kill"} => servers = {attempt} /\ proxy = attempt /\ scraping
    /\ pc = "finished" /\ taken # {} => servers = {}
    /\ pc \in {"finished", "failed"} => claudes \subseteq lost

\* One task that fails does not take the others with it: when the loop has ended,
\* every task is solved or has been tried in this invocation, as many as it was
\* to take.
EveryTaskTried ==
    pc = "finished" =>
        /\ \A i \in taken : session[i].attempt > first /\ session[i].exit_code >= 0
        /\ \A i \in Tasks \ taken :
              session[i].exit_code = 0 \/ Cardinality(taken) = NumSamples

\* Every invocation comes to an end.
InvocationEnds == pc \notin {"out", "finished", "failed"} ~> pc \in {"finished", "failed"}
=============================================================================
