------------------------- MODULE CollectionRunProofs -------------------------
(***************************************************************************)
(* The files, processes and tasks of a capture run for any number of tasks,   *)
(* invocations, faults and kills.  The heart of it is Queued: the task in hand  *)
(* and those to come are unsolved and all different, and only they are written *)
(* to, by whichever claude-cli still has the address of the proxy.           *)
(***************************************************************************)
EXTENDS CollectionRun, FiniteSetTheorems, TLAPS

Entering == {"server", "launch", "boot", "scraper", "proxy"}
Working  == {"clone", "started", "solve", "kill", "exitProxy"}
Leaving  == {"exitScraper", "exitServer", "save", "write"}

\* There is a task in hand.
Active == pc \in Entering \cup Working \cup Leaving

Typed ==
    /\ queue \in Seq(Tasks) /\ task \in Tasks
    /\ attempt \in Nat /\ first \in Nat /\ first <= attempt
    /\ Active => first < attempt
    /\ pc \in Entering \cup Working \cup Leaving \cup {"out", "loop", "finished", "failed"}
    /\ DOMAIN engine = Tasks /\ DOMAIN traces = Tasks /\ DOMAIN session = Tasks
    /\ kills \in Nat
    /\ pc \in {"save", "write"} => outcome \in {0, 1, Timeout_exit_code}
    /\ outcome \in {Raised, 0, 1, Timeout_exit_code}

\* Of the tasks at hand and to come none is solved, and they are in order.
Queued ==
    /\ Active \/ pc = "loop" =>
          /\ \A k \in DOMAIN queue : ~Solved(queue[k])
          /\ \A j, k \in DOMAIN queue : j < k => queue[j] < queue[k]
    /\ Active => ~Solved(task) /\ \A k \in DOMAIN queue : task < queue[k]

Sides ==
    /\ proxy # 0 => pc \in Working
    /\ pc \in Working => proxy = attempt
    /\ pc \in Working \cup {"proxy", "exitScraper"} => scraping

\* What lives of vLLM, and of claude-cli but for those that were lost.
Processes ==
    /\ pc \in {"launch", "save", "write"} => servers = {}
    /\ pc \in Working \cup {"boot", "scraper", "proxy", "exitScraper", "exitServer"} =>
          servers = {attempt}
    /\ pc = "loop" /\ servers # {} => taken = {queue[k] : k \in DOMAIN queue}
    /\ pc = "finished" /\ taken # {} => servers = {}
    /\ claudes \subseteq lost \cup IF pc \in {"started", "solve", "kill"} THEN {attempt} ELSE {}

Single(files) == \A i \in Tasks : \A a, b \in files[i] \ lost : a = b

\* The files but for the rows of a claude-cli that was lost.
Files ==
    /\ Single(engine) /\ Single(traces)
    /\ \A i \in Tasks : session[i].attempt \in Nat /\ session[i].attempt <= attempt
    /\ \A i \in Tasks : session[i].exit_code >= 0 =>
          \A a \in engine[i] \ lost : a >= session[i].attempt
    /\ pc = "proxy" => engine[task] = {}
    /\ pc \in Working \cup Leaving =>
          /\ engine[task] \subseteq lost \cup {attempt}
          /\ capture => traces[task] \subseteq lost \cup {attempt}

\* And if --capture is given each time.
Matching ==
    Captures = {TRUE} =>
        /\ pc # "out" => capture
        /\ \A i \in Tasks :
              /\ engine[i] \ lost # {} /\ traces[i] \ lost # {} =>
                    engine[i] \ lost = traces[i] \ lost
              /\ Solved(i) => engine[i] \cup traces[i] \subseteq lost \cup {session[i].attempt}

Done(i) == session[i].attempt > first /\ session[i].exit_code >= 0

\* Every task taken has been tried, is in hand or is to come.
Tried ==
    pc \in Entering \cup Working \cup Leaving \cup {"loop", "finished"} =>
        /\ \A i \in taken : \/ Done(i)
                            \/ \E k \in DOMAIN queue : i = queue[k]
                            \/ Active /\ i = task
        /\ pc = "finished" => queue = <<>>
        /\ taken \subseteq Tasks
        /\ \A i \in Tasks \ taken : Solved(i) \/ Cardinality(taken) = NumSamples

Inv == Typed /\ Queued /\ Sides /\ Processes /\ Files /\ Matching /\ Tried

-----------------------------------------------------------------------------
(* What an invocation is given *)

LEMMA SizeOfRange ==
    ASSUME NEW n \in Nat, NEW q \in [1 .. n -> Tasks],
           \A j, k \in 1 .. n : j < k => q[j] < q[k]
    PROVE  Cardinality({q[k] : k \in 1 .. n}) = n
<1> DEFINE S == {q[k] : k \in 1 .. n}
<1>1. q \in Injection(1 .. n, S)
  BY DEF Tasks, Injection, IsInjective
<1>2. q \in Surjection(1 .. n, S)
  BY DEF Surjection
<1>3. ExistsBijection(1 .. n, S)
  BY <1>1, <1>2 DEF ExistsBijection, Bijection
<1>q. QED BY <1>3, FS_CountingElements

-----------------------------------------------------------------------------
(* Steps that change no file *)

\* The entry of a session, but for the files.
LEMMA EnterKeeps ==
    ASSUME Inv, StopLeftover \/ Launch \/ Ready
    PROVE  Inv'
<1> USE DEF StopLeftover, Launch, Ready, LeftAfterStop, runVars, attemptVars, claudeVars,
            sideVars, diskVars, countVars, Active, Entering, Working, Leaving
<1>a. \A i : Solved(i)' <=> Solved(i) BY DEF Solved
<1>1. Typed' BY DEF Inv, Typed
<1>2. Queued' BY <1>a DEF Inv, Queued
<1>3. Sides' BY DEF Inv, Sides
<1>4. Processes' BY DEF Inv, Typed, Processes
<1>5. Files' BY DEF Inv, Typed, Files, Single
<1>6. Matching' BY <1>a DEF Inv, Typed, Matching
<1>7. Tried' BY <1>a DEF Inv, Typed, Tried, Done
<1>q. QED BY <1>1, <1>2, <1>3, <1>4, <1>5, <1>6, <1>7 DEF Inv

\* The invocation ends, well or not.
LEMMA RaiseKeeps ==
    ASSUME Inv, PortBusy \/ NotReady \/ InterruptEnter \/ InterruptEnd \/
                LoopEnds
    PROVE  Inv'
<1> USE DEF PortBusy, NotReady, InterruptEnter, InterruptEnd, LoopEnds, Fault,
            Leave, runVars, attemptVars, claudeVars, sideVars, diskVars, countVars, Active,
            Entering, Working, Leaving
<1>a. \A i : Solved(i)' <=> Solved(i) BY DEF Solved
<1>1. Typed' BY DEF Inv, Typed
<1>2. Queued' BY <1>a DEF Inv, Queued
<1>3. Sides' BY DEF Inv, Sides
<1>4. Processes' BY DEF Inv, Typed, Processes
<1>5. Files' BY DEF Inv, Typed, Files, Single
<1>6. Matching' BY <1>a DEF Inv, Typed, Matching
<1>7. Tried' BY <1>a DEF Inv, Typed, Tried, Done
<1>q. QED BY <1>1, <1>2, <1>3, <1>4, <1>5, <1>6, <1>7 DEF Inv

\* The clone, and the end of claude-cli.
LEMMA SolveKeeps ==
    ASSUME Inv, StartClaude \/ EnterTry \/ CloneFails \/ Timeout \/ TreeKilled \/
                (\E c \in claudes : OtherExits(c)) \/
                (\E x \in {0, 1} : ClaudeExits(x))
    PROVE  Inv'
<1> USE DEF StartClaude, EnterTry, CloneFails, Timeout, TreeKilled, OtherExits, ClaudeExits,
            AfterTerminate, CloneFailure, TimeLimit, runVars, attemptVars, claudeVars, sideVars,
            diskVars, countVars, Active, Entering, Working, Leaving
<1>a. \A i : Solved(i)' <=> Solved(i) BY DEF Solved
<1>1. Typed' BY DEF Inv, Typed
<1>2. Queued' BY <1>a DEF Inv, Queued
<1>3. Sides' BY DEF Inv, Sides
<1>4. Processes' BY DEF Inv, Typed, Processes
<1>5. Files' BY DEF Inv, Typed, Files, Single
<1>6. Matching' BY <1>a DEF Inv, Typed, Matching
<1>7. Tried' BY <1>a DEF Inv, Typed, Tried, Done
<1>q. QED BY <1>1, <1>2, <1>3, <1>4, <1>5, <1>6, <1>7 DEF Inv

\* A claude-cli is lost: the rows that count are fewer.
LEMMA LoseKeeps ==
    ASSUME Inv, Interrupt \/ KillCut \/ Kill
    PROVE  Inv'
<1> USE DEF Interrupt, KillCut, Kill, Fault, runVars, attemptVars, claudeVars, sideVars,
            diskVars, countVars, Active, Entering, Working, Leaving
<1>a. \A i : Solved(i)' <=> Solved(i) BY DEF Solved
<1>b. lost \subseteq lost' /\ UNCHANGED <<engine, traces, session, attempt, task, capture>>
  OBVIOUS
<1>1. Typed' BY DEF Inv, Typed
<1>2. Queued' BY <1>a DEF Inv, Queued
<1>3. Sides' BY DEF Inv, Sides
<1>4. Processes' BY DEF Inv, Typed, Processes
<1>5. Files' BY DEF Inv, Typed, Files, Single
<1>6. Matching'
  <2>1. \A i \in Tasks : engine[i] \ lost' # {} => engine[i] \ lost # {} BY <1>b
  <2>2. \A i \in Tasks : traces[i] \ lost' # {} => traces[i] \ lost # {} BY <1>b
  <2>3. \A i \in Tasks :
          engine[i] \ lost = traces[i] \ lost => engine[i] \ lost' = traces[i] \ lost'
    BY <1>b
  <2>q. QED BY <1>a, <1>b, <2>1, <2>2, <2>3 DEF Inv, Typed, Matching
<1>7. Tried' BY <1>a DEF Inv, Typed, Tried, Done
<1>q. QED BY <1>1, <1>2, <1>3, <1>4, <1>5, <1>6, <1>7 DEF Inv

\* The session is left.
LEMMA LeaveKeeps ==
    ASSUME Inv, ExitProxy \/ ExitScraper \/ ExitServer \/ InterruptExit
    PROVE  Inv'
<1> USE DEF ExitProxy, ExitScraper, ExitServer, InterruptExit, Fault, LeftAfterStop,
            runVars, attemptVars, claudeVars, sideVars, diskVars, countVars, Active, Entering,
            Working, Leaving
<1>a. \A i : Solved(i)' <=> Solved(i) BY DEF Solved
<1>1. Typed' BY DEF Inv, Typed
<1>2. Queued' BY <1>a DEF Inv, Queued
<1>3. Sides' BY DEF Inv, Sides
<1>4. Processes' BY DEF Inv, Typed, Processes
<1>b. /\ UNCHANGED <<engine, traces, session, attempt, task, capture, lost>>
      /\ pc' # "proxy" /\ pc \in Working \cup Leaving
  OBVIOUS
<1>5. Files' BY ONLY Inv, <1>b DEF Inv, Files, Single
<1>6. Matching' BY <1>a DEF Inv, Typed, Matching
<1>7. Tried' BY <1>a DEF Inv, Typed, Tried, Done
<1>q. QED BY <1>1, <1>2, <1>3, <1>4, <1>5, <1>6, <1>7 DEF Inv

\* Nothing happens.
LEMMA StutterKeeps ==
    ASSUME Inv, UNCHANGED vars
    PROVE  Inv'
<1> USE DEF vars, runVars, attemptVars, claudeVars, sideVars, diskVars, countVars, Active,
            Entering, Working, Leaving
<1>a. \A i : Solved(i)' <=> Solved(i) BY DEF Solved
<1>1. Typed' BY DEF Inv, Typed
<1>2. Queued' BY <1>a DEF Inv, Queued
<1>3. Sides' BY DEF Inv, Sides
<1>4. Processes' BY DEF Inv, Typed, Processes
<1>5. Files' BY DEF Inv, Typed, Files, Single
<1>6. Matching' BY <1>a DEF Inv, Typed, Matching
<1>7. Tried' BY <1>a DEF Inv, Typed, Tried, Done
<1>q. QED BY <1>1, <1>2, <1>3, <1>4, <1>5, <1>6, <1>7 DEF Inv

\* The next task is smaller than the ones after it, and unsolved.
LEMMA NextTaskKeeps == ASSUME Inv, NextTask PROVE Inv'
<1> USE DEF NextTask, claudeVars, sideVars, diskVars, countVars, Active, Entering, Working,
            Leaving
<1>a. \A i : Solved(i)' <=> Solved(i) BY DEF Solved
<1>b. /\ task' = queue[1] /\ queue[1] \in Tasks /\ 1 \in DOMAIN queue
      /\ queue' \in Seq(Tasks)
      /\ \A k \in DOMAIN queue' : k + 1 \in DOMAIN queue /\ queue'[k] = queue[k + 1] /\ 1 < k + 1
      /\ \A j, k \in DOMAIN queue' : j < k => j + 1 < k + 1
      /\ \A k \in DOMAIN queue : k = 1 \/ (k - 1 \in DOMAIN queue' /\ queue'[k - 1] = queue[k])
  BY DEF Inv, Typed
<1>1. Typed' BY <1>b DEF Inv, Typed
<1>2. Queued' BY <1>a, <1>b DEF Inv, Queued
<1>3. Sides' BY DEF Inv, Sides
<1>4. Processes' BY DEF Inv, Typed, Processes
<1>5. Files' BY DEF Inv, Typed, Files, Single
<1>6. Matching' BY <1>a DEF Inv, Typed, Matching
<1>7. Tried'
  <2>1. \A i \in taken : Done(i) \/ \E k \in DOMAIN queue : i = queue[k]
    BY DEF Inv, Tried
  <2>2. \A i : (\E k \in DOMAIN queue : i = queue[k]) =>
                  (\E k \in DOMAIN queue' : i = queue'[k]) \/ i = task'
    BY <1>b
  <2>q. QED BY <1>a, <2>1, <2>2 DEF Inv, Typed, Tried, Done
<1>q. QED BY <1>1, <1>2, <1>3, <1>4, <1>5, <1>6, <1>7 DEF Inv

\* get_dataset gives unsolved tasks, in order; with none left out they are
\* all unsolved ones, and else there are NumSamples.
LEMMA InvokeKeeps == ASSUME Inv, NEW cap \in Captures, Invoke(cap) PROVE Inv'
<1> USE DEF Invoke, attemptVars, claudeVars, sideVars, diskVars, Active, Entering, Working,
            Leaving
<1>a. \A i : Solved(i)' <=> Solved(i) BY DEF Solved
<1>0. PICK n \in 0 .. NumTasks : \E q \in [1 .. n -> Tasks] : Pending(q) /\ queue' = q
  OBVIOUS
<1>b. PICK q \in [1 .. n -> Tasks] : Pending(q) /\ queue' = q
  BY <1>0
<1>c. n \in Nat /\ queue' \in Seq(Tasks) /\ DOMAIN queue' = 1 .. n /\ Len(queue') = n
  BY <1>b, RunConstants
<1>d. /\ \A j, k \in 1 .. n : j < k => q[j] < q[k]
      /\ \A k \in 1 .. n : ~Solved(q[k])
      /\ taken' = {q[k] : k \in 1 .. n}
      /\ \A i \in Tasks \ taken' : Solved(i) \/ n = NumSamples
  BY <1>b, <1>c DEF Pending, Unsolved
<1>1. Typed' BY <1>c DEF Inv, Typed
<1>2. Queued' BY <1>a, <1>b, <1>c, <1>d DEF Inv, Queued
<1>3. Sides' BY DEF Inv, Sides
<1>4. Processes' BY DEF Inv, Typed, Processes
<1>5. Files' BY DEF Inv, Typed, Files, Single
<1>6. Matching' BY <1>a DEF Inv, Typed, Matching
<1>7. Tried'
  <2>1. Cardinality(taken') = n BY <1>c, <1>d, SizeOfRange
  <2>2. taken' \subseteq Tasks /\ \A i \in taken' : \E k \in DOMAIN queue' : i = queue'[k]
    BY <1>b, <1>c, <1>d
  <2>q. QED BY <1>a, <1>d, <2>1, <2>2 DEF Tried
<1>q. QED BY <1>1, <1>2, <1>3, <1>4, <1>5, <1>6, <1>7 DEF Inv

-----------------------------------------------------------------------------
(* Steps that change a file *)

LEMMA EnterScraperKeeps == ASSUME Inv, EnterScraper PROVE Inv'
<1> USE DEF EnterScraper, FreshEngine, runVars, attemptVars, claudeVars, countVars, Active,
            Entering, Working, Leaving
<1>a. \A i : Solved(i)' <=> Solved(i) BY DEF Solved
<1>b. ~Solved(task) /\ task \in Tasks BY DEF Inv, Typed, Queued
<1>c. /\ DOMAIN engine' = Tasks /\ engine'[task] = {}
      /\ \A i \in Tasks : i # task => engine'[i] = engine[i]
  BY <1>b DEF Inv, Typed
<1>1. Typed' BY <1>c DEF Inv, Typed
<1>2. Queued' BY <1>a DEF Inv, Queued
<1>3. Sides' BY DEF Inv, Sides
<1>4. Processes' BY DEF Inv, Typed, Processes
<1>5. Files' BY <1>c DEF Inv, Typed, Files, Single
<1>6. Matching' BY <1>a, <1>b, <1>c DEF Inv, Typed, Matching
<1>7. Tried' BY <1>a DEF Inv, Typed, Tried, Done
<1>q. QED BY <1>1, <1>2, <1>3, <1>4, <1>5, <1>6, <1>7 DEF Inv

LEMMA EnterProxyKeeps == ASSUME Inv, EnterProxy \/ ProxyFails PROVE Inv'
<1> USE DEF EnterProxy, ProxyFails, Fault, runVars, attemptVars, claudeVars, countVars, Active,
            Entering, Working, Leaving
<1>a. \A i : Solved(i)' <=> Solved(i) BY DEF Solved
<1>b. ~Solved(task) /\ task \in Tasks BY DEF Inv, Typed, Queued
<1>c. /\ DOMAIN traces' = Tasks /\ (capture => traces'[task] = {})
      /\ \A i \in Tasks : traces'[i] = traces[i] \/ traces'[i] = {}
      /\ \A i \in Tasks : i # task => traces'[i] = traces[i]
  BY <1>b DEF Inv, Typed, FreshTraces
<1>1. Typed' BY <1>c DEF Inv, Typed
<1>2. Queued' BY <1>a DEF Inv, Queued
<1>3. Sides' BY DEF Inv, Sides
<1>4. Processes' BY DEF Inv, Typed, Processes
<1>5. Files' BY <1>c DEF Inv, Typed, Files, Single
<1>6. Matching' BY <1>a, <1>b, <1>c DEF Inv, Typed, Matching
<1>7. Tried' BY <1>a DEF Inv, Typed, Tried, Done
<1>q. QED BY <1>1, <1>2, <1>3, <1>4, <1>5, <1>6, <1>7 DEF Inv

\* A turn is a row of the attempt in hand, or of a claude-cli that was lost, and of
\* the task in hand in any case.
LEMMA TurnKeeps ==
    ASSUME Inv, NEW scraped \in BOOLEAN,
           (\E c \in claudes : ClaudeTurn(c, scraped)) \/ LateAnswer(scraped)
    PROVE  Inv'
<1> USE DEF runVars, attemptVars, claudeVars, sideVars, countVars, Active, Entering, Working,
            Leaving
<1>a. UNCHANGED <<pc, runVars, attemptVars, outcome, sideVars, claudeVars, session, countVars>>
  BY DEF ClaudeTurn, LateAnswer
<1>b. \A i : Solved(i)' <=> Solved(i) BY <1>a DEF Solved
<1>c. pc \in Working \cup Leaving /\ ~Solved(task) /\ task \in Tasks
  BY DEF ClaudeTurn, LateAnswer, Inv, Typed, Queued, Sides
<1>d. PICK c : /\ c \in lost \cup {attempt}
               /\ engine' \in {engine, [engine EXCEPT ![task] = @ \cup {c}]}
               /\ traces' = IF capture THEN [traces EXCEPT ![task] = @ \cup {c}] ELSE traces
  <2>1. CASE LateAnswer(scraped) BY <2>1 DEF LateAnswer
  <2>2. CASE \E c \in claudes : ClaudeTurn(c, scraped)
    BY <2>2 DEF ClaudeTurn, Inv, Processes
  <2>q. QED BY <2>1, <2>2
<1>e. /\ DOMAIN engine' = Tasks /\ DOMAIN traces' = Tasks
      /\ \A i \in Tasks : i # task => engine'[i] = engine[i] /\ traces'[i] = traces[i]
      /\ engine'[task] = engine[task] \/ engine'[task] = engine[task] \cup {c}
      /\ traces'[task] = IF capture THEN traces[task] \cup {c} ELSE traces[task]
  BY <1>c, <1>d DEF Inv, Typed
<1>1. Typed' BY <1>a, <1>e DEF Inv, Typed
<1>2. Queued' BY <1>a, <1>b DEF Inv, Queued
<1>3. Sides' BY <1>a DEF Inv, Sides
<1>4. Processes' BY <1>a DEF Inv, Typed, Processes
<1>f. /\ engine'[task] \subseteq lost \cup {attempt}
      /\ capture => traces'[task] \subseteq lost \cup {attempt}
  BY <1>c, <1>d, <1>e DEF Inv, Files
<1>g. /\ engine'[task] \ lost \subseteq {attempt}
      /\ capture => traces'[task] \ lost \subseteq {attempt}
  BY <1>f
<1>5. Files'
  <2>2. Single(engine)' BY <1>a, <1>e, <1>g DEF Inv, Files, Single
  <2>3. Single(traces)' BY <1>a, <1>e, <1>g DEF Inv, Files, Single
  <2>4. \A i \in Tasks : session[i].attempt \in Nat /\ session[i].attempt <= attempt
    BY DEF Inv, Files
  <2>5. \A i \in Tasks : session[i].exit_code >= 0 =>
            \A a \in engine'[i] \ lost : a >= session[i].attempt
    BY <1>e, <1>g, <2>4 DEF Inv, Typed, Files
  <2>q. QED BY <1>a, <1>c, <1>f, <2>2, <2>3, <2>4, <2>5 DEF Files
<1>6. Matching'
  <2> SUFFICES ASSUME Captures = {TRUE} PROVE Matching'
    BY <1>a, <1>c DEF Inv, Matching
  <2>1. capture BY <1>c DEF Inv, Matching
  <2>2. /\ engine'[task] \ lost # {} => engine'[task] \ lost = {attempt}
        /\ traces'[task] \ lost # {} => traces'[task] \ lost = {attempt}
    BY <1>g, <2>1
  <2>3. \A i \in Tasks : i # task =>
          /\ engine'[i] \ lost # {} /\ traces'[i] \ lost # {} =>
                engine'[i] \ lost = traces'[i] \ lost
          /\ Solved(i) => engine'[i] \cup traces'[i] \subseteq lost \cup {session[i].attempt}
    BY <1>e DEF Inv, Matching
  <2>q. QED BY <1>a, <1>b, <1>c, <2>1, <2>2, <2>3 DEF Matching
<1>7. Tried' BY <1>a, <1>b DEF Inv, Typed, Tried, Done
<1>q. QED BY <1>1, <1>2, <1>3, <1>4, <1>5, <1>6, <1>7 DEF Inv

\* session.json is written for the task in hand, first as a torn file.
LEMMA SessionKeeps == ASSUME Inv, OpenSession \/ WriteSession PROVE Inv'
<1> USE DEF OpenSession, WriteSession, runVars, attemptVars, claudeVars, sideVars, countVars, Active,
            Entering, Working, Leaving
<1>a. task \in Tasks /\ ~Solved(task) /\ pc \in {"save", "write"} BY DEF Inv, Typed, Queued
<1>b. /\ DOMAIN session' = Tasks
      /\ \A i \in Tasks : i # task => session'[i] = session[i] /\ (Solved(i)' <=> Solved(i))
      /\ session'[task] = IF pc = "save" THEN Torn(attempt)
                          ELSE [exit_code |-> outcome, attempt |-> attempt, capture |-> capture]
  BY <1>a DEF Inv, Typed, Solved
<1>c. /\ session'[task].attempt = attempt
      /\ pc = "save" => session'[task].exit_code = -2 /\ ~Solved(task)'
      /\ pc = "write" => session'[task].exit_code >= 0
  BY <1>b, <1>a DEF Torn, Inv, Typed, Timeout_exit_code, Solved
<1>1. Typed' BY <1>a, <1>b DEF Inv, Typed
<1>2. Queued'
  <2>0. \A k \in DOMAIN queue : task < queue[k] BY <1>a DEF Inv, Queued
  <2>1. \A k \in DOMAIN queue : queue[k] \in Tasks /\ queue[k] # task
    <3>1. \A k \in DOMAIN queue : queue[k] \in Tasks BY DEF Inv, Typed
    <3>2. \A i, j \in Tasks : i < j => i # j BY RunConstants DEF Tasks
    <3>q. QED BY <1>a, <2>0, <3>1, <3>2
  <2>2. \A k \in DOMAIN queue : ~Solved(queue[k])'
    BY <1>a, <1>b, <2>1 DEF Inv, Queued
  <2>q. QED BY <1>a, <1>c, <2>2 DEF Inv, Queued
<1>3. Sides' BY <1>a DEF Inv, Sides
<1>4. Processes' BY <1>a DEF Inv, Typed, Processes
<1>5. Files' BY <1>a, <1>b, <1>c DEF Inv, Typed, Files, Single
<1>6. Matching' BY <1>a, <1>b, <1>c DEF Inv, Typed, Matching, Files
<1>7. Tried' BY <1>a, <1>b, <1>c DEF Inv, Typed, Tried, Done
<1>q. QED BY <1>1, <1>2, <1>3, <1>4, <1>5, <1>6, <1>7 DEF Inv

-----------------------------------------------------------------------------
LEMMA InitInv == ASSUME Init PROVE Inv
<1> USE DEF Init, Active, Entering, Working, Leaving
<1>1. Typed BY RunConstants DEF Typed, Tasks
<1>2. Queued /\ Sides /\ Processes BY DEF Queued, Sides, Processes
<1>3. Files BY DEF Files, Single, NoSession
<1>4. Matching BY DEF Matching, Solved, NoSession
<1>5. Tried BY DEF Tried
<1>q. QED BY <1>1, <1>2, <1>3, <1>4, <1>5 DEF Inv

LEMMA NextKeeps == ASSUME Inv, [Next]_vars PROVE Inv'
<1>1. CASE HarnessStep
  BY <1>1, NextTaskKeeps, RaiseKeeps, EnterKeeps, EnterScraperKeeps, EnterProxyKeeps, SolveKeeps,
     LeaveKeeps, SessionKeeps
     DEF HarnessStep, Enter, Solve, Exit
<1>2. CASE EnterRaises \/ Interrupted \/ Kill
  BY <1>2, RaiseKeeps, EnterProxyKeeps, LoseKeeps, LeaveKeeps DEF EnterRaises, Interrupted
<1>3. CASE Claude
  BY <1>3, SolveKeeps, TurnKeeps DEF Claude
<1>4. CASE AllDone \/ UNCHANGED vars
  BY <1>4, StutterKeeps DEF AllDone
<1>5. CASE \E cap \in Captures : Invoke(cap)
  BY <1>5, InvokeKeeps
<1>q. QED BY <1>1, <1>2, <1>3, <1>4, <1>5 DEF Next

THEOREM Invariance == Spec => []Inv
  BY InitInv, NextKeeps, PTL DEF Spec

-----------------------------------------------------------------------------
\* The files of a task are of one attempt, and those of a solved one of the attempt
\* that solved it, but for a claude-cli that was lost: for any number of tasks,
\* invocations, interrupts and kills.
THEOREM OneAttempt == Spec => []FilesOfOneAttempt
<1>1. Inv => FilesOfOneAttempt
  <2> SUFFICES ASSUME Inv PROVE FilesOfOneAttempt OBVIOUS
  <2>q. QED BY DEF Inv, Files, Matching, Single, Solved, FilesOfOneAttempt
<1>q. QED BY <1>1, Invariance, PTL

\* Each claude-cli has the server, scraper and proxy of its own attempt, and what a
\* run has started is gone when it has run to its end, but for a claude-cli that was
\* lost.
THEOREM FreshAndGone == Spec => []FreshThenGone
<1>1. Inv => FreshThenGone
  BY DEF Inv, Sides, Processes, FreshThenGone, Entering, Working, Leaving
<1>q. QED BY <1>1, Invariance, PTL

\* No task is forgotten over the failure of another one.
THEOREM AllTried == Spec => []EveryTaskTried
<1>1. Inv => EveryTaskTried
  <2> SUFFICES ASSUME Inv, pc = "finished" PROVE EveryTaskTried BY DEF EveryTaskTried
  <2>1. queue = <<>> /\ ~Active
    BY DEF Inv, Tried, Active, Entering, Working, Leaving
  <2>2. \A i \in taken : Done(i) BY <2>1 DEF Inv, Tried
  <2>q. QED BY <2>2 DEF Inv, Tried, Done, Solved, EveryTaskTried
<1>q. QED BY <1>1, Invariance, PTL

\* What a solved task has on disk never changes, not by a claude-cli of a harness
\* that was killed either.
THEOREM SolvedIsFinal == Spec => SolvedStaysSolved
<1>1. Inv /\ [Next]_vars =>
        [\A i \in Tasks : session[i].exit_code = 0 =>
            /\ session'[i] = session[i] /\ engine'[i] = engine[i] /\ traces'[i] = traces[i]]_vars
  <2> SUFFICES ASSUME Inv, Next, NEW i \in Tasks, Solved(i)
               PROVE  session'[i] = session[i] /\ engine'[i] = engine[i] /\ traces'[i] = traces[i]
    BY DEF Solved
  <2> USE DEF Active, Entering, Working, Leaving
  <2>0. DOMAIN engine = Tasks /\ DOMAIN traces = Tasks /\ DOMAIN session = Tasks
    BY DEF Inv, Typed
  <2>1. Active => i # task BY DEF Inv, Queued
  <2>2. CASE EnterScraper \/ EnterProxy \/ ProxyFails
    BY <2>0, <2>1, <2>2 DEF EnterScraper, EnterProxy, ProxyFails, FreshEngine, FreshTraces
  <2>3. CASE OpenSession \/ WriteSession
    BY <2>0, <2>1, <2>3 DEF OpenSession, WriteSession
  <2>4. CASE Claude
    <3>1. pc \in Working \cup Leaving \/ UNCHANGED <<engine, traces, session>>
      BY <2>4 DEF Claude, ClaudeTurn, LateAnswer, ClaudeExits, OtherExits, Inv, Sides, diskVars
    <3>q. QED BY <2>0, <2>1, <2>4, <3>1
              DEF Claude, ClaudeTurn, LateAnswer, ClaudeExits, OtherExits, diskVars
  <2>5. CASE UNCHANGED diskVars BY <2>5 DEF diskVars
  <2>6. \/ EnterScraper \/ EnterProxy \/ ProxyFails \/ OpenSession \/ WriteSession \/ Claude
        \/ UNCHANGED diskVars
    BY DEF Next, HarnessStep, Enter, Solve, Exit, EnterRaises, Interrupted, AllDone, Invoke,
           NextTask, LoopEnds, Leave, StopLeftover, PortBusy, Launch, Ready, NotReady,
           InterruptEnter, StartClaude, EnterTry, CloneFails, Timeout, TreeKilled, Interrupt,
           KillCut, ExitProxy, ExitScraper,
           ExitServer, InterruptExit, InterruptEnd, Kill, vars, diskVars
  <2>q. QED BY <2>2, <2>3, <2>4, <2>5, <2>6
<1>q. QED BY <1>1, Invariance, PTL DEF Spec, SolvedStaysSolved

=============================================================================
