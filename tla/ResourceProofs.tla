--------------------------- MODULE ResourceProofs ---------------------------
(***************************************************************************)
(* Theorems about the two resources both programs hold around a run, and must *)
(* give back however it ends: NVML, which all callers of the process share    *)
(* (NvmlRefcount), and the tree of processes of vLLM (ServerLifecycle).       *)
(***************************************************************************)
EXTENDS NvmlRefcount, ServerLifecycle, TLAPS

-----------------------------------------------------------------------------
(* NVML, for any number of samples and any draw of power.  The count is that   *)
(* of the users and of what open_gpu_handles has leaked; which of the users    *)
(* there can be follows from the place in the program.                        *)

\* Who can be a user at which call.
Places ==
    /\ inside => \/ program = Replay /\ at \in {1, 8}
                 \/ program = Collect /\ at \in {1, 3, 6}
    /\ handles => \/ program = Replay /\ at \in {4, 5}
                  \/ program = Collect /\ at \in 3 .. 7
    /\ monitor => program = Replay /\ at \in 3 .. 7
    /\ (scraper /\ ~late) => program = Collect /\ at = 5
    /\ leaked \in {0, 1}
    /\ leaked = 1 => \/ program = Replay /\ at > 3
                     \/ program = Collect /\ at > 2

Counted == Users <= count /\ count <= Users + leaked

Sampling ==
    /\ thread # "none" => program = Replay /\ at > 2
    /\ (thread \in {"enumerate", "check", "query"} /\ ~late) => monitor
    /\ (program = Replay /\ at > 7 /\ ~late) => watts_measured = Measured

Inv == TypeOK /\ Places /\ Counted /\ Sampling

-----------------------------------------------------------------------------
LEMMA CallsOfReplay ==
    ASSUME TypeOK, program = Replay
    PROVE  /\ Calls("context") <=> at \in {1, 8}
           /\ Calls("monitor") <=> at = 2
           /\ Calls("open") <=> at = 3
           /\ Calls("draw") <=> at = 4
           /\ Calls("close") <=> at = 5
           /\ Calls("stop") <=> at = 6
           /\ Calls("join") <=> at = 7
           /\ ~Calls("scrape") /\ ~Calls("unscrape")
           /\ at \in 1 .. 9 /\ Len(program) = 8
  BY DEF TypeOK, Calls, Replay

LEMMA CallsOfCollect ==
    ASSUME TypeOK, program = Collect
    PROVE  /\ Calls("context") <=> at \in {1, 3, 6}
           /\ Calls("open") <=> at = 2
           /\ Calls("scrape") <=> at = 4
           /\ Calls("unscrape") <=> at = 5
           /\ Calls("close") <=> at = 7
           /\ ~Calls("monitor") /\ ~Calls("stop") /\ ~Calls("join") /\ ~Calls("draw")
           /\ at \in 1 .. 8 /\ Len(program) = 7
  BY DEF TypeOK, Calls, Collect

LEMMA ProgramsDiffer == Replay # Collect
  BY DEF Replay, Collect

LEMMA NextCall ==
    ASSUME TypeOK, NEW call, Calls(call)
    PROVE  at + 1 \in 1 .. Len(program) + 1
  BY DEF TypeOK, Calls, Replay, Collect

LEMMA EnterContextKeeps == Inv /\ EnterContext => Inv'
<1> SUFFICES ASSUME Inv, EnterContext PROVE Inv' OBVIOUS
<1> USE DEF Inv, EnterContext, mainVars, monitorVars, historyVars
<1>0. at' \in 1 .. Len(program') + 1 BY NextCall DEF TypeOK
<1>a. count' \in Nat /\ leaked' \in Nat BY DEF TypeOK
<1>1. TypeOK' BY <1>0, <1>a DEF TypeOK
<1>2. Places' BY CallsOfReplay, CallsOfCollect, ProgramsDiffer
                  DEF TypeOK, Places
<1>3. Counted' BY CallsOfReplay, CallsOfCollect, ProgramsDiffer
                  DEF TypeOK, Places, Counted, Users
<1>4. Sampling' BY CallsOfReplay, CallsOfCollect, ProgramsDiffer
                  DEF TypeOK, Places, Sampling, Measured
<1>q. QED BY <1>1, <1>2, <1>3, <1>4

LEMMA LeaveContextKeeps == Inv /\ LeaveContext => Inv'
<1> SUFFICES ASSUME Inv, LeaveContext PROVE Inv' OBVIOUS
<1> USE DEF Inv, LeaveContext, mainVars, monitorVars, historyVars
<1>0. at' \in 1 .. Len(program') + 1 BY NextCall DEF TypeOK
<1>a. count' \in Nat /\ leaked' \in Nat BY DEF TypeOK, Shutdown
<1>1. TypeOK' BY <1>0, <1>a DEF TypeOK
<1>2. Places' BY CallsOfReplay, CallsOfCollect, ProgramsDiffer
                  DEF TypeOK, Places, Shutdown
<1>3. Counted' BY CallsOfReplay, CallsOfCollect, ProgramsDiffer
                  DEF TypeOK, Places, Counted, Users, Shutdown
<1>4. Sampling' BY CallsOfReplay, CallsOfCollect, ProgramsDiffer
                  DEF TypeOK, Places, Sampling, Measured, Shutdown
<1>q. QED BY <1>1, <1>2, <1>3, <1>4

LEMMA EnterMonitorKeeps == Inv /\ EnterMonitor => Inv'
<1> SUFFICES ASSUME Inv, EnterMonitor PROVE Inv' OBVIOUS
<1> USE DEF Inv, EnterMonitor, mainVars, monitorVars, historyVars
<1>0. at' \in 1 .. Len(program') + 1 BY NextCall DEF TypeOK
<1>a. count' \in Nat /\ leaked' \in Nat BY DEF TypeOK
<1>1. TypeOK' BY <1>0, <1>a DEF TypeOK
<1>2. Places' BY CallsOfReplay, CallsOfCollect, ProgramsDiffer
                  DEF TypeOK, Places
<1>3. Counted' BY CallsOfReplay, CallsOfCollect, ProgramsDiffer
                  DEF TypeOK, Places, Counted, Users
<1>4. Sampling' BY CallsOfReplay, CallsOfCollect, ProgramsDiffer
                  DEF TypeOK, Places, Sampling, Measured
<1>q. QED BY <1>1, <1>2, <1>3, <1>4

LEMMA OpenHandlesKeeps == Inv /\ OpenHandles => Inv'
<1> SUFFICES ASSUME Inv, OpenHandles PROVE Inv' OBVIOUS
<1> USE DEF Inv, OpenHandles, mainVars, monitorVars, historyVars
<1>0. at' \in 1 .. Len(program') + 1 BY NextCall DEF TypeOK
<1>a. count' \in Nat /\ leaked' \in Nat BY DEF TypeOK
<1>1. TypeOK' BY <1>0, <1>a DEF TypeOK
<1>2. Places' BY CallsOfReplay, CallsOfCollect, ProgramsDiffer
                  DEF TypeOK, Places
<1>3. Counted' BY CallsOfReplay, CallsOfCollect, ProgramsDiffer
                  DEF TypeOK, Places, Counted, Users
<1>4. Sampling' BY CallsOfReplay, CallsOfCollect, ProgramsDiffer
                  DEF TypeOK, Places, Sampling, Measured
<1>q. QED BY <1>1, <1>2, <1>3, <1>4

LEMMA DrawKeeps == Inv /\ Draw => Inv'
<1> SUFFICES ASSUME Inv, Draw PROVE Inv' OBVIOUS
<1> USE DEF Inv, Draw, mainVars, monitorVars, historyVars
<1>0. at' \in 1 .. Len(program') + 1 BY NextCall DEF TypeOK
<1>1. TypeOK' BY <1>0 DEF TypeOK, Places
<1>2. Places' BY CallsOfReplay, CallsOfCollect, ProgramsDiffer
                  DEF TypeOK, Places
<1>3. Counted' BY CallsOfReplay, CallsOfCollect, ProgramsDiffer
                  DEF TypeOK, Places, Counted, Users
<1>4. Sampling' BY CallsOfReplay, CallsOfCollect, ProgramsDiffer
                  DEF TypeOK, Places, Sampling, Measured
<1>q. QED BY <1>1, <1>2, <1>3, <1>4

LEMMA StartScraperKeeps == Inv /\ StartScraper => Inv'
<1> SUFFICES ASSUME Inv, StartScraper PROVE Inv' OBVIOUS
<1> USE DEF Inv, StartScraper, mainVars, monitorVars, historyVars
<1>0. at' \in 1 .. Len(program') + 1 BY NextCall DEF TypeOK
<1>1. TypeOK' BY <1>0 DEF TypeOK, Places
<1>2. Places' BY CallsOfReplay, CallsOfCollect, ProgramsDiffer
                  DEF TypeOK, Places
<1>3. Counted' BY CallsOfReplay, CallsOfCollect, ProgramsDiffer
                  DEF TypeOK, Places, Counted, Users
<1>4. Sampling' BY CallsOfReplay, CallsOfCollect, ProgramsDiffer
                  DEF TypeOK, Places, Sampling, Measured
<1>q. QED BY <1>1, <1>2, <1>3, <1>4

LEMMA StopScraperKeeps == Inv /\ StopScraper => Inv'
<1> SUFFICES ASSUME Inv, StopScraper PROVE Inv' OBVIOUS
<1> USE DEF Inv, StopScraper, mainVars, monitorVars, historyVars
<1>0. at' \in 1 .. Len(program') + 1 BY NextCall DEF TypeOK
<1>1. TypeOK' BY <1>0 DEF TypeOK, Places
<1>2. Places' BY CallsOfReplay, CallsOfCollect, ProgramsDiffer
                  DEF TypeOK, Places
<1>3. Counted' BY CallsOfReplay, CallsOfCollect, ProgramsDiffer
                  DEF TypeOK, Places, Counted, Users
<1>4. Sampling' BY CallsOfReplay, CallsOfCollect, ProgramsDiffer
                  DEF TypeOK, Places, Sampling, Measured
<1>q. QED BY <1>1, <1>2, <1>3, <1>4

LEMMA CloseHandlesKeeps == Inv /\ CloseHandles => Inv'
<1> SUFFICES ASSUME Inv, CloseHandles PROVE Inv' OBVIOUS
<1> USE DEF Inv, CloseHandles, mainVars, monitorVars, historyVars
<1>0. at' \in 1 .. Len(program') + 1 BY NextCall DEF TypeOK
<1>a. count' \in Nat /\ leaked' \in Nat BY DEF TypeOK, Shutdown, MustClose
<1>1. TypeOK' BY <1>0, <1>a DEF TypeOK
<1>2. Places' BY CallsOfReplay, CallsOfCollect, ProgramsDiffer
                  DEF TypeOK, Places, Shutdown, MustClose
<1>3. Counted' BY CallsOfReplay, CallsOfCollect, ProgramsDiffer
                  DEF TypeOK, Places, Counted, Users, Shutdown, MustClose
<1>4. Sampling' BY CallsOfReplay, CallsOfCollect, ProgramsDiffer
                  DEF TypeOK, Places, Sampling, Measured, Shutdown, MustClose
<1>q. QED BY <1>1, <1>2, <1>3, <1>4

LEMMA StopMonitorKeeps == Inv /\ StopMonitor => Inv'
<1> SUFFICES ASSUME Inv, StopMonitor PROVE Inv' OBVIOUS
<1> USE DEF Inv, StopMonitor, mainVars, monitorVars, historyVars
<1>0. at' \in 1 .. Len(program') + 1 BY NextCall DEF TypeOK
<1>1. TypeOK' BY <1>0 DEF TypeOK, Places
<1>2. Places' BY CallsOfReplay, CallsOfCollect, ProgramsDiffer
                  DEF TypeOK, Places
<1>3. Counted' BY CallsOfReplay, CallsOfCollect, ProgramsDiffer
                  DEF TypeOK, Places, Counted, Users
<1>4. Sampling' BY CallsOfReplay, CallsOfCollect, ProgramsDiffer
                  DEF TypeOK, Places, Sampling, Measured
<1>q. QED BY <1>1, <1>2, <1>3, <1>4

LEMMA JoinMonitorKeeps == Inv /\ JoinMonitor => Inv'
<1> SUFFICES ASSUME Inv, JoinMonitor PROVE Inv' OBVIOUS
<1> USE DEF Inv, JoinMonitor, mainVars, monitorVars, historyVars
<1>0. at' \in 1 .. Len(program') + 1 BY NextCall DEF TypeOK
<1>a. count' \in Nat /\ leaked' \in Nat BY DEF TypeOK, Shutdown, Joined
<1>1. TypeOK' BY <1>0, <1>a DEF TypeOK
<1>2. Places' BY CallsOfReplay, CallsOfCollect, ProgramsDiffer
                  DEF TypeOK, Places, Shutdown, Joined
<1>3. Counted' BY CallsOfReplay, CallsOfCollect, ProgramsDiffer
                  DEF TypeOK, Places, Counted, Users, Shutdown, Joined
<1>4. Sampling' BY CallsOfReplay, CallsOfCollect, ProgramsDiffer
                  DEF TypeOK, Places, Sampling, Measured, Shutdown, Joined
<1>q. QED BY <1>1, <1>2, <1>3, <1>4

LEMMA EnumerateKeeps == Inv /\ Enumerate => Inv'
<1> SUFFICES ASSUME Inv, Enumerate PROVE Inv' OBVIOUS
<1> USE DEF Inv, Enumerate, mainVars, monitorVars, historyVars
<1>1. TypeOK' BY DEF TypeOK, Places
<1>2. Places' BY CallsOfReplay, CallsOfCollect, ProgramsDiffer
                  DEF TypeOK, Places
<1>3. Counted' BY CallsOfReplay, CallsOfCollect, ProgramsDiffer
                  DEF TypeOK, Places, Counted, Users
<1>4. Sampling' BY CallsOfReplay, CallsOfCollect, ProgramsDiffer
                  DEF TypeOK, Places, Sampling, Measured
<1>q. QED BY <1>1, <1>2, <1>3, <1>4

LEMMA CheckStopKeeps == Inv /\ CheckStop => Inv'
<1> SUFFICES ASSUME Inv, CheckStop PROVE Inv' OBVIOUS
<1> USE DEF Inv, CheckStop, mainVars, monitorVars, historyVars
<1>1. TypeOK' BY DEF TypeOK, Places
<1>2. Places' BY CallsOfReplay, CallsOfCollect, ProgramsDiffer
                  DEF TypeOK, Places
<1>3. Counted' BY CallsOfReplay, CallsOfCollect, ProgramsDiffer
                  DEF TypeOK, Places, Counted, Users
<1>4. Sampling' BY CallsOfReplay, CallsOfCollect, ProgramsDiffer
                  DEF TypeOK, Places, Sampling, Measured
<1>q. QED BY <1>1, <1>2, <1>3, <1>4

LEMMA SampleKeeps == Inv /\ Sample => Inv'
<1> SUFFICES ASSUME Inv, Sample PROVE Inv' OBVIOUS
<1> USE DEF Inv, Sample, mainVars, monitorVars, historyVars
<1>1. TypeOK' BY DEF TypeOK, Places
<1>2. Places' BY CallsOfReplay, CallsOfCollect, ProgramsDiffer
                  DEF TypeOK, Places
<1>3. Counted' BY CallsOfReplay, CallsOfCollect, ProgramsDiffer
                  DEF TypeOK, Places, Counted, Users
<1>4. Sampling' BY CallsOfReplay, CallsOfCollect, ProgramsDiffer
                  DEF TypeOK, Places, Sampling, Measured
<1>q. QED BY <1>1, <1>2, <1>3, <1>4

LEMMA InitInv == Init => Inv
<1> SUFFICES ASSUME Init PROVE Inv OBVIOUS
<1> USE DEF Init
<1>a. Len(program) \in Nat
  <2>1. Len(Replay) = 8 /\ Len(Collect) = 7 BY DEF Replay, Collect
  <2>q. QED BY <2>1
<1>b. at \in 1 .. Len(program) + 1 BY <1>a
<1>c. samples \in Seq(Watts) OBVIOUS
<1>1. TypeOK BY <1>b, <1>c DEF TypeOK
<1>2. Places BY DEF Places
<1>3. Counted BY DEF Counted, Users
<1>4. Sampling BY DEF Sampling
<1>q. QED BY <1>1, <1>2, <1>3, <1>4 DEF Inv

LEMMA StutterKeeps == Inv /\ UNCHANGED vars => Inv'
<1> SUFFICES ASSUME Inv, UNCHANGED vars PROVE Inv' OBVIOUS
<1> USE DEF Inv, vars, mainVars, monitorVars, historyVars
<1>1. TypeOK' BY DEF TypeOK
<1>2. Places' BY DEF Places
<1>3. Counted' BY DEF Counted, Users
<1>4. Sampling' BY DEF Sampling, Measured
<1>q. QED BY <1>1, <1>2, <1>3, <1>4

\* Every step keeps the invariant.
LEMMA NextKeeps == Inv /\ [Next]_vars => Inv'
  BY EnterContextKeeps, LeaveContextKeeps, EnterMonitorKeeps, OpenHandlesKeeps,
      DrawKeeps, StartScraperKeeps, StopScraperKeeps, CloseHandlesKeeps,
      StopMonitorKeeps, JoinMonitorKeeps, EnumerateKeeps, CheckStopKeeps,
      SampleKeeps,
     StutterKeeps
     DEF Next, Main, Thread, Finished

THEOREM Invariance == Spec => []Inv
  BY InitInv, NextKeeps, PTL DEF Spec

-----------------------------------------------------------------------------
\* For any number of samples NVML is up as long as somebody uses it.
THEOREM UpForUsers == Spec => []UpWhileUsed
<1>1. Inv => UpWhileUsed
  <2> SUFFICES ASSUME Inv PROVE UpWhileUsed OBVIOUS
  <2>1. count >= Users BY DEF Inv, TypeOK, Counted, Users
  <2>2. (~late /\ thread = "query") => count > 0
    BY DEF Inv, TypeOK, Counted, Users, Sampling
  <2>3. (~late /\ scraper) => ~Calls("close")
    BY CallsOfCollect DEF Inv, Places
  <2>q. QED BY <2>1, <2>2, <2>3 DEF UpWhileUsed, Inv, Sampling
<1>q. QED BY <1>1, Invariance, PTL

\* A program leaves no count of NVML behind but the one open_gpu_handles leaks.
THEOREM Released == Spec => []ReleasedAtEnd
<1>1. Inv => ReleasedAtEnd
  <2> SUFFICES ASSUME Inv, at > Len(program) PROVE count <= leaked /\ leaked <= 1
    BY DEF ReleasedAtEnd
  <2>1. TypeOK /\ Places BY DEF Inv
  <2>2. \/ program = Replay /\ at = 9
        \/ program = Collect /\ at = 8
    <3>1. CASE program = Replay BY <2>1, <3>1, CallsOfReplay
    <3>2. CASE program = Collect BY <2>1, <3>2, CallsOfCollect
    <3>q. QED BY <2>1, <3>1, <3>2 DEF TypeOK
  <2>3. ~inside /\ ~handles /\ ~monitor
    BY <2>1, <2>2, ProgramsDiffer DEF Places
  <2>4. Users = 0 BY <2>3 DEF Users
  <2>q. QED BY <2>4 DEF Inv, TypeOK, Counted, Places
<1>q. QED BY <1>1, Invariance, PTL

\* What the replay takes for the power it drew is the average of all samples.
THEOREM WattsMeasured == Spec => []WattsOfAllSamples
<1>1. Inv => WattsOfAllSamples
  BY DEF Inv, Sampling, Measured, WattsOfAllSamples
<1>q. QED BY <1>1, Invariance, PTL

-----------------------------------------------------------------------------
(* The server: one at a time, and who escapes a stop, for any number of starts, *)
(* forks and crashes.  What makes it true is the tag: every process alive      *)
(* carries it, so that a listing has all of them, whatever has become of        *)
(* their parents and of the harness that started them.  What a stop may miss    *)
(* was born after the listing, and is no root, for Popen only runs later.       *)

\* The places between a listing and the next start.
Stopping == pc \in {"term", "kill", "port", "launch", "out"}

Numbered ==
    /\ born \in Nat
    /\ targets \subseteq Nat \ {Stranger}
    /\ alive \subseteq 1 .. born /\ roots \subseteq 1 .. born
    /\ listener \in {-1, Stranger} \cup (roots \cap alive)

Tagged == alive \subseteq tagged

\* What is alive has been listed or is younger than the list.
Listed ==
    /\ pc \in {"term", "kill"} => alive \subseteq targets \cup since
    /\ pc \in {"port", "launch", "out"} => alive \subseteq since

Rootless == Stopping => since \cap roots = {}

OnlyProc == pc \in {"boot", "serving"} => roots \cap alive \subseteq {proc}

ServerInv == Numbered /\ Tagged /\ Listed /\ Rootless /\ OnlyProc

-----------------------------------------------------------------------------
LEMMA FamilyOfOne == \A r \in alive : r \in Family(r) /\ Family(r) \subseteq alive
  BY DEF Family

\* A listing has every process that is alive.
LEMMA AllListed == Tagged => ServerProcesses = alive
<1> SUFFICES ASSUME Tagged PROVE ServerProcesses = alive OBVIOUS
<1>1. TaggedProcesses = alive BY DEF Tagged, TaggedProcesses
<1>2. (TaggedProcesses \cup {proc}) \cap alive = alive BY <1>1
<1>3. ServerProcesses = UNION {Family(r) : r \in alive}
      BY <1>2 DEF ServerProcesses
<1>q. QED BY <1>3, FamilyOfOne

\* The death of vLLM's processes disturbs nothing.
LEMMA DeathKeeps ==
    ASSUME NEW dead \in SUBSET alive, ServerInv, Die(dead),
           UNCHANGED <<pc, serverVars, born, tagged, stubborn, roots, since>>
    PROVE  ServerInv'
<1> USE DEF Die, serverVars
<1>1. Numbered' BY DEF ServerInv, Numbered, Stranger
<1>2. Tagged' BY DEF ServerInv, Tagged
<1>3. Listed' BY DEF ServerInv, Listed
<1>4. Rootless' BY DEF ServerInv, Rootless, Stopping
<1>5. OnlyProc' BY DEF ServerInv, OnlyProc
<1>q. QED BY <1>1, <1>2, <1>3, <1>4, <1>5 DEF ServerInv

LEMMA ServerInitInv == LifecycleInit => ServerInv
<1> SUFFICES ASSUME LifecycleInit PROVE ServerInv OBVIOUS
<1> USE DEF LifecycleInit
<1>1. Numbered BY DEF Numbered
<1>2. Tagged /\ Listed /\ Rootless /\ OnlyProc
  BY DEF Tagged, Listed, Rootless, Stopping, OnlyProc
<1>q. QED BY <1>1, <1>2 DEF ServerInv

LEMMA CallKeeps == ServerInv /\ (Enter \/ Exit \/ Crash) => ServerInv'
<1> SUFFICES ASSUME ServerInv, Enter \/ Exit \/ Crash PROVE ServerInv' OBVIOUS
<1> USE DEF ServerInv, Enter, Exit, Crash, procVars, serverVars
<1>1. Numbered' BY DEF Numbered
<1>2. Tagged' BY DEF Tagged
<1>3. Listed' /\ Rootless' /\ OnlyProc' BY DEF Listed, Rootless, Stopping, OnlyProc
<1>q. QED BY <1>1, <1>2, <1>3

LEMMA FindKeeps == ServerInv /\ FindProcesses => ServerInv'
<1> SUFFICES ASSUME ServerInv, FindProcesses PROVE ServerInv' OBVIOUS
<1>1. targets' = alive BY AllListed DEF ServerInv, FindProcesses
<1>2. pc' \in {"port", "term"} /\ since' = {} /\ (pc' = "port" => alive = {})
  BY <1>1 DEF FindProcesses
<1> USE DEF ServerInv, FindProcesses
<1>3. Numbered' BY <1>1 DEF Numbered, Stranger
<1>4. Tagged' BY DEF Tagged
<1>5. Listed' BY <1>1, <1>2 DEF Listed
<1>6. Rootless' BY <1>2 DEF Rootless
<1>7. OnlyProc' BY <1>2 DEF OnlyProc
<1>q. QED BY <1>3, <1>4, <1>5, <1>6, <1>7

\* SIGTERM and SIGKILL: what the list has is dead after the second.
LEMMA KillKeeps == ServerInv /\ (Terminate \/ KillSurvivors) => ServerInv'
<1> SUFFICES ASSUME ServerInv, Terminate \/ KillSurvivors PROVE ServerInv' OBVIOUS
<1> USE DEF ServerInv, Terminate, KillSurvivors, Die, serverVars
<1>1. Numbered' BY DEF Numbered, Stranger
<1>2. Tagged' BY DEF Tagged
<1>3. Listed' BY DEF Listed, Survivors
<1>4. Rootless' BY DEF Rootless, Stopping
<1>5. OnlyProc' BY DEF OnlyProc
<1>q. QED BY <1>1, <1>2, <1>3, <1>4, <1>5

LEMMA WaitKeeps ==
    ServerInv /\ (PortIsFree \/ PortStaysBusy \/ Ready
          \/ DiedOnStartup \/ NotReady) => ServerInv'
<1> SUFFICES ASSUME ServerInv, PortIsFree \/ PortStaysBusy \/ Ready
      \/ DiedOnStartup \/ NotReady
             PROVE  ServerInv'
    OBVIOUS
<1> USE DEF ServerInv, PortIsFree, PortStaysBusy, Ready,
      DiedOnStartup, NotReady, procVars, serverVars
<1>1. Numbered' BY DEF Numbered
<1>2. Tagged' BY DEF Tagged
<1>3. Listed' BY DEF Listed
<1>4. Rootless' BY DEF Rootless, Stopping
<1>5. OnlyProc' BY DEF OnlyProc
<1>q. QED BY <1>1, <1>2, <1>3, <1>4, <1>5

\* Popen starts a root when no root is left.
LEMMA LaunchKeeps == ASSUME NEW stays PROVE ServerInv /\ Launch(stays) => ServerInv'
<1> SUFFICES ASSUME ServerInv, Launch(stays) PROVE ServerInv' OBVIOUS
<1> USE DEF ServerInv, Launch, Birth
<1>1. roots \cap alive = {} BY DEF Listed, Rootless, Stopping
<1>2. Numbered' BY DEF Numbered
<1>3. Tagged' BY DEF Tagged
<1>4. Listed' /\ Rootless' BY DEF Listed, Rootless, Stopping
<1>5. OnlyProc' BY <1>1 DEF OnlyProc
<1>q. QED BY <1>2, <1>3, <1>4, <1>5

\* A child carries the tag of its parent, and is no root.
LEMMA ForkKeeps ==
    ASSUME NEW p \in alive, NEW stays PROVE ServerInv /\ Fork(p, stays) => ServerInv'
<1> SUFFICES ASSUME ServerInv, Fork(p, stays) PROVE ServerInv' OBVIOUS
<1> USE DEF ServerInv, Fork, Birth, ChildTagged, serverVars
<1>1. born' \notin roots BY DEF Numbered
<1>2. Numbered' BY DEF Numbered
<1>3. Tagged' BY DEF Tagged
<1>4. Listed' BY DEF Listed
<1>5. Rootless' BY <1>1 DEF Rootless, Stopping
<1>6. OnlyProc' BY <1>1 DEF OnlyProc
<1>q. QED BY <1>2, <1>3, <1>4, <1>5, <1>6

LEMMA PortKeeps ==
    ASSUME ServerInv, (\E p \in alive : Bind(p)) \/ StrangerListens
          \/ StrangerLeaves \/ UNCHANGED lifecycleVars
    PROVE  ServerInv'
<1> USE DEF ServerInv, Bind, StrangerListens, StrangerLeaves, lifecycleVars,
      procVars, serverVars
<1>1. Numbered' BY DEF Numbered
<1>2. Tagged' BY DEF Tagged
<1>3. Listed' /\ Rootless' /\ OnlyProc' BY DEF Listed, Rootless, Stopping, OnlyProc
<1>q. QED BY <1>1, <1>2, <1>3

LEMMA ServerNextKeeps == ServerInv /\ [LifecycleNext]_lifecycleVars => ServerInv'
<1> SUFFICES ASSUME ServerInv, [LifecycleNext]_lifecycleVars PROVE ServerInv' OBVIOUS
<1>1. CASE Enter \/ Exit \/ Crash BY <1>1, CallKeeps
<1>2. CASE Stop BY <1>2, FindKeeps, KillKeeps, WaitKeeps DEF Stop
<1>3. CASE Start BY <1>3, LaunchKeeps, WaitKeeps DEF Start
<1>4. CASE Vllm
  <2>1. PICK p \in alive : Bind(p) \/ ProcessDies(p)
        \/ \E stays \in BOOLEAN : Fork(p, stays)
    BY <1>4 DEF Vllm
  <2>2. CASE Bind(p) BY <2>2, PortKeeps
  <2>3. CASE ProcessDies(p)
    BY <2>3, DeathKeeps DEF ProcessDies
  <2>4. CASE \E stays \in BOOLEAN : Fork(p, stays) BY <2>4, ForkKeeps
  <2>q. QED BY <2>1, <2>2, <2>3, <2>4
<1>5. CASE StrangerListens \/ StrangerLeaves \/ Done \/ UNCHANGED lifecycleVars
  BY <1>5, PortKeeps DEF Done
<1>q. QED BY <1>1, <1>2, <1>3, <1>4, <1>5 DEF LifecycleNext

THEOREM ServerInvariance == LifecycleSpec => []ServerInv
  BY ServerInitInv, ServerNextKeeps, PTL DEF LifecycleSpec

-----------------------------------------------------------------------------
\* However often servers are started, fork, die or lose their harness, no two that
\* Popen has started run when one is being started or serves.
THEOREM OneAtATime == LifecycleSpec => []OneServer
<1>1. ServerInv => OneServer
  BY DEF ServerInv, Listed, Rootless, Stopping, OnlyProc, OneServer
<1>q. QED BY <1>1, ServerInvariance, PTL

\* Only a process born after the listing escapes a stop, and none of these listens.
THEOREM EscapeByBirth == LifecycleSpec => []OnlyLateBornEscape
<1>1. ServerInv => OnlyLateBornEscape
  BY DEF ServerInv, Numbered, Listed, Rootless, Stopping, OnlyLateBornEscape
<1>q. QED BY <1>1, ServerInvariance, PTL
=============================================================================
