-------------------------- MODULE ServerLifecycle ---------------------------
(***************************************************************************)
(* VllmServer (serving/server.py, with pipeline/utils/processes.py): start a *)
(* vLLM process tree on a port after stopping whatever an earlier start left *)
(* there, wait until it serves, and stop it.  One VllmServer after the other *)
(* is entered and left, by one harness or, after a crash, by the next one.  *)
(*                                                                         *)
(* A process is found again by an environment variable with the port, which  *)
(* it inherits, and by its parents.  The processes of vLLM, which fork and   *)
(* die when they like, and a stranger who wants the same port, run at the    *)
(* same time.  Process 0 is the stranger; the others are vLLM's, numbered as *)
(* they are born.                                                          *)
(***************************************************************************)
EXTENDS Integers, FiniteSets

CONSTANTS
    MaxStarts,      \* bound: times a VllmServer is entered
    MaxForks,       \* bound: processes vLLM forks, over all
    MaxCrashes,     \* bound: harnesses that end without leaving the context
    Strangers,      \* may the stranger listen on the port?
    Stubborn        \* may a process survive SIGTERM?

ASSUME ServerConstants ==
    /\ MaxStarts \in Nat /\ MaxForks \in Nat /\ MaxCrashes \in Nat
    /\ Strangers \in BOOLEAN /\ Stubborn \in BOOLEAN

MaxProcs == MaxStarts + MaxForks
Pids == 1 .. MaxProcs
Stranger == 0

VARIABLES
    pc,             \* where VllmServer is
    entering,       \* is _stop called by __enter__ (require_port_free)?
    proc,           \* self._proc, or 0
    targets,        \* the processes _kill_vllm has found
    listener,       \* the process that listens on the port, or -1
    born,           \* processes started so far
    alive,          \* vLLM's processes alive
    parent,         \* process -> its parent, 0 for init or the harness
    tagged,         \* processes with the port's tag in their environment
    stubborn,       \* processes that survive SIGTERM
    roots,          \* history: the processes Popen started
    since,          \* history: processes born after the targets were listed
    starts, crashes

procVars   == <<born, alive, parent, tagged, stubborn, roots, since>>
serverVars == <<entering, proc, targets>>
countVars  == <<starts, crashes>>
lifecycleVars == <<pc, serverVars, listener, procVars, countVars>>

LifecycleInit ==
    /\ pc = "out" /\ entering = FALSE /\ proc = 0 /\ targets = {}
    /\ listener \in IF Strangers THEN {-1, Stranger} ELSE {-1}
    /\ born = 0 /\ alive = {} /\ parent = [p \in Pids |-> 0] /\ tagged = {} /\ stubborn = {}
    /\ roots = {} /\ since = {} /\ starts = 0 /\ crashes = 0

-----------------------------------------------------------------------------
(* process_family, _server_processes, terminate_processes.  A definition X_...  *)
(* before X is a bug X does not have; the mutants of PROJECT.json put it in the  *)
(* place of X.                                                               *)

\* root and its descendants; a process whose parent has died is a child of init.
Family(root) ==
    {p \in alive : \A family \in SUBSET Pids :
        (root \in family /\ \A q \in Pids : parent[q] \in family => q \in family) => p \in family}

TaggedProcesses_None == {}
TaggedProcesses == alive \cap tagged

ServerProcesses == UNION {Family(r) : r \in (TaggedProcesses \cup {proc}) \cap alive}

\* Who is left after the grace period, and gets SIGKILL.
Survivors_Spared == {}
Survivors == targets \cap alive

\* A child inherits the environment of its parent.
ChildTagged(p) == p \in tagged

PortFree == listener = -1

\* Does the wait for /v1/models have a time limit?
ReadyTimeout_None == FALSE
ReadyTimeout == TRUE

\* Death of a set of processes: their sockets close, their children go to init.
Die(dead) ==
    /\ alive' = alive \ dead
    /\ parent' = [p \in Pids |-> IF parent[p] \in dead THEN 0 ELSE parent[p]]
    /\ listener' = IF listener \in dead THEN -1 ELSE listener

-----------------------------------------------------------------------------
(* __enter__, __exit__ and _stop *)

Enter ==
    /\ pc \in {"out", "raised"} /\ starts < MaxStarts
    /\ starts' = starts + 1
    /\ entering' = TRUE /\ proc' = 0
    /\ pc' = "find"
    /\ UNCHANGED <<targets, listener, procVars, crashes>>

Exit ==
    /\ pc = "serving"
    /\ entering' = FALSE
    /\ pc' = "find"
    /\ UNCHANGED <<proc, targets, listener, procVars, countVars>>

FindProcesses ==
    /\ pc = "find"
    /\ targets' = ServerProcesses
    /\ since' = {}
    /\ pc' = IF targets' = {} THEN "port" ELSE "term"
    /\ UNCHANGED <<entering, proc, listener, born, alive, parent, tagged, stubborn, roots, countVars>>

\* SIGTERM, and what it ends within the grace period.
Terminate ==
    /\ pc = "term"
    /\ Die(targets \ stubborn)
    /\ pc' = "kill"
    /\ UNCHANGED <<serverVars, born, tagged, stubborn, roots, since, countVars>>

KillSurvivors ==
    /\ pc = "kill"
    /\ Die(Survivors)
    /\ pc' = "port"
    /\ UNCHANGED <<serverVars, born, tagged, stubborn, roots, since, countVars>>

\* _wait_port_free, and _wait_gpu_free, which goes on in any case.
PortIsFree ==
    /\ pc = "port" /\ PortFree
    /\ pc' = IF entering THEN "launch" ELSE "out"
    /\ UNCHANGED <<serverVars, listener, procVars, countVars>>

PortStaysBusy ==
    /\ pc = "port" /\ ~PortFree
    /\ pc' = IF entering THEN "raised" ELSE "out"
    /\ UNCHANGED <<serverVars, listener, procVars, countVars>>

\* A process is born: with what tag, which parent, and how stubborn.
Birth(tag, from, stays) ==
    /\ born' = born + 1
    /\ alive' = alive \cup {born'}
    /\ parent' = [parent EXCEPT ![born'] = from]
    /\ tagged' = IF tag THEN tagged \cup {born'} ELSE tagged
    /\ stubborn' = IF stays THEN stubborn \cup {born'} ELSE stubborn
    /\ since' = since \cup {born'}

Launch(stays) ==
    /\ pc = "launch"
    /\ Birth(TRUE, 0, stays)
    /\ proc' = born' /\ roots' = roots \cup {born'}
    /\ pc' = "boot"
    /\ UNCHANGED <<entering, targets, listener, countVars>>

\* Somebody answers on the port; the code does not ask who.
Ready ==
    /\ pc = "boot" /\ listener # -1
    /\ pc' = "serving"
    /\ UNCHANGED <<serverVars, listener, procVars, countVars>>

\* Nobody answers, and the process has ended: raised, with its children as they are.
DiedOnStartup ==
    /\ pc = "boot" /\ proc \notin alive
    /\ pc' = "raised"
    /\ UNCHANGED <<serverVars, listener, procVars, countVars>>

\* Nobody answers for 600 s, or not with the model's metadata: raised, and the process
\* is left running.
NotReady ==
    /\ pc = "boot" /\ ReadyTimeout
    /\ pc' = "raised"
    /\ UNCHANGED <<serverVars, listener, procVars, countVars>>

\* The harness is gone before it has left the context.
Crash ==
    /\ pc \notin {"out", "raised"} /\ crashes < MaxCrashes
    /\ crashes' = crashes + 1
    /\ pc' = "raised"
    /\ UNCHANGED <<serverVars, listener, procVars, starts>>

-----------------------------------------------------------------------------
(* vLLM's processes, and the stranger *)

\* The process Popen started is the one that listens.
Bind(p) ==
    /\ p \in roots \cap alive /\ listener = -1
    /\ listener' = p
    /\ UNCHANGED <<pc, serverVars, procVars, countVars>>

Fork(p, stays) ==
    /\ p \in alive /\ born - Cardinality(roots) < MaxForks
    /\ Birth(ChildTagged(p), p, stays)
    /\ UNCHANGED <<pc, serverVars, listener, roots, countVars>>

ProcessDies(p) ==
    /\ p \in alive
    /\ Die({p})
    /\ UNCHANGED <<pc, serverVars, born, tagged, stubborn, roots, since, countVars>>

StrangerListens ==
    /\ Strangers /\ listener = -1
    /\ listener' = Stranger
    /\ UNCHANGED <<pc, serverVars, procVars, countVars>>

StrangerLeaves ==
    /\ listener = Stranger
    /\ listener' = -1
    /\ UNCHANGED <<pc, serverVars, procVars, countVars>>

-----------------------------------------------------------------------------
May(stays) == stays => Stubborn

\* What VllmServer does by itself; Enter and Exit are calls.
Stop == FindProcesses \/ Terminate \/ KillSurvivors \/ PortIsFree \/ PortStaysBusy

Start ==
    \/ \E stays \in BOOLEAN : May(stays) /\ Launch(stays)
    \/ Ready \/ DiedOnStartup \/ NotReady

Vllm == \E p \in alive :
            \/ Bind(p) \/ ProcessDies(p)
            \/ \E stays \in BOOLEAN : May(stays) /\ Fork(p, stays)

Done == pc \in {"out", "raised"} /\ starts = MaxStarts /\ UNCHANGED lifecycleVars

LifecycleNext == Enter \/ Exit \/ Stop \/ Start \/ Crash \/ Vllm \/ StrangerListens
            \/ StrangerLeaves \/ Done

LifecycleSpec == LifecycleInit /\ [][LifecycleNext]_lifecycleVars

\* Every wait of the code has a limit.
FairSpec == LifecycleSpec /\ WF_lifecycleVars(Stop \/ Start)

-----------------------------------------------------------------------------
(* Properties *)

\* At most one server runs: when a server is being started or serves, every server
\* started before it is gone, the ones whose harness crashed or gave up included.
OneServer == pc \in {"launch", "boot", "serving"} => (roots \cap alive) \subseteq {proc}

\* A stop ends every process of vLLM that was born before it listed them, whatever has
\* become of their parents and of the harness that started them and however stubborn
\* they are.  One that is forked after the listing may outlive the stop, but it does
\* not hold the port: if the port is busy after a stop, a stranger has it.
OnlyLateBornEscape ==
    /\ pc \in {"port", "launch", "out"} => alive \subseteq since
    /\ pc = "port" => listener \in {-1, Stranger}

\* __enter__ and __exit__ return or raise: "not ready after 600s", "port is busy".
EnterEnds == pc \in {"find", "boot"} ~> pc \in {"out", "serving", "raised"}
=============================================================================
