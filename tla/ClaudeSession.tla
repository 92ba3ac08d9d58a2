---------------------------- MODULE ClaudeSession ---------------------------
(***************************************************************************)
(* A claude-cli session whose transcript is kept, as with the Anthropic       *)
(* backend (harness/runner.py, harness/transcript.py, sandbox.py): claude-cli *)
(* writes events to a pipe and a transcript to ~/.claude/projects, a thread     *)
(* takes the session's id from the events, and the main thread waits, kills    *)
(* what runs too long, joins the thread and copies the transcript.  Attempts at *)
(* one task follow each other, after an interrupt or a kill of the harness too, *)
(* and each has a sandbox, a claude-cli and an id of its own.  Session 0 is     *)
(* another one of the user's, elsewhere on the machine.                       *)
(***************************************************************************)
EXTENDS Integers, Sequences

CONSTANTS
    None,
    MaxAttempts,    \* bound: attempts at the task
    MaxLines,       \* bound: lines of a transcript
    MaxEvents,      \* bound: lines claude-cli writes to the pipe
    PipeSize        \* lines the pipe holds

ASSUME SessionConstants ==
    /\ None \notin Nat
    /\ MaxAttempts \in Nat /\ MaxLines \in Nat /\ MaxEvents \in Nat
    /\ PipeSize \in Nat \ {0}

Attempts == 1 .. MaxAttempts

VARIABLES
    pc,             \* where run_session is
    attempt,        \* attempts begun so far; the last one is the current one
    result,         \* what run_task is going to return, None for an exception
    claude,         \* attempt -> "none", "running", "dying", "ended" or "killed"
    code,           \* attempt -> the exit code of claude-cli
    lines,          \* attempt -> lines of its transcript
    newest,         \* the session whose transcript was written last
    pipe,           \* events nobody has read
    events,         \* events the current claude-cli has written
    held,           \* does a process of claude-cli's keep the pipe open?
    reader, sink,   \* the thread, and session_sink["id"]
    copied,         \* claude_transcript.jsonl
    session,        \* session.json
    unwaited        \* history: the attempts whose claude-cli ran when the harness ceased to
                    \* wait for its end: it had sent SIGKILL, or its kill was cut short

runVars    == <<pc, attempt, result, unwaited>>
claudeVars == <<claude, code, lines, newest>>
pipeVars   == <<pipe, events, held>>
readVars   == <<reader, sink>>
fileVars   == <<copied, session>>
vars == <<runVars, claudeVars, pipeVars, readVars, fileVars>>

Init ==
    /\ pc = "idle" /\ attempt = 0 /\ result = None /\ unwaited = {}
    /\ claude = [a \in Attempts |-> "none"] /\ code = [a \in Attempts |-> None]
    /\ lines = [a \in Attempts |-> 0] /\ newest = 0
    /\ pipe = <<>> /\ events = 0 /\ held = FALSE
    /\ reader = "none" /\ sink = None
    /\ copied = None /\ session = None

-----------------------------------------------------------------------------
(* A definition X_... before X is a bug X does not have, put in the place of X  *)
(* by a mutant of PROJECT.json.                                             *)

TimeLimit_None == FALSE
TimeLimit == TRUE

TimeoutCode_Zero == 0
TimeoutCode == 124

\* locate_transcript: by the id, else the newest one of the sandbox's directory,
\* which is new for every attempt.
Located_Newest == IF sink # None /\ lines[sink] > 0 THEN sink ELSE newest
Located == IF sink # None /\ lines[sink] > 0 THEN sink
           ELSE IF lines[attempt] > 0 THEN attempt ELSE None

\* get_dataset leaves out what session.json says is solved.
Solved == session # None /\ session.exit_code = 0

Current(a) == a = attempt /\ pc # "idle"

\* A process to which SIGKILL has been sent still ends what it was in.
Alive(a) == claude[a] \in {"running", "dying"}

-----------------------------------------------------------------------------
(* claude-cli, with its tools *)

WriteTranscript(a) ==
    /\ Alive(a) /\ lines[a] < MaxLines
    /\ lines' = [lines EXCEPT ![a] = @ + 1] /\ newest' = a
    /\ UNCHANGED <<runVars, claude, code, pipeVars, readVars, fileVars>>

\* The first event has the id.  A full pipe makes claude-cli wait.
WriteEvent(a) ==
    /\ claude[a] = "running" /\ Current(a) /\ events < MaxEvents /\ Len(pipe) < PipeSize
    /\ \E kind \in IF events = 0 THEN {"system"} ELSE {"other", "no object"} :
         pipe' = Append(pipe, kind)
    /\ events' = events + 1
    /\ UNCHANGED <<runVars, claudeVars, held, readVars, fileVars>>

\* Nobody has the other end of the pipe any more.
BrokenPipe(a) ==
    /\ Alive(a) /\ ~Current(a)
    /\ claude' = [claude EXCEPT ![a] = "killed"]
    /\ UNCHANGED <<runVars, code, lines, newest, pipeVars, readVars, fileVars>>

Dies(a) ==
    /\ claude[a] = "dying"
    /\ claude' = [claude EXCEPT ![a] = "killed"]
    /\ UNCHANGED <<runVars, code, lines, newest, pipeVars, readVars, fileVars>>

\* It ends, by itself or of SIGTERM or Ctrl-C, perhaps with a process left in the
\* background that has its stdout.
Exit(a) ==
    /\ claude[a] = "running"
    /\ claude' = [claude EXCEPT ![a] = "ended"]
    /\ \E c \in {0, 1} : code' = [code EXCEPT ![a] = c]
    /\ held' \in IF Current(a) THEN BOOLEAN ELSE {held}
    /\ UNCHANGED <<runVars, lines, newest, pipe, events, readVars, fileVars>>

OtherSession ==
    /\ newest' = 0
    /\ UNCHANGED <<runVars, claude, code, lines, pipeVars, readVars, fileVars>>

-----------------------------------------------------------------------------
(* get_session_id_from_logs *)

\* event.get fails on a line that is JSON and no object, and the thread ends.
ReadLine ==
    /\ reader = "reading" /\ pipe # <<>>
    /\ pipe' = Tail(pipe)
    /\ sink' = IF Head(pipe) = "system" THEN attempt ELSE sink
    /\ reader' = IF Head(pipe) = "no object" THEN "dead" ELSE "reading"
    /\ UNCHANGED <<runVars, claudeVars, events, held, fileVars>>

EndOfFile ==
    /\ reader = "reading" /\ pipe = <<>> /\ ~held /\ claude[attempt] \in {"ended", "killed"}
    /\ reader' = "dead"
    /\ UNCHANGED <<runVars, claudeVars, pipeVars, sink, fileVars>>

-----------------------------------------------------------------------------
(* run_task, run_session *)

Begin ==
    /\ pc = "idle" /\ attempt < MaxAttempts
    /\ ~Solved
    /\ attempt' = attempt + 1 /\ pc' = "clone" /\ result' = None
    /\ pipe' = <<>> /\ events' = 0 /\ held' = FALSE /\ sink' = None /\ reader' = "none"
    /\ UNCHANGED <<unwaited, claudeVars, fileVars>>

\* The sandbox and the repository, and claude-cli; if one of them fails run_task
\* returns 1.
StartClaude ==
    /\ pc = "clone"
    /\ \/ /\ pc' = "start" /\ result' = result
          /\ claude' = [claude EXCEPT ![attempt] = "running"]
       \/ pc' = "save" /\ result' = 1 /\ claude' = claude
    /\ UNCHANGED <<attempt, unwaited, code, lines, newest, pipeVars, readVars, fileVars>>

\* The thread is started and the try entered: before that nothing ends claude-cli.
EnterTry ==
    /\ pc = "start"
    /\ reader' = "reading" /\ pc' = "wait"
    /\ UNCHANGED <<attempt, result, unwaited, claudeVars, pipeVars, sink, fileVars>>

WaitReturns ==
    /\ pc = "wait" /\ claude[attempt] = "ended"
    /\ result' = code[attempt] /\ pc' = "join"
    /\ UNCHANGED <<attempt, unwaited, claudeVars, pipeVars, readVars, fileVars>>

\* claude-cli may have ended meanwhile.  In "kill", terminate_process_tree has sent
\* SIGTERM and waits for ten seconds at most.
WaitTimesOut ==
    /\ pc = "wait" /\ TimeLimit
    /\ result' = TimeoutCode /\ pc' = "kill"
    /\ UNCHANGED <<attempt, unwaited, claudeVars, pipeVars, readVars, fileVars>>

\* Ctrl-C, or another exception: it is raised again.
WaitInterrupted ==
    /\ pc = "wait"
    /\ result' = None /\ pc' = "kill"
    /\ UNCHANGED <<attempt, unwaited, claudeVars, pipeVars, readVars, fileVars>>

\* Who is left after the grace gets SIGKILL, and is not waited for.
KillSurvivors ==
    /\ pc = "kill"
    /\ claude' = [claude EXCEPT ![attempt] = IF @ = "running" THEN "dying" ELSE @]
    /\ unwaited' = unwaited \cup {a \in {attempt} : claude[a] = "running"}
    /\ pc' = "join"
    /\ UNCHANGED <<attempt, result, code, lines, newest, pipeVars, readVars, fileVars>>

\* A Ctrl-C during the grace, or an OSError of wait_procs: no except is left for it,
\* and finally comes next.  run_task makes 1 of an OSError.
KillCut ==
    /\ pc = "kill"
    /\ result' \in {None, 1} /\ pc' = "join"
    /\ unwaited' = unwaited \cup {a \in {attempt} : claude[a] = "running"}
    /\ UNCHANGED <<attempt, claudeVars, pipeVars, readVars, fileVars>>

\* join(timeout=10): the thread ends with the pipe, or the time does.
Join ==
    /\ pc = "join"
    /\ reader = "dead" \/ held \/ Alive(attempt)
    /\ pc' = "copy"
    /\ UNCHANGED <<attempt, result, unwaited, claudeVars, pipeVars, readVars, fileVars>>

\* What shutil.copy leaves: nothing new if there is no transcript, all of it so far,
\* or, if it is torn, some of it.
Copy(torn) ==
    IF Located = None THEN copied
    ELSE [by |-> attempt, of |-> Located, torn |-> torn,
          lines |-> IF Located = 0 THEN 0 ELSE lines[Located]]

\* shutil.copy may fail and is caught; an OSError before it is not, and makes the
\* result 1, or takes the place of the exception under way.
CopyTranscript ==
    /\ pc = "copy"
    /\ \/ copied' \in {copied, Copy(TRUE), Copy(FALSE)} /\ result' = result
       \/ copied' = copied /\ result' = 1
    /\ pc' = IF result' = None THEN "idle" ELSE "save"
    /\ reader' = IF result' = None THEN "none" ELSE reader
    /\ UNCHANGED <<attempt, unwaited, claudeVars, pipeVars, sink, session>>

\* The sandbox is left, and save_session_config writes the exit code.
Save ==
    /\ pc = "save"
    /\ session' = [attempt |-> attempt, exit_code |-> result]
    /\ pc' = "idle"
    /\ UNCHANGED <<attempt, result, unwaited, claudeVars, pipeVars, readVars, copied>>

\* The harness ends and leaves claude-cli as it is, and a copy torn: it is killed, at
\* any point, or interrupted where nothing ends claude-cli yet, or any more.
LeaveHarness ==
    /\ pc # "idle"
    /\ pc' = "idle" /\ result' = None /\ reader' = "none"
    /\ copied' \in IF pc = "copy" THEN {copied, Copy(TRUE)} ELSE {copied}
    /\ UNCHANGED <<attempt, unwaited, claudeVars, pipeVars, sink, session>>

Harness ==
    \/ StartClaude \/ EnterTry \/ WaitReturns \/ WaitTimesOut \/ KillSurvivors
    \/ Join \/ CopyTranscript \/ Save
Reader == ReadLine \/ EndOfFile
Claude(a) == WriteTranscript(a) \/ WriteEvent(a) \/ BrokenPipe(a) \/ Dies(a) \/ Exit(a)

Next ==
    \/ Harness \/ Reader \/ Begin \/ WaitInterrupted \/ KillCut \/ LeaveHarness \/ OtherSession
    \/ \E a \in Attempts : Claude(a)

Spec == Init /\ [][Next]_vars

\* Both threads of the harness are run, and time passes; claude-cli may do nothing for ever.
FairSpec == Spec /\ WF_vars(Harness) /\ WF_vars(Reader)

-----------------------------------------------------------------------------
(* Properties *)

\* The transcript that is kept is the one of the session it is kept for, whether
\* the id came through or not and whatever else writes transcripts.  Unless the copy
\* itself failed it is all of it, for nothing of that session is written after it was
\* copied: but for the sessions the harness did not see end, which are those that
\* outlived the grace of their kill (SIGKILL is not waited for) or whose kill was cut
\* short by an exception of its own.
TranscriptOfSession ==
    copied # None =>
        /\ copied.of = copied.by
        /\ \/ copied.torn
           \/ copied.of \in unwaited
           \/ copied.lines = lines[copied.of]

\* --resume skips a task with exit_code 0: claude-cli has ended on its own, with 0,
\* in the attempt session.json is of, and no limit and no signal has come before.
ZeroMeansSolved ==
    Solved =>
        claude[session.attempt] = "ended" /\ code[session.attempt] = 0

\* An attempt ends, although claude-cli may hang, wait on a pipe whose reader has
\* died, or leave a process behind that keeps the pipe open.
AttemptEnds == pc # "idle" ~> pc = "idle"
=============================================================================
