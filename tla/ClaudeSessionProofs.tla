------------------------- MODULE ClaudeSessionProofs -------------------------
(***************************************************************************)
(* Whose transcript is kept, and what an exit_code of 0 means, for any number *)
(* of attempts, lines and events and any size of the pipe.  A claude-cli that   *)
(* has ended stays so, and writes no more: what was true of its transcript and *)
(* its exit code when they were taken is true for ever.                      *)
(***************************************************************************)
EXTENDS ClaudeSession, TLAPS

Over(a) == claude[a] \in {"ended", "killed"}

Begun ==
    /\ attempt \in 0 .. MaxAttempts
    /\ pc \in {"idle", "clone", "start", "wait", "kill", "join", "copy", "save"}
    /\ pc # "idle" => attempt \in Attempts
    /\ claude \in [Attempts -> {"none", "running", "dying", "ended", "killed"}]
    /\ \A a \in Attempts : a > attempt => claude[a] = "none"
    /\ pc = "clone" => claude[attempt] = "none"
    /\ pc \in {"start", "wait", "kill"} => claude[attempt] \in {"running", "ended"}
    /\ lines \in [Attempts -> Nat]
    /\ DOMAIN code = Attempts

\* The id is that of the current attempt, and so is what is found.
Named ==
    /\ reader = "reading" => attempt \in Attempts
    /\ sink # None => sink = attempt /\ attempt \in Attempts

\* What is copied next is of a claude-cli that is over, or that was not waited for.
Waited == pc \in {"join", "copy"} => Over(attempt) \/ attempt \in unwaited

Copied ==
    copied # None =>
        /\ copied.by \in Attempts /\ copied.of = copied.by
        /\ \/ copied.torn
           \/ copied.of \in unwaited
           \/ copied.lines = lines[copied.of] /\ Over(copied.of)

\* A result of 0 is that of a claude-cli that has ended by itself.
Zero(a) == a \in Attempts /\ claude[a] = "ended" /\ code[a] = 0

Earned ==
    /\ pc = "kill" => result # 0
    /\ pc \in {"join", "copy", "save"} /\ result = 0 => Zero(attempt)
    /\ Solved => Zero(session.attempt)

Inv == Begun /\ Named /\ Waited /\ Copied /\ Earned

-----------------------------------------------------------------------------
\* locate_transcript finds the current attempt's transcript or none.
LEMMA LocatedIsCurrent ==
    ASSUME Begun, Named, Located # None
    PROVE  Located = attempt
  BY DEF Begun, Named, Located

LEMMA CopyIsCurrent ==
    ASSUME Begun, Named, attempt \in Attempts, NEW torn
    PROVE  \/ Copy(torn) = copied
           \/ Copy(torn) = [by |-> attempt, of |-> attempt, torn |-> torn,
                            lines |-> lines[attempt]]
<1>1. attempt # 0 BY DEF Attempts
<1>q. QED BY <1>1, LocatedIsCurrent DEF Copy

LEMMA InitInv == Init => Inv
<1> SUFFICES ASSUME Init PROVE Inv OBVIOUS
<1> USE DEF Init, Attempts
<1>1. Begun BY SessionConstants DEF Begun
<1>2. Named /\ Waited /\ Copied /\ Earned
  BY DEF Named, Waited, Copied, Earned, Solved
<1>q. QED BY <1>1, <1>2 DEF Inv

LEMMA NatNext == \A n \in Nat : n + 1 \in Nat
  OBVIOUS

\* claude-cli changes what is its own, and only while it runs.
LEMMA ClaudeKeeps == ASSUME NEW a \in Attempts PROVE Inv /\ Claude(a) => Inv'
<1> SUFFICES ASSUME Inv, Claude(a) PROVE Inv' OBVIOUS
<1> USE DEF Claude, WriteTranscript, WriteEvent, BrokenPipe, Dies, Exit, Alive, Current,
            runVars, claudeVars, pipeVars, readVars, fileVars
<1>0. Begun /\ claude[a] \in {"running", "dying"} BY DEF Inv
<1>1. Begun'
  <2>1. CASE WriteTranscript(a)
    <3>1. lines \in [Attempts -> Nat] BY <1>0 DEF Begun
    <3>2. lines' = [lines EXCEPT ![a] = lines[a] + 1] BY <2>1
    <3>3. lines[a] \in Nat BY <3>1
    <3>4. lines[a] + 1 \in Nat BY <3>3, NatNext, Zenon
    <3>5. lines' \in [Attempts -> Nat] BY <3>1, <3>2, <3>4, Zenon
    <3>q. QED BY <1>0, <2>1, <3>5 DEF Begun
  <2>2. CASE WriteEvent(a) BY <1>0, <2>2 DEF Begun
  <2>3. CASE BrokenPipe(a) BY <1>0, <2>3 DEF Begun
  <2>4. CASE Exit(a) BY <1>0, <2>4 DEF Begun
  <2>5. CASE Dies(a) BY <1>0, <2>5 DEF Begun
  <2>q. QED BY <2>1, <2>2, <2>3, <2>4, <2>5
<1>2. \A b \in Attempts : Over(b) => Over(b)' /\ lines'[b] = lines[b]
  BY <1>0 DEF Begun, Over
<1>3. \A b : Zero(b) => Zero(b)'
  BY <1>0 DEF Begun, Zero
<1>4. Named' BY DEF Inv, Named
<1>7. Earned' BY <1>3 DEF Inv, Earned, Solved
<1>. HIDE DEF Claude
<1>a. pc' = pc /\ attempt' = attempt /\ unwaited' = unwaited /\ copied' = copied
  BY DEF Claude
<1>5. Waited' BY ONLY <1>2, <1>a, Inv DEF Inv, Begun, Waited
<1>6. Copied'
  <2>1. CASE copied = None BY <1>a, <2>1 DEF Copied
  <2>2. CASE copied # None
    <3>1. /\ copied.by \in Attempts /\ copied.of = copied.by /\ copied.of \in Attempts
          /\ \/ copied.torn \/ copied.of \in unwaited
             \/ copied.lines = lines[copied.of] /\ Over(copied.of)
      BY <2>2 DEF Inv, Copied
    <3>2. Over(copied.of) => lines'[copied.of] = lines[copied.of] /\ Over(copied.of)'
      BY <1>2, <1>a, <3>1 DEF Over
    <3>q. QED BY <1>a, <3>1, <3>2 DEF Copied, Over
  <2>q. QED BY <2>1, <2>2
<1>q. QED BY <1>1, <1>4, <1>5, <1>6, <1>7 DEF Inv

LEMMA ReaderKeeps == Inv /\ (Reader \/ OtherSession \/ UNCHANGED vars) => Inv'
<1> SUFFICES ASSUME Inv, Reader \/ OtherSession \/ UNCHANGED vars PROVE Inv' OBVIOUS
<1> USE DEF Inv, Reader, ReadLine, EndOfFile, OtherSession, vars, runVars, claudeVars,
            pipeVars, readVars, fileVars
<1>1. Begun' BY DEF Begun
<1>2. Named' BY DEF Named
<1>3. Waited' /\ Copied' BY DEF Waited, Copied, Over
<1>4. Earned' BY DEF Earned, Solved, Zero
<1>q. QED BY <1>1, <1>2, <1>3, <1>4

LEMMA BeginKeeps == Inv /\ Begin => Inv'
<1> SUFFICES ASSUME Inv, Begin PROVE Inv' OBVIOUS
<1> USE DEF Begin, fileVars, claudeVars
<1>0. /\ Begun /\ attempt' = attempt + 1 /\ attempt' \in Attempts /\ ~Solved /\ ~Solved'
      /\ attempt' \in 0 .. MaxAttempts /\ attempt' > attempt
  BY SessionConstants DEF Inv, Begun, Attempts, Solved
<1>1. Begun' BY <1>0 DEF Begun
<1>2. Named' BY <1>0 DEF Named
<1>3. Waited' BY DEF Waited
<1>4. Earned' BY <1>0 DEF Earned
<1>5. Copied' BY DEF Inv, Copied, Over
<1>q. QED BY <1>1, <1>2, <1>3, <1>4, <1>5 DEF Inv

LEMMA StartKeeps == Inv /\ (StartClaude \/ EnterTry) => Inv'
<1> SUFFICES ASSUME Inv, StartClaude \/ EnterTry PROVE Inv' OBVIOUS
<1> USE DEF StartClaude, EnterTry, claudeVars, pipeVars, readVars, fileVars
<1>0. Begun /\ attempt \in Attempts BY DEF Inv, Begun
<1>1. \A b \in Attempts : Over(b) => Over(b)' BY <1>0 DEF Begun, Over
<1>2. \A b : Zero(b) => Zero(b)' BY <1>0 DEF Begun, Zero
<1>3. Begun'
  <2>1. CASE StartClaude BY <1>0, <2>1 DEF Begun
  <2>2. CASE EnterTry
    <3>1. claude[attempt] \in {"running", "ended"} BY <1>0, <2>2 DEF Begun
    <3>q. QED BY <1>0, <2>2, <3>1 DEF Begun
  <2>q. QED BY <2>1, <2>2
<1>4. Named' BY <1>0 DEF Inv, Named
<1>5. Waited' BY DEF Waited
<1>6. Copied' BY <1>1 DEF Inv, Copied
<1>7. Earned' BY <1>2 DEF Inv, Earned, Solved
<1>q. QED BY <1>3, <1>4, <1>5, <1>6, <1>7 DEF Inv

LEMMA WaitKeeps == Inv /\ (WaitReturns \/ WaitTimesOut \/ WaitInterrupted) => Inv'
<1> SUFFICES ASSUME Inv, WaitReturns \/ WaitTimesOut \/ WaitInterrupted PROVE Inv' OBVIOUS
<1> USE DEF Inv, WaitReturns, WaitTimesOut, TimeoutCode, WaitInterrupted, claudeVars, pipeVars,
            readVars, fileVars
<1>1. Begun' BY DEF Begun
<1>2. Named' BY DEF Named
<1>3. Waited' /\ Copied' BY DEF Waited, Copied, Over
<1>4. Earned' BY SessionConstants DEF Earned, Solved, Zero, Begun
<1>q. QED BY <1>1, <1>2, <1>3, <1>4

\* A claude-cli that is not over after the grace, or when the kill is cut short, is
\* one that was not waited for.
LEMMA KillKeeps == Inv /\ (KillSurvivors \/ KillCut) => Inv'
<1> SUFFICES ASSUME Inv, KillSurvivors \/ KillCut PROVE Inv' OBVIOUS
<1> USE DEF KillSurvivors, KillCut, claudeVars, pipeVars, readVars, fileVars
<1>0. Begun /\ attempt \in Attempts /\ claude[attempt] \in {"running", "ended"}
  BY DEF Inv, Begun
<1>1. Begun' BY <1>0 DEF Begun
<1>2. Named' BY DEF Inv, Named
<1>3. \A b \in Attempts : Over(b) => Over(b)' BY <1>0 DEF Begun, Over
<1>4. \A b : Zero(b) => Zero(b)' BY <1>0 DEF Begun, Zero
<1>5. \A b : b \in unwaited => b \in unwaited' OBVIOUS
<1>6. Copied' BY <1>3, <1>5 DEF Inv, Copied
<1>7. Earned' BY <1>4, SessionConstants DEF Inv, Earned, Solved
<1>8. Waited'
  <2>1. CASE claude[attempt] = "running"
    <3>1. attempt \in unwaited' BY <2>1
    <3>q. QED BY <3>1 DEF Waited
  <2>2. CASE claude[attempt] = "ended"
    <3>1. Over(attempt)' BY <1>0, <2>2 DEF Over, Begun
    <3>q. QED BY <3>1 DEF Waited
  <2>q. QED BY <1>0, <2>1, <2>2
<1>q. QED BY <1>1, <1>2, <1>6, <1>7, <1>8 DEF Inv

LEMMA JoinKeeps == Inv /\ Join => Inv'
<1> SUFFICES ASSUME Inv, Join PROVE Inv' OBVIOUS
<1> USE DEF Inv, Join, claudeVars, pipeVars, readVars, fileVars
<1>1. Begun' BY DEF Begun
<1>2. Named' BY DEF Named
<1>3. Waited' /\ Copied' BY DEF Waited, Copied, Over
<1>4. Earned' BY DEF Earned, Solved, Zero
<1>q. QED BY <1>1, <1>2, <1>3, <1>4

\* What a copy leaves, torn or not, keeps what is known of the file.
LEMMA CopiedKept ==
    ASSUME Inv, pc = "copy", copied' \in {copied, Copy(TRUE), Copy(FALSE)},
           claudeVars' = claudeVars, unwaited' = unwaited
    PROVE  Copied'
<1>0. attempt \in Attempts /\ (Over(attempt) \/ attempt \in unwaited)
  BY DEF Inv, Begun, Waited
<1>1. CASE copied' = copied BY <1>1 DEF Inv, Copied, Over, claudeVars
<1>2. CASE copied' # copied
  <2>1. PICK t \in BOOLEAN :
          copied' = [by |-> attempt, of |-> attempt, torn |-> t, lines |-> lines[attempt]]
    BY <1>0, <1>2, CopyIsCurrent DEF Inv
  <2>2. /\ copied'.by = attempt /\ copied'.of = attempt /\ copied'.lines = lines[attempt]
        /\ lines' = lines /\ claude' = claude
    BY <2>1 DEF claudeVars
  <2>q. QED BY <1>0, <2>2 DEF Copied, Over
<1>q. QED BY <1>1, <1>2

LEMMA CopyKeeps == Inv /\ CopyTranscript => Inv'
<1> SUFFICES ASSUME Inv, CopyTranscript PROVE Inv' OBVIOUS
<1>0. pc = "copy" /\ pc' \in {"idle", "save"} /\ claudeVars' = claudeVars /\ unwaited' = unwaited
  BY DEF CopyTranscript
<1>1. copied' \in {copied, Copy(TRUE), Copy(FALSE)} BY DEF CopyTranscript
<1>2. Copied' BY <1>0, <1>1, CopiedKept
<1> USE DEF CopyTranscript, claudeVars, pipeVars
<1>3. Begun' BY <1>0 DEF Inv, Begun
<1>4. Named' BY DEF Inv, Named, Begun
<1>5. Waited' BY <1>0 DEF Waited
<1>6. Earned'
  <2>1. result' = 0 => result = 0 OBVIOUS
  <2>q. QED BY <1>0, <2>1 DEF Inv, Earned, Solved, Zero
<1>q. QED BY <1>2, <1>3, <1>4, <1>5, <1>6 DEF Inv

LEMMA LeaveKeeps == Inv /\ LeaveHarness => Inv'
<1> SUFFICES ASSUME Inv, LeaveHarness PROVE Inv' OBVIOUS
<1>0. pc' = "idle" /\ claudeVars' = claudeVars /\ unwaited' = unwaited
  BY DEF LeaveHarness
<1>1. Copied'
  <2>1. CASE pc = "copy"
    <3>1. copied' \in {copied, Copy(TRUE), Copy(FALSE)} BY <2>1 DEF LeaveHarness
    <3>q. QED BY <1>0, <2>1, <3>1, CopiedKept
  <2>2. CASE pc # "copy"
    <3>1. copied' = copied BY <2>2 DEF LeaveHarness
    <3>q. QED BY <1>0, <3>1 DEF Inv, Copied, Over, claudeVars
  <2>q. QED BY <2>1, <2>2
<1> USE DEF LeaveHarness, claudeVars, pipeVars
<1>2. Begun' BY <1>0 DEF Inv, Begun
<1>3. Named' BY DEF Inv, Named
<1>4. Waited' BY <1>0 DEF Waited
<1>5. Earned' BY <1>0 DEF Inv, Earned, Solved, Zero
<1>q. QED BY <1>1, <1>2, <1>3, <1>4, <1>5 DEF Inv

LEMMA SaveKeeps == Inv /\ Save => Inv'
<1> SUFFICES ASSUME Inv, Save PROVE Inv' OBVIOUS
<1> USE DEF Inv, Save, claudeVars, pipeVars, readVars
<1>1. Begun' BY DEF Begun
<1>2. Named' BY DEF Named
<1>3. Waited' /\ Copied' BY DEF Waited, Copied, Over
<1>4. Earned' BY DEF Earned, Solved, Zero
<1>q. QED BY <1>1, <1>2, <1>3, <1>4

LEMMA NextKeeps == Inv /\ [Next]_vars => Inv'
  BY ClaudeKeeps, ReaderKeeps, BeginKeeps, StartKeeps, WaitKeeps, KillKeeps, JoinKeeps,
     CopyKeeps, LeaveKeeps, SaveKeeps
     DEF Next, Harness

THEOREM Invariance == Spec => []Inv
  BY InitInv, NextKeeps, PTL DEF Spec

-----------------------------------------------------------------------------
\* The transcript beside a task is that of the session it was copied for, whatever
\* else writes transcripts and however many attempts there were; and it is all of it
\* unless the copy failed, or claude-cli outlived its kill.
THEOREM TranscriptKept == Spec => []TranscriptOfSession
<1>1. Inv => TranscriptOfSession BY DEF Inv, Copied, TranscriptOfSession
<1>q. QED BY <1>1, Invariance, PTL

\* An exit_code of 0 in session.json is that of a claude-cli that ended by itself.
THEOREM ZeroIsEarned == Spec => []ZeroMeansSolved
<1>1. Inv => ZeroMeansSolved BY DEF Inv, Earned, Zero, ZeroMeansSolved
<1>q. QED BY <1>1, Invariance, PTL
=============================================================================
