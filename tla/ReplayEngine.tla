---------------------------- MODULE ReplayEngine ----------------------------
(***************************************************************************)
(* The replay engine (trace_replay/engine.py): `Concurrency' virtual agents *)
(* on one asyncio loop cycle through the captured sessions until a         *)
(* deadline, sleep the captured tool-execution time before each turn, send  *)
(* the turn to the engine, and log it.  Four records of the same turns are  *)
(* kept: the agents' own results, the shared live counters, the event file  *)
(* and the statistics returned at the end.                                 *)
(*                                                                         *)
(* An action is what one agent does between two awaits, or between two     *)
(* readings of the clock; the clock is discrete, and time may pass at any   *)
(* point.  How long the engine takes, and whether a stream fails, is open.  *)
(***************************************************************************)
EXTENDS Integers, Sequences, FiniteSets, Functions

CONSTANTS
    Concurrency,    \* number of virtual agents
    NumSessions,    \* len(sessions)
    Turns,          \* session -> its turns' tool_exec_ms (in ticks), or NoExec
    NoExec,         \* Python's None, for tool_exec_ms
    Deadline,       \* duration_s, in ticks
    Horizon,        \* bound: the clock stops here
    MaxPicks,       \* bound: sessions an agent starts
    MayRaise        \* may an agent meet an exception other than httpx.HTTPError?

Workers  == 0 .. Concurrency - 1
Sessions == 0 .. NumSessions - 1

\* Sessions without turns are never loaded (trace_loader.py:94).
ASSUME ReplayConstants ==
    /\ Concurrency \in Nat \ {0} /\ NumSessions \in Nat \ {0}
    /\ Deadline \in Nat \ {0} /\ Horizon \in Nat /\ MaxPicks \in Nat
    /\ MayRaise \in BOOLEAN
    /\ NoExec \notin Nat
    /\ Turns \in [Sessions -> Seq(Nat \cup {NoExec})]
    /\ \A s \in Sessions : Turns[s] # <<>>
    \* The clock goes on for as long as the last sleep may take.
    /\ Deadline <= Horizon
    /\ \A s \in Sessions : \A t \in DOMAIN Turns[s] :
          Turns[s][t] # NoExec => Deadline + Turns[s][t] <= Horizon

VARIABLES
    clock,          \* time.monotonic(), from the start of the run
    run,            \* run_concurrent_replay: "running", "raised", "finished", "failed"
    stats,          \* the ReplayStats it returns
    live,           \* LiveStats
    events,         \* turn_events.jsonl
    pc,             \* where each agent is
    session_idx,    \* _run_virtual_agent: sessions started so far, plus worker_id
    turn,           \* turn_idx + 1
    wake,           \* when the sleep before the turn is over
    started_at,     \* when the request was sent
    first_byte,     \* has first_byte_at been set?
    done,           \* _replay_session_turns: the session's turns_completed, _failed
    result          \* _run_virtual_agent: turns_completed, _failed, sessions_completed

agentVars  == <<pc, session_idx, turn, wake, started_at, first_byte, done, result>>
sharedVars == <<live, events>>
runVars    == <<run, stats>>
vars == <<clock, runVars, sharedVars, agentVars>>

-----------------------------------------------------------------------------
NoTurns == [turns_completed |-> 0, turns_failed |-> 0]
NoStats == [turns_completed |-> 0, turns_failed |-> 0, sessions_completed |-> 0]

Init ==
    /\ clock = 0
    /\ run = "running" /\ stats = NoStats
    /\ live = [turns_completed |-> 0, turns_failed |-> 0, sessions_completed |-> 0,
               ttft_count |-> 0]
    /\ events = <<>>
    /\ pc = [w \in Workers |-> "idle"]
    /\ session_idx = [w \in Workers |-> w]
    /\ turn = [w \in Workers |-> 1]
    /\ wake = [w \in Workers |-> 0]
    /\ started_at = [w \in Workers |-> 0]
    /\ first_byte = [w \in Workers |-> FALSE]
    /\ done = [w \in Workers |-> NoTurns]
    /\ result = [w \in Workers |-> NoStats]

\* While the exception of one agent is on its way out of gather, the others go on.
Loop == run \in {"running", "raised"}

-----------------------------------------------------------------------------
(* The pieces the actions share.  A definition X_... before X is a bug X does  *)
(* not have; the mutants of PROJECT.json put it in the place of X.             *)

\* The session an agent has started last, and the cycle it belongs to.
Session_OffByOne(w) == session_idx[w] % NumSessions
Session(w) == (session_idx[w] - 1) % NumSessions
Cycle(w) == (session_idx[w] - 1) \div NumSessions

NextIdx_Same(w) == session_idx[w]
NextIdx(w) == session_idx[w] + 1

KeepPicking_Always == TRUE
KeepPicking == clock < Deadline

OutOfTime_Never == FALSE
OutOfTime == clock >= Deadline

\* The sleep before a turn: none before the first request of a capture.
Pause(exec) == IF exec = NoExec THEN 0 ELSE exec

WakeTime_Now(exec) == clock
WakeTime(exec) == clock + Pause(exec)

\* 1 if the agent has seen a byte of the response.
Ttft_Always(w) == 1
Ttft(w) == IF first_byte[w] THEN 1 ELSE 0

\* 1 if the session has had a turn.
Played_Always(w) == 1
Played(w) == IF done[w].turns_completed + done[w].turns_failed > 0 THEN 1 ELSE 0

LivePlayed(w) == Played(w)

\* The row of the turn an agent is at.
Event(w, error) ==
    [worker_id |-> w, cycle |-> Cycle(w), session |-> Session(w), turn |-> turn[w],
     started_at |-> started_at[w], first_byte |-> first_byte[w],
     ended_at |-> clock, error |-> error]

-----------------------------------------------------------------------------
(* _run_virtual_agent *)

PickSession(w) ==
    /\ Loop /\ pc[w] = "idle" /\ KeepPicking
    /\ session_idx[w] < w + MaxPicks
    /\ session_idx' = [session_idx EXCEPT ![w] = NextIdx(w)]
    /\ turn' = [turn EXCEPT ![w] = 1]
    /\ done' = [done EXCEPT ![w] = NoTurns]
    /\ pc' = [pc EXCEPT ![w] = "turn"]
    /\ UNCHANGED <<clock, runVars, sharedVars, wake, started_at, first_byte, result>>

Return(w) ==
    /\ Loop /\ pc[w] = "idle" /\ ~KeepPicking
    /\ pc' = [pc EXCEPT ![w] = "returned"]
    /\ UNCHANGED <<clock, runVars, sharedVars, session_idx, turn, wake, started_at,
                   first_byte, done, result>>

-----------------------------------------------------------------------------
(* _replay_session_turns *)

TurnsLeft(w) == turn[w] <= Len(Turns[Session(w)])

BeginTurn(w) ==
    /\ Loop /\ pc[w] = "turn"
    /\ TurnsLeft(w) /\ ~OutOfTime
    /\ wake' = [wake EXCEPT ![w] = WakeTime(Turns[Session(w)][turn[w]])]
    /\ pc' = [pc EXCEPT ![w] = "sleeping"]
    /\ UNCHANGED <<clock, runVars, sharedVars, session_idx, turn, started_at,
                   first_byte, done, result>>

\* After the last turn, or at the deadline.
EndSession(w) ==
    /\ Loop /\ pc[w] = "turn"
    /\ ~TurnsLeft(w) \/ OutOfTime
    /\ live' = [live EXCEPT !.sessions_completed = @ + LivePlayed(w)]
    /\ result' = [result EXCEPT ![w] =
                    [turns_completed |-> @.turns_completed + done[w].turns_completed,
                     turns_failed |-> @.turns_failed + done[w].turns_failed,
                     sessions_completed |-> @.sessions_completed + Played(w)]]
    /\ done' = [done EXCEPT ![w] = NoTurns]
    /\ pc' = [pc EXCEPT ![w] = "idle"]
    /\ UNCHANGED <<clock, runVars, events, session_idx, turn, wake, started_at, first_byte>>

\* The sleep is over: the request is built and sent.  The deadline is not looked
\* at again.
Send(w) ==
    /\ Loop /\ pc[w] = "sleeping" /\ wake[w] <= clock
    /\ started_at' = [started_at EXCEPT ![w] = clock]
    /\ wake' = [wake EXCEPT ![w] = 0]
    /\ pc' = [pc EXCEPT ![w] = "streaming"]
    /\ UNCHANGED <<clock, runVars, sharedVars, session_idx, turn, first_byte, done, result>>

FirstByte(w) ==
    /\ Loop /\ pc[w] = "streaming" /\ ~first_byte[w]
    /\ first_byte' = [first_byte EXCEPT ![w] = TRUE]
    /\ UNCHANGED <<clock, runVars, sharedVars, pc, session_idx, turn, wake, started_at,
                   done, result>>

\* The counters after a stream that ended, whatever its status code.
CountCompleted(w) ==
    /\ done' = [done EXCEPT ![w].turns_completed = @ + 1]
    /\ live' = [live EXCEPT !.turns_completed = @ + 1, !.ttft_count = @ + Ttft(w)]

\* The counters after an httpx.HTTPError.
CountFailed(w) ==
    /\ done' = [done EXCEPT ![w].turns_failed = @ + 1]
    /\ live' = [live EXCEPT !.turns_failed = @ + 1]

Count(w, error) == IF error THEN CountFailed(w) ELSE CountCompleted(w)

\* The stream ends or fails, and the row is written: the lock of ReplayWriter is
\* never held across an await.
EndTurn(w, error) ==
    /\ Loop /\ pc[w] = "streaming"
    /\ Count(w, error)
    /\ events' = Append(events, Event(w, error))
    /\ turn' = [turn EXCEPT ![w] = @ + 1]
    /\ started_at' = [started_at EXCEPT ![w] = 0]
    /\ first_byte' = [first_byte EXCEPT ![w] = FALSE]
    /\ pc' = [pc EXCEPT ![w] = "turn"]
    /\ UNCHANGED <<clock, runVars, session_idx, wake, result>>

\* Any other exception in the stream: nothing is counted.
RaiseInStream(w) ==
    /\ MayRaise /\ Loop /\ pc[w] = "streaming"
    /\ pc' = [pc EXCEPT ![w] = "raised"]
    /\ UNCHANGED <<clock, runVars, sharedVars, session_idx, turn, wake, started_at,
                   first_byte, done, result>>

\* The row cannot be written: the turn is counted and not logged.
RaiseInWrite(w, error) ==
    /\ MayRaise /\ Loop /\ pc[w] = "streaming"
    /\ Count(w, error)
    /\ pc' = [pc EXCEPT ![w] = "unlogged"]
    /\ UNCHANGED <<clock, runVars, events, session_idx, turn, wake, started_at,
                   first_byte, result>>

-----------------------------------------------------------------------------
(* run_concurrent_replay *)

Gather ==
    /\ run = "running" /\ \A w \in Workers : pc[w] = "returned"
    /\ run' = "finished"
    /\ stats' = [turns_completed |-> SumFunction([w \in Workers |-> result[w].turns_completed]),
                 turns_failed |-> SumFunction([w \in Workers |-> result[w].turns_failed]),
                 sessions_completed |->
                     SumFunction([w \in Workers |-> result[w].sessions_completed])]
    /\ UNCHANGED <<clock, sharedVars, agentVars>>

GatherRaises ==
    /\ run = "running" /\ \E w \in Workers : pc[w] \in {"raised", "unlogged"}
    /\ run' = "raised"
    /\ UNCHANGED <<clock, stats, sharedVars, agentVars>>

\* asyncio.run cancels the agents gather has left running.
Cancel ==
    /\ run = "raised"
    /\ run' = "failed"
    /\ pc' = [w \in Workers |-> IF pc[w] \in {"returned", "raised", "unlogged"}
                                THEN pc[w] ELSE "cancelled"]
    /\ UNCHANGED <<clock, stats, sharedVars, session_idx, turn, wake, started_at,
                   first_byte, done, result>>

Tick ==
    /\ Loop /\ clock < Horizon
    /\ clock' = clock + 1
    /\ UNCHANGED <<runVars, sharedVars, agentVars>>

-----------------------------------------------------------------------------
AgentStep(w) == PickSession(w) \/ Return(w) \/ BeginTurn(w) \/ EndSession(w) \/ Send(w)

\* What the engine, or the end of its connection, does for an agent.
EngineStep(w) ==
    \/ FirstByte(w) \/ RaiseInStream(w)
    \/ \E error \in BOOLEAN : EndTurn(w, error) \/ RaiseInWrite(w, error)

RunStep == Gather \/ GatherRaises \/ Cancel

Terminated == run \in {"finished", "failed"} /\ UNCHANGED vars

Next == (\E w \in Workers : AgentStep(w) \/ EngineStep(w)) \/ RunStep \/ Tick \/ Terminated

Spec == Init /\ [][Next]_vars

\* The loop runs every agent that can run and time passes; every request ends,
\* which the code leaves to the engine (timeout=None).
FairSpec ==
    /\ Spec
    /\ \A w \in Workers : WF_vars(AgentStep(w)) /\ WF_vars(EngineStep(w))
    /\ WF_vars(RunStep) /\ WF_vars(Tick)

-----------------------------------------------------------------------------
(* Properties *)

EventType ==
    [worker_id : Workers, cycle : Nat, session : Sessions, turn : Nat \ {0},
     started_at : 0 .. Horizon, first_byte : BOOLEAN,
     ended_at : 0 .. Horizon, error : BOOLEAN]

TurnCounts    == [turns_completed : Nat, turns_failed : Nat]
SessionCounts == [turns_completed : Nat, turns_failed : Nat, sessions_completed : Nat]
LiveCounts    == [turns_completed : Nat, turns_failed : Nat, sessions_completed : Nat,
                  ttft_count : Nat]

\* (SessionsCountedOnce says what stats is.)
TypeOK ==
    /\ clock \in 0 .. Horizon
    /\ run \in {"running", "raised", "finished", "failed"}
    /\ live \in LiveCounts
    /\ events \in Seq(EventType)
    /\ pc \in [Workers -> {"idle", "turn", "sleeping", "streaming", "returned",
                           "raised", "unlogged", "cancelled"}]
    /\ session_idx \in [Workers -> Nat]
    /\ turn \in [Workers -> Nat \ {0}]
    /\ wake \in [Workers -> 0 .. Horizon]
    /\ started_at \in [Workers -> 0 .. Horizon]
    /\ first_byte \in [Workers -> BOOLEAN]
    /\ done \in [Workers -> TurnCounts]
    /\ result \in [Workers -> SessionCounts]

Logged(Test(_)) == Cardinality({i \in DOMAIN events : Test(events[i])})

\* The live counters are those of the event file: as many completed rows, failed
\* rows and rows with a ttft_ms and no error as the counters say, at every moment,
\* until an agent has failed to write its row (engine.py:330-365).
LiveMatchesEvents ==
    (\A w \in Workers : pc[w] # "unlogged") =>
        /\ live.turns_completed = Logged(LAMBDA e : ~e.error)
        /\ live.turns_failed = Logged(LAMBDA e : e.error)
        /\ live.ttft_count = Logged(LAMBDA e : ~e.error /\ e.first_byte)

Key(e) == <<e.worker_id, e.cycle, e.session, e.turn>>

\* worker_id, cycle, instance_id and turn name a row: no turn is logged twice.
EventKeysUnique ==
    \A i, j \in DOMAIN events : Key(events[i]) = Key(events[j]) => i = j

Idx(e) == e.cycle * NumSessions + e.session

\* Row i is the one before row j of the same agent.
Before(i, j) ==
    /\ i < j /\ events[i].worker_id = events[j].worker_id
    /\ \A k \in i + 1 .. j - 1 : events[k].worker_id # events[j].worker_id

\* An agent plays the pool in order from its own place, every session from its
\* first turn, without leaving out a turn or a session: "when a session ends, the
\* agent picks the next one from the pool, cycling as needed".
FollowsSchedule ==
    /\ \A j \in DOMAIN events :
          (\A i \in 1 .. j - 1 : events[i].worker_id # events[j].worker_id) =>
              Idx(events[j]) = events[j].worker_id /\ events[j].turn = 1
    /\ \A i, j \in DOMAIN events : Before(i, j) =>
          LET last == events[i] row == events[j] IN
          \/ Idx(row) = Idx(last) /\ row.turn = last.turn + 1
          \/ /\ Idx(row) = Idx(last) + 1 /\ row.turn = 1
             /\ last.turn = Len(Turns[last.session])

\* Between the end of a turn and the request of the next one of its session lies
\* at least the captured tool-execution time, and two requests of an agent never
\* overlap.
PacingRespected ==
    \A i, j \in DOMAIN events :
        LET before == events[i] after == events[j] IN
        (/\ before.worker_id = after.worker_id /\ Idx(before) = Idx(after)
         /\ after.turn = before.turn + 1) =>
            after.started_at >= before.ended_at + Pause(Turns[after.session][after.turn])

\* An agent sends at most one request after the deadline: the one whose sleep it
\* was in when the deadline passed.
OneLateRequest ==
    \A i, j \in DOMAIN events :
        (/\ events[i].worker_id = events[j].worker_id
         /\ events[i].started_at >= Deadline /\ events[j].started_at >= Deadline) => i = j

\* sessions_completed counts each session once, when the agent leaves it, if it had
\* a turn: the sessions of the rows, those not left yet apart (engine.py:367-368).
\* And what gather adds up of the agents' own results is what the shared counters
\* have counted: the summary and the live display of a run agree (277-279).
SessionsCountedOnce ==
    /\ (\A w \in Workers : pc[w] # "unlogged") =>
          live.sessions_completed =
              Cardinality({<<events[i].worker_id, Idx(events[i])>> : i \in
                  {k \in DOMAIN events : LET w == events[k].worker_id IN
                      \/ Idx(events[k]) < session_idx[w] - 1
                      \/ pc[w] \in {"idle", "returned"}
                      \/ pc[w] = "cancelled" /\ done[w] = NoTurns}})
    /\ run = "finished" =>
          /\ stats.turns_completed = live.turns_completed
          /\ stats.turns_failed = live.turns_failed
          /\ stats.sessions_completed = live.sessions_completed

\* If every request ends, so does the run: with statistics, or with an exception.
Terminates == <>(run \in {"finished", "failed"})
=============================================================================
