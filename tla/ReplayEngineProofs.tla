------------------------- MODULE ReplayEngineProofs -------------------------
(***************************************************************************)
(* Theorems about ReplayEngine, for every number of agents and sessions,   *)
(* every capture and every deadline.                                       *)
(***************************************************************************)
EXTENDS ReplayEngine, FoldLemmas

-----------------------------------------------------------------------------
(* What the operators of the model return *)

\* Division by the length of the pool.
LEMMA DivMod ==
  ASSUME NEW a \in Nat, NEW n \in Nat \ {0}
  PROVE  /\ a % n \in 0 .. n - 1 /\ a \div n \in Nat
         /\ (a \div n) * n + (a % n) = a
OBVIOUS

-----------------------------------------------------------------------------
(* Types, and where an agent is in the pool *)

AtTurn(w) == pc[w] \in {"turn", "sleeping", "streaming"}

\* An agent at a turn has started a session: it is past its own place in the pool.
PlaceInv ==
    \A w \in Workers : session_idx[w] >= w /\ (AtTurn(w) => session_idx[w] > w)

\* The session and the cycle of an agent that has started one.
LEMMA Place ==
  ASSUME TypeOK, PlaceInv, NEW w \in Workers, AtTurn(w)
  PROVE  /\ Session(w) \in Sessions /\ Cycle(w) \in Nat
         /\ Cycle(w) * NumSessions + Session(w) = session_idx[w] - 1
<1>1. session_idx[w] \in Nat /\ session_idx[w] > w
  BY DEF TypeOK, PlaceInv
<1>2. w \in Nat
  BY ReplayConstants DEF Workers
<1>3. session_idx[w] - 1 \in Nat
  BY <1>1, <1>2
<1> QED
  BY <1>3, DivMod, ReplayConstants DEF Session, Cycle, Sessions

LEMMA EventTyped ==
  ASSUME TypeOK, PlaceInv, NEW w \in Workers, NEW error \in BOOLEAN, AtTurn(w)
  PROVE  Event(w, error) \in EventType
<1>1. Session(w) \in Sessions /\ Cycle(w) \in Nat
  BY Place
<1>2. /\ turn[w] \in Nat \ {0} /\ started_at[w] \in 0 .. Horizon
      /\ first_byte[w] \in BOOLEAN /\ clock \in 0 .. Horizon
  BY DEF TypeOK
<1> QED
  BY <1>1, <1>2 DEF Event, EventType

LEMMA TypeInit == Init => TypeOK /\ PlaceInv
<1> SUFFICES ASSUME Init
             PROVE  TypeOK /\ PlaceInv
  OBVIOUS
<1>1. 0 \in 0 .. Horizon /\ Workers \subseteq Nat
  BY ReplayConstants DEF Workers
<1>2. events \in Seq(EventType)
  BY DEF Init
<1>3. NoTurns \in TurnCounts /\ NoStats \in SessionCounts /\ live \in LiveCounts
  BY DEF Init, NoTurns, NoStats, TurnCounts, SessionCounts, LiveCounts
<1>4. TypeOK
  BY <1>1, <1>2, <1>3 DEF Init, TypeOK
<1>5. PlaceInv
  BY <1>1 DEF Init, PlaceInv, AtTurn
<1> QED
  BY <1>4, <1>5

\* The sleep before the turn an agent is at.
LEMMA PauseTyped ==
  ASSUME TypeOK, PlaceInv, NEW w \in Workers, AtTurn(w), TurnsLeft(w)
  PROVE  LET exec == Turns[Session(w)][turn[w]] IN
         Pause(exec) \in Nat /\ Deadline + Pause(exec) <= Horizon
<1> DEFINE exec == Turns[Session(w)][turn[w]]
<1>1. Session(w) \in Sessions
  BY Place
<1>2. Turns[Session(w)] \in Seq(Nat \cup {NoExec})
  BY <1>1, ReplayConstants
<1>3. turn[w] \in DOMAIN Turns[Session(w)]
  BY <1>2 DEF TurnsLeft, TypeOK
<1>4. exec \in Nat \cup {NoExec}
  BY <1>2, <1>3
<1>5. exec # NoExec => Deadline + exec <= Horizon
  BY <1>1, <1>3, ReplayConstants
<1>6. Deadline \in Nat /\ Horizon \in Nat /\ Deadline <= Horizon
  BY ReplayConstants
<1> HIDE DEF exec
<1>7. Pause(exec) \in Nat /\ Deadline + Pause(exec) <= Horizon
  BY <1>4, <1>5, <1>6 DEF Pause
<1> QED
  BY <1>7 DEF exec

LEMMA BeginTurnTyped ==
  ASSUME TypeOK, PlaceInv, NEW w \in Workers, BeginTurn(w)
  PROVE  WakeTime(Turns[Session(w)][turn[w]]) \in 0 .. Horizon
<1>1. clock \in Nat /\ clock < Deadline /\ Deadline \in Nat /\ Horizon \in Nat
  BY ReplayConstants DEF BeginTurn, OutOfTime, TypeOK
<1>2. /\ Pause(Turns[Session(w)][turn[w]]) \in Nat
      /\ Deadline + Pause(Turns[Session(w)][turn[w]]) <= Horizon
  BY PauseTyped DEF BeginTurn, AtTurn
<1> QED
  BY <1>1, <1>2 DEF WakeTime

LEMMA CountTyped ==
  ASSUME TypeOK, NEW w \in Workers, NEW error \in BOOLEAN, Count(w, error)
  PROVE  live' \in LiveCounts /\ done' \in [Workers -> TurnCounts]
<1>1. Ttft(w) \in Nat
  BY DEF Ttft
<1>2. live \in LiveCounts /\ done \in [Workers -> TurnCounts] /\ done[w] \in TurnCounts
  BY DEF TypeOK
<1>3. CASE error
  <2>1. live' = [live EXCEPT !.turns_failed = @ + 1]
    BY <1>3 DEF Count, CountFailed
  <2>2. done' = [done EXCEPT ![w] = [done[w] EXCEPT !.turns_failed = @ + 1]]
    BY <1>3 DEF Count, CountFailed
  <2>3. [done[w] EXCEPT !.turns_failed = @ + 1] \in TurnCounts
    BY <1>2 DEF TurnCounts
  <2>4. live' \in LiveCounts
    BY <1>2, <2>1 DEF LiveCounts
  <2> QED
    BY <1>2, <2>2, <2>3, <2>4
<1>4. CASE ~error
  <2>1. live' = [live EXCEPT !.turns_completed = @ + 1, !.ttft_count = @ + Ttft(w)]
    BY <1>4 DEF Count, CountCompleted
  <2>2. done' = [done EXCEPT ![w] = [done[w] EXCEPT !.turns_completed = @ + 1]]
    BY <1>4 DEF Count, CountCompleted
  <2>3. [done[w] EXCEPT !.turns_completed = @ + 1] \in TurnCounts
    BY <1>2 DEF TurnCounts
  <2>4. live' \in LiveCounts
    <3>1. live.turns_completed + 1 \in Nat /\ live.ttft_count + Ttft(w) \in Nat
      BY <1>1, <1>2 DEF LiveCounts
    <3>2. live' = [turns_completed |-> live.turns_completed + 1,
                   turns_failed |-> live.turns_failed,
                   sessions_completed |-> live.sessions_completed,
                   ttft_count |-> live.ttft_count + Ttft(w)]
      BY <1>2, <2>1 DEF LiveCounts
    <3> QED
      BY <1>2, <3>1, <3>2 DEF LiveCounts
  <2> QED
    BY <1>2, <2>2, <2>3, <2>4
<1> QED
  BY <1>3, <1>4

LEMMA TypeStep ==
  ASSUME TypeOK, PlaceInv, [Next]_vars
  PROVE  TypeOK' /\ PlaceInv'
<1> USE DEF runVars, sharedVars, agentVars, AtTurn
<1>0. Workers \subseteq Nat
  BY ReplayConstants DEF Workers
<1>1. ASSUME NEW w \in Workers, PickSession(w)
      PROVE  TypeOK' /\ PlaceInv'
  <2>1. NoTurns \in TurnCounts /\ session_idx[w] + 1 \in Nat
    BY DEF NoTurns, TurnCounts, TypeOK
  <2>3. TypeOK'
    BY <1>1, <2>1 DEF PickSession, NextIdx, TypeOK
  <2>2. PlaceInv'
    BY <1>0, <1>1 DEF PickSession, NextIdx, TypeOK, PlaceInv
  <2> QED
    BY <2>2, <2>3
<1>2. ASSUME NEW w \in Workers, Return(w)
      PROVE  TypeOK' /\ PlaceInv'
  BY <1>2 DEF Return, TypeOK, PlaceInv
<1>3. ASSUME NEW w \in Workers, BeginTurn(w)
      PROVE  TypeOK' /\ PlaceInv'
  <2>1. WakeTime(Turns[Session(w)][turn[w]]) \in 0 .. Horizon
    BY <1>3, BeginTurnTyped
  <2> QED
    BY <1>3, <2>1 DEF BeginTurn, TypeOK, PlaceInv
<1>4. ASSUME NEW w \in Workers, EndSession(w)
      PROVE  TypeOK' /\ PlaceInv'
  <2>1. Played(w) \in Nat /\ LivePlayed(w) \in Nat
    BY DEF Played, LivePlayed
  <2>2. done[w] \in TurnCounts /\ result[w] \in SessionCounts /\ live \in LiveCounts
    BY DEF TypeOK
  <2>3. [turns_completed |-> result[w].turns_completed + done[w].turns_completed,
         turns_failed |-> result[w].turns_failed + done[w].turns_failed,
         sessions_completed |-> result[w].sessions_completed + Played(w)] \in SessionCounts
    BY <2>1, <2>2 DEF TurnCounts, SessionCounts
  <2>4. result' \in [Workers -> SessionCounts]
    BY <1>4, <2>3 DEF EndSession, TypeOK
  <2>5. live' \in LiveCounts
    BY <1>4, <2>1, <2>2 DEF EndSession, LiveCounts
  <2>6. NoTurns \in TurnCounts
    BY DEF NoTurns, TurnCounts
  <2> QED
    BY <1>4, <2>4, <2>5, <2>6 DEF EndSession, TypeOK, PlaceInv
<1>5. ASSUME NEW w \in Workers, Send(w)
      PROVE  TypeOK' /\ PlaceInv'
  <2>1. 0 \in 0 .. Horizon
    BY ReplayConstants
  <2> QED
    BY <1>5, <2>1 DEF Send, TypeOK, PlaceInv
<1>6. ASSUME NEW w \in Workers, FirstByte(w)
      PROVE  TypeOK' /\ PlaceInv'
  BY <1>6 DEF FirstByte, TypeOK, PlaceInv
<1>7. ASSUME NEW w \in Workers, NEW error \in BOOLEAN, EndTurn(w, error)
      PROVE  TypeOK' /\ PlaceInv'
  <2>1. Event(w, error) \in EventType
    BY <1>7, EventTyped DEF EndTurn
  <2>2. events' \in Seq(EventType)
    BY <1>7, <2>1 DEF EndTurn, TypeOK
  <2>3. 0 \in 0 .. Horizon
    BY ReplayConstants
  <2> QED
    <3>1. live' \in LiveCounts /\ done' \in [Workers -> TurnCounts]
      BY <1>7, CountTyped DEF EndTurn
    <3>2. /\ turn' \in [Workers -> Nat \ {0}] /\ started_at' \in [Workers -> 0 .. Horizon]
          /\ first_byte' \in [Workers -> BOOLEAN]
      BY <1>7, <2>3 DEF EndTurn, TypeOK
    <3>3. TypeOK'
      BY <1>7, <2>2, <3>1, <3>2 DEF EndTurn, TypeOK
    <3>4. PlaceInv'
      BY <1>7 DEF EndTurn, TypeOK, PlaceInv
    <3> QED
      BY <3>3, <3>4
<1>8. ASSUME NEW w \in Workers, RaiseInStream(w)
      PROVE  TypeOK' /\ PlaceInv'
  BY <1>8 DEF RaiseInStream, TypeOK, PlaceInv
<1>9. ASSUME NEW w \in Workers, NEW error \in BOOLEAN, RaiseInWrite(w, error)
      PROVE  TypeOK' /\ PlaceInv'
  <2>1. live' \in LiveCounts /\ done' \in [Workers -> TurnCounts]
    BY <1>9, CountTyped DEF RaiseInWrite
  <2> QED
    BY <1>9, <2>1 DEF RaiseInWrite, TypeOK, PlaceInv
<1>10. CASE RunStep
  BY <1>10 DEF RunStep, Gather, GatherRaises, Cancel, TypeOK, PlaceInv
<1>11. CASE Tick
  BY <1>11, ReplayConstants DEF Tick, TypeOK, PlaceInv
<1>12. CASE UNCHANGED vars
  BY <1>12 DEF vars, TypeOK, PlaceInv
<1> QED
  BY <1>1, <1>2, <1>3, <1>4, <1>5, <1>6, <1>7, <1>8, <1>9, <1>10, <1>11, <1>12
  DEF Next, AgentStep, EngineStep, Terminated

LEMMA TypeAndPlace == Spec => [](TypeOK /\ PlaceInv)
<1>1. Init => TypeOK /\ PlaceInv
  BY TypeInit
<1>2. TypeOK /\ PlaceInv /\ [Next]_vars => TypeOK' /\ PlaceInv'
  BY TypeStep
<1> QED
  BY <1>1, <1>2, PTL DEF Spec

\* Every variable keeps its type; in particular no sleep ends beyond the horizon
\* and every row names a session of the pool.
THEOREM TypeCorrect == Spec => []TypeOK
BY TypeAndPlace, PTL

-----------------------------------------------------------------------------
(* What a row says of its place *)

\* The row an agent appends is for the session it is at.
LEMMA EventPlace ==
  ASSUME TypeOK, PlaceInv, NEW w \in Workers, NEW error, AtTurn(w)
  PROVE  /\ Event(w, error).worker_id = w /\ Event(w, error).turn = turn[w]
         /\ Event(w, error).session = Session(w) /\ Event(w, error).cycle = Cycle(w)
         /\ Event(w, error).started_at = started_at[w] /\ Event(w, error).ended_at = clock
         /\ Event(w, error).error = error /\ Event(w, error).first_byte = first_byte[w]
         /\ Idx(Event(w, error)) = session_idx[w] - 1
<1>1. Cycle(w) * NumSessions + Session(w) = session_idx[w] - 1
  BY Place
<1> QED
  BY <1>1 DEF Event, Idx

LEMMA EventFields ==
  ASSUME TypeOK
  PROVE  \A i \in DOMAIN events :
           /\ events[i] \in EventType /\ events[i].worker_id \in Workers
           /\ events[i].turn \in Nat \ {0} /\ Idx(events[i]) \in Nat
           /\ events[i].session \in Sessions
           /\ events[i].started_at \in Nat /\ events[i].ended_at \in Nat
<1> SUFFICES ASSUME NEW i \in DOMAIN events
             PROVE  /\ events[i] \in EventType /\ events[i].worker_id \in Workers
                    /\ events[i].turn \in Nat \ {0} /\ Idx(events[i]) \in Nat
                    /\ events[i].session \in Sessions
                    /\ events[i].started_at \in Nat /\ events[i].ended_at \in Nat
  OBVIOUS
<1>1. events[i] \in EventType
  BY DEF TypeOK
<1>2. events[i].cycle \in Nat /\ events[i].session \in Nat /\ NumSessions \in Nat
  BY <1>1, ReplayConstants DEF EventType, Sessions
<1>3. events[i].cycle * NumSessions \in Nat
  BY <1>2
<1>4. Idx(events[i]) \in Nat
  BY <1>2, <1>3 DEF Idx
<1> QED
  BY <1>1, <1>4, ReplayConstants DEF EventType

\* Appending a row keeps the others.
LEMMA AppendEvent ==
  ASSUME NEW e, NEW S, events \in Seq(S), events' = Append(events, e)
  PROVE  /\ Len(events) \in Nat /\ DOMAIN events = 1 .. Len(events)
         /\ DOMAIN events' = DOMAIN events \cup {Len(events) + 1}
         /\ Len(events) + 1 \notin DOMAIN events
         /\ events'[Len(events) + 1] = e
         /\ \A i \in DOMAIN events : events'[i] = events[i]
OBVIOUS

\* The steps that matter to where rows and agents are: a session is picked, a turn
\* ends, or no row is written and nobody moves on in the pool.
LEMMA Moves ==
  ASSUME TypeOK, [Next]_vars
  PROVE  \/ \E w \in Workers : PickSession(w)
         \/ \E w \in Workers, error \in BOOLEAN : EndTurn(w, error)
         \/ /\ UNCHANGED <<events, session_idx, turn>>
            /\ \A w \in Workers : AtTurn(w)' => AtTurn(w)
<1> DEFINE Stays == /\ UNCHANGED <<events, session_idx, turn>>
                    /\ \A v \in Workers : AtTurn(v)' => AtTurn(v)
<1> USE DEF runVars, sharedVars, agentVars, AtTurn
<1>0. pc = [v \in Workers |-> pc[v]]
  BY DEF TypeOK
<1>1. ASSUME NEW w \in Workers, Return(w) \/ BeginTurn(w) \/ EndSession(w) \/ Send(w)
      PROVE  Stays
  BY <1>0, <1>1 DEF Return, BeginTurn, EndSession, Send
<1>2. ASSUME NEW w \in Workers, FirstByte(w) \/ RaiseInStream(w)
      PROVE  Stays
  BY <1>0, <1>2 DEF FirstByte, RaiseInStream
<1>3. ASSUME NEW w \in Workers, NEW error \in BOOLEAN, RaiseInWrite(w, error)
      PROVE  Stays
  BY <1>0, <1>3 DEF RaiseInWrite
<1>4. ASSUME RunStep \/ Tick \/ UNCHANGED vars
      PROVE  Stays
  BY <1>4 DEF RunStep, Gather, GatherRaises, Cancel, Tick, vars
<1> QED
  BY <1>1, <1>2, <1>3, <1>4 DEF Next, AgentStep, EngineStep, Terminated

-----------------------------------------------------------------------------
(* No turn is logged twice *)

\* EventKeysUnique, made inductive: every row of an agent is for a session it has
\* started, and a row of the session it is at is for an earlier turn.
KeysInv ==
    /\ EventKeysUnique
    /\ \A i \in DOMAIN events, w \in Workers : events[i].worker_id = w =>
          /\ Idx(events[i]) < session_idx[w]
          /\ (AtTurn(w) /\ Idx(events[i]) = session_idx[w] - 1) => events[i].turn < turn[w]

LEMMA KeysEndTurn ==
  ASSUME TypeOK, PlaceInv, KeysInv, NEW w \in Workers, NEW error \in BOOLEAN, EndTurn(w, error)
  PROVE  KeysInv'
<1> DEFINE e == Event(w, error)
<1>1. AtTurn(w)
  BY DEF EndTurn, AtTurn
<1>2. /\ e.worker_id = w /\ e.turn = turn[w] /\ Idx(e) = session_idx[w] - 1
  BY <1>1, EventPlace
<1>3. /\ DOMAIN events' = DOMAIN events \cup {Len(events) + 1}
      /\ events'[Len(events) + 1] = e
      /\ \A i \in DOMAIN events : events'[i] = events[i]
  BY AppendEvent DEF EndTurn, TypeOK
<1>4. /\ session_idx' = session_idx /\ turn' = [turn EXCEPT ![w] = @ + 1]
      /\ \A v \in Workers : AtTurn(v)' => AtTurn(v)
  BY DEF EndTurn, AtTurn, TypeOK
<1>5. turn \in [Workers -> Nat \ {0}] /\ session_idx \in [Workers -> Nat]
  BY DEF TypeOK
<1> HIDE DEF e
<1>6. ASSUME NEW i \in DOMAIN events, Key(events[i]) = Key(e)
      PROVE  FALSE
  <2>1. events[i].worker_id = w /\ Idx(events[i]) = Idx(e) /\ events[i].turn = turn[w]
    BY <1>2, <1>6 DEF Key, Idx
  <2>2. events[i].turn < turn[w]
    BY <1>1, <1>2, <2>1 DEF KeysInv
  <2> QED
    BY <2>1, <2>2, <1>5
<1>7. EventKeysUnique'
  BY <1>3, <1>6 DEF KeysInv, EventKeysUnique
<1>8. ASSUME NEW i \in DOMAIN events', NEW v \in Workers, events'[i].worker_id = v
      PROVE  /\ Idx(events'[i]) < session_idx'[v]
             /\ (AtTurn(v)' /\ Idx(events'[i]) = session_idx'[v] - 1) => events'[i].turn < turn'[v]
  <2>1. CASE i = Len(events) + 1
    BY <2>1, <1>2, <1>3, <1>4, <1>5, <1>8
  <2>2. CASE i \in DOMAIN events
    <3>1. events[i].turn \in Nat /\ events'[i] = events[i]
      BY <2>2, <1>3, EventFields
    <3>2. /\ Idx(events[i]) < session_idx[v]
          /\ (AtTurn(v) /\ Idx(events[i]) = session_idx[v] - 1) => events[i].turn < turn[v]
      BY <2>2, <3>1, <1>8 DEF KeysInv
    <3>3. turn'[v] >= turn[v] /\ turn[v] \in Nat
      BY <1>4, <1>5
    <3> QED
      BY <3>1, <3>2, <3>3, <1>4, <1>5
  <2> QED
    BY <2>1, <2>2, <1>3
<1> QED
  BY <1>7, <1>8 DEF KeysInv, Idx

LEMMA KeysStep ==
  ASSUME TypeOK, PlaceInv, KeysInv, [Next]_vars
  PROVE  KeysInv'
<1>1. ASSUME NEW w \in Workers, PickSession(w)
      PROVE  KeysInv'
  <2>1. /\ events' = events /\ session_idx' = [session_idx EXCEPT ![w] = @ + 1]
        /\ turn' = [turn EXCEPT ![w] = 1]
        /\ \A v \in Workers \ {w} : AtTurn(v)' => AtTurn(v)
    BY <1>1 DEF PickSession, NextIdx, sharedVars, AtTurn, TypeOK
  <2>2. session_idx \in [Workers -> Nat] /\ turn \in [Workers -> Nat \ {0}]
    BY DEF TypeOK
  <2>3. ASSUME NEW i \in DOMAIN events, NEW v \in Workers, events[i].worker_id = v
        PROVE  /\ Idx(events[i]) < session_idx'[v]
               /\ (AtTurn(v)' /\ Idx(events[i]) = session_idx'[v] - 1) => events[i].turn < turn'[v]
    <3>1. Idx(events[i]) \in Nat /\ Idx(events[i]) < session_idx[v]
      BY <2>3, EventFields DEF KeysInv
    <3>2. CASE v = w
      BY <3>1, <3>2, <2>1, <2>2
    <3>3. CASE v # w
      BY <2>3, <3>3, <2>1, <2>2 DEF KeysInv
    <3> QED
      BY <3>2, <3>3
  <2> QED
    BY <2>1, <2>3 DEF KeysInv, EventKeysUnique, Key, Idx
<1>2. ASSUME UNCHANGED <<events, session_idx, turn>>, \A w \in Workers : AtTurn(w)' => AtTurn(w)
      PROVE  KeysInv'
  BY <1>2, EventFields DEF KeysInv, EventKeysUnique, Key, Idx
<1> QED
  BY <1>1, <1>2, KeysEndTurn, Moves

\* worker_id, cycle, instance_id and turn identify a row of turn_events.jsonl, with
\* any number of agents and sessions.
THEOREM KeysUnique == Spec => []EventKeysUnique
<1>1. Init => KeysInv
  BY DEF Init, KeysInv, EventKeysUnique
<1>2. TypeOK /\ PlaceInv /\ KeysInv /\ [Next]_vars => KeysInv'
  BY KeysStep
<1>3. KeysInv => EventKeysUnique
  BY DEF KeysInv
<1> QED
  BY <1>1, <1>2, <1>3, TypeAndPlace, PTL DEF Spec

-----------------------------------------------------------------------------
(* At most one request after the deadline *)

Requesting(w) == pc[w] \in {"sleeping", "streaming"}

\* The steps that matter to when requests are sent.
LEMMA RequestMoves ==
  ASSUME TypeOK, [Next]_vars
  PROVE  \/ \E w \in Workers : BeginTurn(w) \/ Send(w)
         \/ \E w \in Workers, error \in BOOLEAN : EndTurn(w, error)
         \/ Tick
         \/ /\ UNCHANGED <<events, clock>>
            /\ \A w \in Workers : Requesting(w)' =>
                  /\ pc'[w] = pc[w] /\ started_at'[w] = started_at[w] /\ wake'[w] = wake[w]
                  /\ session_idx'[w] = session_idx[w] /\ turn'[w] = turn[w]
<1> DEFINE Stays ==
      /\ UNCHANGED <<events, clock>>
      /\ \A v \in Workers : Requesting(v)' =>
            /\ pc'[v] = pc[v] /\ started_at'[v] = started_at[v] /\ wake'[v] = wake[v]
            /\ session_idx'[v] = session_idx[v] /\ turn'[v] = turn[v]
<1> USE DEF runVars, sharedVars, agentVars, Requesting
<1>0. /\ pc = [v \in Workers |-> pc[v]] /\ session_idx = [v \in Workers |-> session_idx[v]]
      /\ turn = [v \in Workers |-> turn[v]]
  BY DEF TypeOK
<1>1. ASSUME NEW w \in Workers, PickSession(w)
      PROVE  Stays
  BY <1>0, <1>1 DEF PickSession
<1>2. ASSUME NEW w \in Workers, Return(w) \/ EndSession(w)
      PROVE  Stays
  BY <1>0, <1>2 DEF Return, EndSession
<1>3. ASSUME NEW w \in Workers, FirstByte(w) \/ RaiseInStream(w)
      PROVE  Stays
  BY <1>0, <1>3 DEF FirstByte, RaiseInStream
<1>4. ASSUME NEW w \in Workers, NEW error \in BOOLEAN, RaiseInWrite(w, error)
      PROVE  Stays
  BY <1>0, <1>4 DEF RaiseInWrite
<1>5. ASSUME RunStep \/ UNCHANGED vars
      PROVE  Stays
  BY <1>5 DEF RunStep, Gather, GatherRaises, Cancel, vars
<1> QED
  BY <1>1, <1>2, <1>3, <1>4, <1>5 DEF Next, AgentStep, EngineStep, Terminated

\* OneLateRequest, made inductive: no request was sent in the future, and an agent
\* that has sent a late one neither sleeps before a request nor has one out.
LateInv ==
    /\ OneLateRequest
    /\ \A w \in Workers : pc[w] = "streaming" => started_at[w] <= clock
    /\ \A i \in DOMAIN events, w \in Workers : events[i].worker_id = w =>
          /\ events[i].started_at <= clock
          /\ events[i].started_at >= Deadline => ~Requesting(w)

LEMMA LateEndTurn ==
  ASSUME TypeOK, PlaceInv, LateInv, NEW w \in Workers, NEW error \in BOOLEAN, EndTurn(w, error)
  PROVE  LateInv'
<1> DEFINE e == Event(w, error)
<1>1. e.worker_id = w /\ e.started_at = started_at[w]
  BY EventPlace DEF EndTurn, AtTurn
<1>2. /\ DOMAIN events' = DOMAIN events \cup {Len(events) + 1}
      /\ events'[Len(events) + 1] = e
      /\ \A i \in DOMAIN events : events'[i] = events[i]
  BY AppendEvent DEF EndTurn, TypeOK
<1>3. /\ clock' = clock /\ Requesting(w) /\ ~Requesting(w)'
      /\ \A v \in Workers \ {w} : pc'[v] = pc[v] /\ started_at'[v] = started_at[v]
      /\ pc'[w] # "streaming" /\ started_at[w] <= clock
  BY DEF EndTurn, Requesting, TypeOK, LateInv
<1> HIDE DEF e
<1>4. \A i \in DOMAIN events : events[i].worker_id = w => ~(events[i].started_at >= Deadline)
  BY <1>3 DEF LateInv
<1>5. OneLateRequest'
  BY <1>1, <1>2, <1>4 DEF LateInv, OneLateRequest
<1>6. \A v \in Workers : pc'[v] = "streaming" => started_at'[v] <= clock'
  BY <1>3 DEF LateInv
<1>7. ASSUME NEW i \in DOMAIN events', NEW v \in Workers, events'[i].worker_id = v
      PROVE  /\ events'[i].started_at <= clock'
             /\ events'[i].started_at >= Deadline => ~Requesting(v)'
  <2>1. CASE i = Len(events) + 1
    BY <2>1, <1>1, <1>2, <1>3, <1>7
  <2>2. CASE i \in DOMAIN events
    BY <2>2, <1>2, <1>3, <1>7 DEF LateInv, Requesting
  <2> QED
    BY <2>1, <2>2, <1>2
<1> QED
  BY <1>5, <1>6, <1>7 DEF LateInv

LEMMA LateStep ==
  ASSUME TypeOK, PlaceInv, LateInv, [Next]_vars
  PROVE  LateInv'
<1>0. clock \in Nat /\ Deadline \in Nat
  BY ReplayConstants DEF TypeOK
<1>1. ASSUME NEW w \in Workers, BeginTurn(w)
      PROVE  LateInv'
  <2>1. /\ UNCHANGED <<events, clock, started_at>> /\ clock < Deadline
        /\ pc' = [pc EXCEPT ![w] = "sleeping"]
    BY <1>1, <1>0 DEF BeginTurn, OutOfTime, sharedVars
  <2>2. \A i \in DOMAIN events : events[i].worker_id = w => ~(events[i].started_at >= Deadline)
    BY <2>1, <1>0, EventFields DEF LateInv
  <2> QED
    BY <2>1, <2>2 DEF LateInv, OneLateRequest, Requesting, TypeOK
<1>2. ASSUME NEW w \in Workers, Send(w)
      PROVE  LateInv'
  <2>1. /\ UNCHANGED <<events, clock>> /\ pc[w] = "sleeping"
        /\ pc' = [pc EXCEPT ![w] = "streaming"]
        /\ started_at' = [started_at EXCEPT ![w] = clock]
    BY <1>2 DEF Send, sharedVars
  <2> QED
    BY <2>1, <1>0 DEF LateInv, OneLateRequest, Requesting, TypeOK
<1>3. CASE Tick
  <2>1. clock' = clock + 1 /\ UNCHANGED <<events, pc, started_at>>
    BY <1>3 DEF Tick, sharedVars, agentVars
  <2>2. \A w \in Workers : started_at[w] \in Nat
    BY DEF TypeOK
  <2> QED
    BY <2>1, <2>2, <1>0, EventFields DEF LateInv, OneLateRequest, Requesting
<1>4. ASSUME UNCHANGED <<events, clock>>,
             \A w \in Workers : Requesting(w)' => pc'[w] = pc[w] /\ started_at'[w] = started_at[w]
      PROVE  LateInv'
  BY <1>4, EventFields DEF LateInv, OneLateRequest, Requesting
<1> QED
  BY <1>1, <1>2, <1>3, <1>4, LateEndTurn, RequestMoves

\* With any concurrency and any sleeps, an agent's overrun of the deadline is one
\* request.
THEOREM AtMostOneLate == Spec => []OneLateRequest
<1>1. Init => LateInv
  BY DEF Init, LateInv, OneLateRequest
<1>2. TypeOK /\ PlaceInv /\ LateInv /\ [Next]_vars => LateInv'
  BY LateStep
<1>3. LateInv => OneLateRequest
  BY DEF LateInv
<1> QED
  BY <1>1, <1>2, <1>3, TypeAndPlace, PTL DEF Spec

-----------------------------------------------------------------------------
(* The captured pauses are kept *)

NeedsPause(i, w) == /\ events[i].worker_id = w
                    /\ Idx(events[i]) = session_idx[w] - 1
                    /\ turn[w] = events[i].turn + 1

\* The earliest time for the request of the turn w is at, if row i came before it.
Earliest(i, w) == events[i].ended_at + Pause(Turns[Session(w)][turn[w]])

\* PacingRespected, made inductive: no row ends in the future, and the sleep or the
\* request of an agent keeps the pause after the row before it.
PaceInv ==
    /\ PacingRespected
    /\ \A w \in Workers : Requesting(w) => TurnsLeft(w)
    /\ \A i \in DOMAIN events : events[i].ended_at <= clock
    /\ \A i \in DOMAIN events, w \in Workers : NeedsPause(i, w) =>
          /\ pc[w] = "sleeping" => wake[w] >= Earliest(i, w)
          /\ pc[w] = "streaming" => started_at[w] >= Earliest(i, w)

LEMMA EarliestTyped ==
  ASSUME TypeOK, PlaceInv, NEW i \in DOMAIN events, NEW w \in Workers, AtTurn(w), TurnsLeft(w)
  PROVE  Earliest(i, w) \in Nat /\ Pause(Turns[Session(w)][turn[w]]) \in Nat
BY PauseTyped, EventFields DEF Earliest

LEMMA PaceEndTurn ==
  ASSUME TypeOK, PlaceInv, KeysInv, PaceInv,
         NEW w \in Workers, NEW error \in BOOLEAN, EndTurn(w, error)
  PROVE  PaceInv'
<1> DEFINE e == Event(w, error)
<1>1. /\ e.worker_id = w /\ e.turn = turn[w] /\ e.session = Session(w)
      /\ e.started_at = started_at[w] /\ e.ended_at = clock
      /\ Idx(e) = session_idx[w] - 1
  BY EventPlace DEF EndTurn, AtTurn
<1>2. /\ DOMAIN events' = DOMAIN events \cup {Len(events) + 1}
      /\ Len(events) + 1 \notin DOMAIN events
      /\ events'[Len(events) + 1] = e
      /\ \A i \in DOMAIN events : events'[i] = events[i]
  BY AppendEvent DEF EndTurn, TypeOK
<1>3. /\ clock' = clock /\ clock \in Nat /\ session_idx' = session_idx
      /\ pc[w] = "streaming" /\ pc'[w] = "turn" /\ AtTurn(w)
      /\ \A v \in Workers \ {w} : /\ pc'[v] = pc[v] /\ started_at'[v] = started_at[v]
                                  /\ wake'[v] = wake[v] /\ turn'[v] = turn[v]
  BY DEF EndTurn, AtTurn, TypeOK
<1>4. turn[w] \in Nat
  BY DEF TypeOK
<1> HIDE DEF e
<1>5. PacingRespected'
  <2> SUFFICES ASSUME NEW i \in DOMAIN events', NEW j \in DOMAIN events',
                      events'[i].worker_id = events'[j].worker_id,
                      Idx(events'[i]) = Idx(events'[j]),
                      events'[j].turn = events'[i].turn + 1
               PROVE  events'[j].started_at >= events'[i].ended_at
                          + Pause(Turns[events'[j].session][events'[j].turn])
    BY DEF PacingRespected, Idx
  <2>1. CASE i \in DOMAIN events /\ j \in DOMAIN events
    BY <2>1, <1>2 DEF PaceInv, PacingRespected
  <2>2. CASE i \in DOMAIN events /\ j = Len(events) + 1
    <3>1. NeedsPause(i, w)
      BY <2>2, <1>1, <1>2 DEF NeedsPause
    <3> QED
      BY <2>2, <3>1, <1>1, <1>2, <1>3 DEF PaceInv, Earliest
  <2>3. CASE i = Len(events) + 1 /\ j \in DOMAIN events
    <3>1. events[j].worker_id = w /\ Idx(events[j]) = session_idx[w] - 1
      BY <2>3, <1>1, <1>2
    <3>2. events[j].turn < turn[w] /\ events[j].turn \in Nat
      BY <2>3, <3>1, <1>3, EventFields DEF KeysInv
    <3> QED
      BY <2>3, <3>2, <1>1, <1>2, <1>4
  <2>4. CASE i = Len(events) + 1 /\ j = Len(events) + 1
    BY <2>4, <1>1, <1>2, <1>4
  <2> QED
    BY <2>1, <2>2, <2>3, <2>4, <1>2
<1>6. \A v \in Workers : Requesting(v)' => TurnsLeft(v)'
  BY <1>3 DEF PaceInv, Requesting, TurnsLeft, Session
<1>7. \A i \in DOMAIN events' : events'[i].ended_at <= clock'
  BY <1>1, <1>2, <1>3 DEF PaceInv
<1>8. ASSUME NEW i \in DOMAIN events', NEW v \in Workers, NeedsPause(i, v)'
      PROVE  /\ pc'[v] = "sleeping" => wake'[v] >= Earliest(i, v)'
             /\ pc'[v] = "streaming" => started_at'[v] >= Earliest(i, v)'
  <2>1. CASE v = w
    BY <2>1, <1>3
  <2>2. CASE v # w
    <3>1. i \in DOMAIN events
      BY <2>2, <1>1, <1>2, <1>8 DEF NeedsPause
    <3>2. NeedsPause(i, v) /\ Earliest(i, v)' = Earliest(i, v)
      BY <2>2, <3>1, <1>2, <1>3, <1>8 DEF NeedsPause, Earliest, Session, Idx
    <3> QED
      BY <2>2, <3>1, <3>2, <1>3 DEF PaceInv
  <2> QED
    BY <2>1, <2>2
<1> QED
  BY <1>5, <1>6, <1>7, <1>8 DEF PaceInv

LEMMA PaceStep ==
  ASSUME TypeOK, PlaceInv, KeysInv, PaceInv, [Next]_vars
  PROVE  PaceInv'
<1>0. clock \in Nat
  BY DEF TypeOK
<1>1. ASSUME NEW w \in Workers, BeginTurn(w)
      PROVE  PaceInv'
  <2>1. /\ UNCHANGED <<events, clock, started_at, session_idx, turn>> /\ TurnsLeft(w) /\ AtTurn(w)
        /\ pc' = [pc EXCEPT ![w] = "sleeping"]
        /\ wake' = [wake EXCEPT ![w] = clock + Pause(Turns[Session(w)][turn[w]])]
    BY <1>1 DEF BeginTurn, WakeTime, sharedVars, AtTurn
  <2>2. \A i, v : NeedsPause(i, v)' = NeedsPause(i, v) /\ Earliest(i, v)' = Earliest(i, v)
    BY <2>1 DEF NeedsPause, Earliest, Session, Idx
  <2>3. PacingRespected'
    BY <2>1 DEF PaceInv, PacingRespected, Idx
  <2>4. \A v \in Workers : Requesting(v)' => TurnsLeft(v)'
    BY <2>1 DEF PaceInv, Requesting, TurnsLeft, Session, TypeOK
  <2>5. ASSUME NEW i \in DOMAIN events, NEW v \in Workers, NeedsPause(i, v)
        PROVE  /\ pc'[v] = "sleeping" => wake'[v] >= Earliest(i, v)
               /\ pc'[v] = "streaming" => started_at'[v] >= Earliest(i, v)
    <3>1. CASE v = w
      <4>1. wake'[w] = clock + Pause(Turns[Session(w)][turn[w]]) /\ pc'[w] = "sleeping"
        BY <2>1 DEF TypeOK
      <4>2. events[i].ended_at <= clock /\ events[i].ended_at \in Nat
        BY EventFields DEF PaceInv
      <4>3. Pause(Turns[Session(w)][turn[w]]) \in Nat
        BY <2>1, PauseTyped
      <4> QED
        BY <3>1, <4>1, <4>2, <4>3, <1>0 DEF Earliest
    <3>2. CASE v # w
      BY <3>2, <2>1, <2>5 DEF PaceInv, TypeOK
    <3> QED
      BY <3>1, <3>2
  <2> QED
    BY <2>1, <2>2, <2>3, <2>4, <2>5 DEF PaceInv
<1>2. ASSUME NEW w \in Workers, Send(w)
      PROVE  PaceInv'
  <2>1. /\ UNCHANGED <<events, clock, session_idx, turn>> /\ pc[w] = "sleeping" /\ wake[w] <= clock
        /\ pc' = [pc EXCEPT ![w] = "streaming"] /\ wake' = [wake EXCEPT ![w] = 0]
        /\ started_at' = [started_at EXCEPT ![w] = clock]
    BY <1>2 DEF Send, sharedVars
  <2>2. \A i, v : NeedsPause(i, v)' = NeedsPause(i, v) /\ Earliest(i, v)' = Earliest(i, v)
    BY <2>1 DEF NeedsPause, Earliest, Session, Idx
  <2>3. PacingRespected'
    BY <2>1 DEF PaceInv, PacingRespected, Idx
  <2>4. \A v \in Workers : Requesting(v)' => TurnsLeft(v)'
    BY <2>1 DEF PaceInv, Requesting, TurnsLeft, Session, TypeOK
  <2>5. ASSUME NEW i \in DOMAIN events, NEW v \in Workers, NeedsPause(i, v)
        PROVE  /\ pc'[v] = "sleeping" => wake'[v] >= Earliest(i, v)
               /\ pc'[v] = "streaming" => started_at'[v] >= Earliest(i, v)
    <3>1. CASE v = w
      <4>1. started_at'[w] = clock /\ pc'[w] = "streaming" /\ wake[w] \in Nat
        BY <2>1 DEF TypeOK
      <4>2. Earliest(i, w) \in Nat
        BY <2>1, EarliestTyped DEF PaceInv, AtTurn, Requesting
      <4>3. wake[w] >= Earliest(i, w)
        BY <3>1, <2>1, <2>5 DEF PaceInv
      <4> QED
        BY <3>1, <2>1, <4>1, <4>2, <4>3, <1>0
    <3>2. CASE v # w
      BY <3>2, <2>1, <2>5 DEF PaceInv, TypeOK
    <3> QED
      BY <3>1, <3>2
  <2> QED
    BY <2>1, <2>2, <2>3, <2>4, <2>5 DEF PaceInv
<1>3. CASE Tick
  <2>1. clock' = clock + 1 /\ UNCHANGED <<events, agentVars>>
    BY <1>3 DEF Tick, sharedVars
  <2> QED
    BY <2>1, <1>0, EventFields
    DEF agentVars, PaceInv, PacingRespected, Idx, Requesting, TurnsLeft, Session,
        NeedsPause, Earliest
<1>4. ASSUME UNCHANGED <<events, clock>>,
             \A w \in Workers : Requesting(w)' =>
                  /\ pc'[w] = pc[w] /\ started_at'[w] = started_at[w] /\ wake'[w] = wake[w]
                  /\ session_idx'[w] = session_idx[w] /\ turn'[w] = turn[w]
      PROVE  PaceInv'
  <2>1. PacingRespected'
    BY <1>4 DEF PaceInv, PacingRespected, Idx
  <2>2. \A v \in Workers : Requesting(v)' => TurnsLeft(v)'
    BY <1>4 DEF PaceInv, Requesting, TurnsLeft, Session
  <2>3. \A v \in Workers : Requesting(v)' => \A i \in DOMAIN events :
           NeedsPause(i, v)' = NeedsPause(i, v) /\ Earliest(i, v)' = Earliest(i, v)
    BY <1>4 DEF NeedsPause, Earliest, Session, Idx
  <2>4. \A v \in Workers : pc'[v] \in {"sleeping", "streaming"} => Requesting(v)'
    BY DEF Requesting
  <2> QED
    BY <1>4, <2>1, <2>2, <2>3, <2>4 DEF PaceInv
<1> QED
  BY <1>1, <1>2, <1>3, <1>4, PaceEndTurn, RequestMoves

\* The captured tool-execution time passes between the turns of a session, whatever
\* the other agents do meanwhile.
THEOREM PausesKept == Spec => []PacingRespected
<1>1. Init => PaceInv /\ KeysInv
  BY DEF Init, PaceInv, PacingRespected, Requesting, KeysInv, EventKeysUnique
<1>2. TypeOK /\ PlaceInv /\ KeysInv /\ [Next]_vars => KeysInv'
  BY KeysStep
<1>3. TypeOK /\ PlaceInv /\ KeysInv /\ PaceInv /\ [Next]_vars => PaceInv'
  BY PaceStep
<1>4. PaceInv => PacingRespected
  BY DEF PaceInv
<1> QED
  BY <1>1, <1>2, <1>3, <1>4, TypeAndPlace, PTL DEF Spec

-----------------------------------------------------------------------------
(* The live counters are those of the event file *)

RowsIn(T) == {i \in DOMAIN events : events[i] \in T}

CompletedRows == {e \in EventType : ~e.error}
FailedRows    == {e \in EventType : e.error}
TimedRows     == {e \in EventType : ~e.error /\ e.first_byte}

\* What LiveMatchesEvents counts, as sets of rows.
LEMMA CountsAreRows ==
  ASSUME TypeOK
  PROVE  /\ Logged(LAMBDA e : ~e.error) = Cardinality(RowsIn(CompletedRows))
         /\ Logged(LAMBDA e : e.error) = Cardinality(RowsIn(FailedRows))
         /\ Logged(LAMBDA e : ~e.error /\ e.first_byte) = Cardinality(RowsIn(TimedRows))
<1>1. \A i \in DOMAIN events : events[i] \in EventType
  BY DEF TypeOK
<1>2. /\ {i \in DOMAIN events : ~events[i].error} = RowsIn(CompletedRows)
      /\ {i \in DOMAIN events : events[i].error} = RowsIn(FailedRows)
      /\ {i \in DOMAIN events : ~events[i].error /\ events[i].first_byte} = RowsIn(TimedRows)
  BY <1>1 DEF RowsIn, CompletedRows, FailedRows, TimedRows
<1> QED
  BY <1>2 DEF Logged

LEMMA RowsInAppend ==
  ASSUME NEW e, NEW T, events \in Seq(EventType), events' = Append(events, e)
  PROVE  /\ Cardinality(RowsIn(T)) \in Nat
         /\ Cardinality(RowsIn(T)') = Cardinality(RowsIn(T)) + (IF e \in T THEN 1 ELSE 0)
<1>1. /\ Len(events) \in Nat /\ DOMAIN events = 1 .. Len(events)
      /\ DOMAIN events' = DOMAIN events \cup {Len(events) + 1}
      /\ Len(events) + 1 \notin DOMAIN events
      /\ events'[Len(events) + 1] = e
      /\ \A i \in DOMAIN events : events'[i] = events[i]
  BY AppendEvent
<1>2. IsFiniteSet(DOMAIN events)
  BY <1>1, FS_Interval
<1>3. IsFiniteSet(RowsIn(T))
  BY <1>2, FS_Subset DEF RowsIn
<1>4. Cardinality(RowsIn(T)) \in Nat
  BY <1>3, FS_CardinalityType
<1>5. CASE e \in T
  <2>1. RowsIn(T)' = RowsIn(T) \cup {Len(events) + 1} /\ Len(events) + 1 \notin RowsIn(T)
    BY <1>1, <1>5 DEF RowsIn
  <2> QED
    BY <2>1, <1>3, <1>4, <1>5, FS_AddElement
<1>6. CASE e \notin T
  <2>1. RowsIn(T)' = RowsIn(T)
    BY <1>1, <1>6 DEF RowsIn
  <2> QED
    BY <2>1, <1>4, <1>6
<1> QED
  BY <1>4, <1>5, <1>6

LiveInv ==
    (\A w \in Workers : pc[w] # "unlogged") =>
        /\ live.turns_completed = Cardinality(RowsIn(CompletedRows))
        /\ live.turns_failed = Cardinality(RowsIn(FailedRows))
        /\ live.ttft_count = Cardinality(RowsIn(TimedRows))

LEMMA LiveEndTurn ==
  ASSUME TypeOK, PlaceInv, LiveInv, NEW w \in Workers, NEW error \in BOOLEAN, EndTurn(w, error)
  PROVE  LiveInv'
<1> DEFINE e == Event(w, error)
<1> SUFFICES ASSUME \A v \in Workers : pc'[v] # "unlogged"
             PROVE  /\ live'.turns_completed = Cardinality(RowsIn(CompletedRows)')
                    /\ live'.turns_failed = Cardinality(RowsIn(FailedRows)')
                    /\ live'.ttft_count = Cardinality(RowsIn(TimedRows)')
  BY DEF LiveInv, CompletedRows, FailedRows, TimedRows
<1>1. e \in EventType /\ e.error = error /\ e.first_byte = first_byte[w]
  BY EventTyped, EventPlace DEF EndTurn, AtTurn
<1>2. \A T : /\ Cardinality(RowsIn(T)) \in Nat
             /\ Cardinality(RowsIn(T)') = Cardinality(RowsIn(T)) + (IF e \in T THEN 1 ELSE 0)
  BY RowsInAppend DEF EndTurn, TypeOK
<1>3. \A v \in Workers : pc[v] # "unlogged"
  BY DEF EndTurn, TypeOK
<1>4. live \in LiveCounts
  BY DEF TypeOK
<1> HIDE DEF e
<1>5. CASE error
  <2>1. /\ live'.turns_failed = live.turns_failed + 1
        /\ live'.turns_completed = live.turns_completed /\ live'.ttft_count = live.ttft_count
    BY <1>4, <1>5 DEF EndTurn, Count, CountFailed, LiveCounts
  <2>2. e \in FailedRows /\ e \notin CompletedRows /\ e \notin TimedRows
    BY <1>1, <1>5 DEF FailedRows, CompletedRows, TimedRows
  <2> QED
    BY <2>1, <2>2, <1>2, <1>3 DEF LiveInv
<1>6. CASE ~error
  <2>1. /\ live'.turns_failed = live.turns_failed
        /\ live'.turns_completed = live.turns_completed + 1
        /\ live'.ttft_count = live.ttft_count + Ttft(w)
    BY <1>4, <1>6 DEF EndTurn, Count, CountCompleted, LiveCounts
  <2>2. /\ e \notin FailedRows /\ e \in CompletedRows
        /\ Ttft(w) = IF e \in TimedRows THEN 1 ELSE 0
    BY <1>1, <1>6 DEF FailedRows, CompletedRows, TimedRows, Ttft
  <2> QED
    BY <2>1, <2>2, <1>2, <1>3 DEF LiveInv
<1> QED
  BY <1>5, <1>6

LEMMA LiveStep ==
  ASSUME TypeOK, PlaceInv, LiveInv, [Next]_vars
  PROVE  LiveInv'
<1> DEFINE Same == /\ events' = events /\ live'.turns_completed = live.turns_completed
                   /\ live'.turns_failed = live.turns_failed /\ live'.ttft_count = live.ttft_count
                   /\ \A v \in Workers : pc[v] = "unlogged" => pc'[v] = "unlogged"
<1>1. Same => LiveInv'
  BY DEF LiveInv, RowsIn, CompletedRows, FailedRows, TimedRows
<1> USE DEF runVars, sharedVars, agentVars
<1>2. ASSUME NEW w \in Workers, PickSession(w) \/ Return(w) \/ BeginTurn(w) \/ Send(w)
                                \/ FirstByte(w) \/ RaiseInStream(w)
      PROVE  Same
  BY <1>2 DEF PickSession, Return, BeginTurn, Send, FirstByte, RaiseInStream, TypeOK
<1>3. ASSUME NEW w \in Workers, EndSession(w)
      PROVE  Same
  <2>1. live \in LiveCounts
    BY DEF TypeOK
  <2> QED
    BY <1>3, <2>1 DEF EndSession, TypeOK, LiveCounts
<1>4. ASSUME NEW w \in Workers, NEW error \in BOOLEAN, RaiseInWrite(w, error)
      PROVE  LiveInv'
  <2>1. pc'[w] = "unlogged"
    BY <1>4 DEF RaiseInWrite, TypeOK
  <2> QED
    BY <2>1 DEF LiveInv
<1>5. ASSUME RunStep \/ Tick \/ UNCHANGED vars
      PROVE  Same
  BY <1>5 DEF RunStep, Gather, GatherRaises, Cancel, Tick, vars, TypeOK
<1> HIDE DEF Same
<1> QED
  BY <1>1, <1>2, <1>3, <1>4, <1>5, LiveEndTurn DEF Next, AgentStep, EngineStep, Terminated

\* Until a row cannot be written, the shared counters are those of the file: the
\* two records of a turn never drift apart, whatever interleaves with it.
THEOREM LiveIsTheFile == Spec => []LiveMatchesEvents
<1>1. Init => LiveInv
  <2> SUFFICES ASSUME Init
               PROVE  LiveInv
    OBVIOUS
  <2>1. \A T : RowsIn(T) = {}
    BY DEF Init, RowsIn
  <2> QED
    BY <2>1, FS_EmptySet DEF Init, LiveInv
<1>2. TypeOK /\ PlaceInv /\ LiveInv /\ [Next]_vars => LiveInv'
  BY LiveStep
<1>3. TypeOK /\ LiveInv => LiveMatchesEvents
  BY CountsAreRows DEF LiveInv, LiveMatchesEvents
<1> QED
  BY <1>1, <1>2, <1>3, TypeAndPlace, PTL DEF Spec

-----------------------------------------------------------------------------
(* The agents play the pool in order *)

RowOf(i, w) == events[i].worker_id = w

LastRow(i, w) == RowOf(i, w) /\ \A k \in DOMAIN events : k > i => ~RowOf(k, w)

NoRow(w) == \A i \in DOMAIN events : ~RowOf(i, w)

\* The row an agent at a turn has written last is for the turn before, or the whole
\* session before has been played.
TurnFollows(i, w) ==
    \/ /\ Idx(events[i]) = session_idx[w] - 1 /\ events[i].session = Session(w)
       /\ turn[w] = events[i].turn + 1
    \/ /\ Idx(events[i]) = session_idx[w] - 2 /\ turn[w] = 1
       /\ events[i].turn = Len(Turns[events[i].session])

\* FollowsSchedule, made inductive: where every agent is in the pool follows from
\* its last row, as long as the deadline has not cut a session short.
ScheduleInv ==
    /\ FollowsSchedule
    /\ \A i \in DOMAIN events : events[i].turn <= Len(Turns[events[i].session])
    /\ \A w \in Workers : AtTurn(w) =>
          /\ NoRow(w) => session_idx[w] = w + 1 /\ turn[w] = 1
          /\ \A i \in DOMAIN events : LastRow(i, w) => TurnFollows(i, w)
    /\ \A w \in Workers : (pc[w] = "idle" /\ clock < Deadline) =>
          /\ NoRow(w) => session_idx[w] = w
          /\ \A i \in DOMAIN events : LastRow(i, w) =>
                /\ Idx(events[i]) = session_idx[w] - 1
                /\ events[i].turn = Len(Turns[events[i].session])

\* The steps that matter to it.
LEMMA ScheduleMoves ==
  ASSUME TypeOK, [Next]_vars
  PROVE  \/ \E w \in Workers : PickSession(w) \/ EndSession(w)
         \/ \E w \in Workers, error \in BOOLEAN : EndTurn(w, error)
         \/ /\ UNCHANGED <<events, session_idx, turn>> /\ clock <= clock'
            /\ \A w \in Workers : (AtTurn(w)' => AtTurn(w)) /\ (pc'[w] = "idle" => pc[w] = "idle")
<1> DEFINE Stays ==
      /\ UNCHANGED <<events, session_idx, turn>> /\ clock <= clock'
      /\ \A v \in Workers : (AtTurn(v)' => AtTurn(v)) /\ (pc'[v] = "idle" => pc[v] = "idle")
<1> USE DEF runVars, sharedVars, agentVars, AtTurn
<1>0. pc = [v \in Workers |-> pc[v]] /\ clock \in Nat
  BY DEF TypeOK
<1>1. ASSUME NEW w \in Workers, Return(w) \/ BeginTurn(w) \/ Send(w)
      PROVE  Stays
  BY <1>0, <1>1 DEF Return, BeginTurn, Send
<1>2. ASSUME NEW w \in Workers, FirstByte(w) \/ RaiseInStream(w)
      PROVE  Stays
  BY <1>0, <1>2 DEF FirstByte, RaiseInStream
<1>3. ASSUME NEW w \in Workers, NEW error \in BOOLEAN, RaiseInWrite(w, error)
      PROVE  Stays
  BY <1>0, <1>3 DEF RaiseInWrite
<1>4. ASSUME RunStep \/ Tick \/ UNCHANGED vars
      PROVE  Stays
  BY <1>0, <1>4 DEF RunStep, Gather, GatherRaises, Cancel, Tick, vars
<1> QED
  BY <1>1, <1>2, <1>3, <1>4 DEF Next, AgentStep, EngineStep, Terminated

\* A new session is the next one of the pool.
LEMMA SchedulePick ==
  ASSUME TypeOK, PlaceInv, ScheduleInv, NEW w \in Workers, PickSession(w)
  PROVE  ScheduleInv'
<1>1. /\ events' = events /\ clock' = clock /\ clock < Deadline /\ pc[w] = "idle"
      /\ session_idx'[w] = session_idx[w] + 1 /\ turn'[w] = 1 /\ pc'[w] = "turn"
      /\ \A v \in Workers \ {w} : /\ session_idx'[v] = session_idx[v] /\ turn'[v] = turn[v]
                                  /\ pc'[v] = pc[v]
  BY DEF PickSession, KeepPicking, NextIdx, sharedVars, TypeOK
<1>2. session_idx \in [Workers -> Nat] /\ w \in Nat
  BY ReplayConstants DEF TypeOK, Workers
<1>3. FollowsSchedule' /\ \A i \in DOMAIN events : events[i].turn <= Len(Turns[events[i].session])
  BY <1>1 DEF ScheduleInv, FollowsSchedule, Before, Idx
<1>4. \A i, v : LastRow(i, v)' = LastRow(i, v) /\ NoRow(v)' = NoRow(v)
  BY <1>1 DEF LastRow, NoRow, RowOf
<1>5. ASSUME NEW v \in Workers, AtTurn(v)'
      PROVE  /\ NoRow(v) => session_idx'[v] = v + 1 /\ turn'[v] = 1
             /\ \A i \in DOMAIN events : LastRow(i, v) => TurnFollows(i, v)'
  <2>1. CASE v = w
    <3>1. NoRow(w) => session_idx'[w] = w + 1
      BY <1>1, <1>2 DEF ScheduleInv
    <3>2. ASSUME NEW i \in DOMAIN events, LastRow(i, w)
          PROVE  TurnFollows(i, w)'
      <4>1. Idx(events[i]) = session_idx'[w] - 2
        BY <3>2, <1>1, <1>2 DEF ScheduleInv
      <4> QED
        BY <3>2, <4>1, <1>1 DEF ScheduleInv, TurnFollows, Idx
    <3> QED
      BY <2>1, <3>1, <3>2, <1>1
  <2>2. CASE v # w
    BY <2>2, <1>1, <1>5 DEF ScheduleInv, TurnFollows, AtTurn, Session, Idx
  <2> QED
    BY <2>1, <2>2
<1>6. ASSUME NEW v \in Workers, pc'[v] = "idle", clock < Deadline
      PROVE  /\ NoRow(v) => session_idx'[v] = v
             /\ \A i \in DOMAIN events : LastRow(i, v) =>
                   /\ Idx(events[i]) = session_idx'[v] - 1
                   /\ events[i].turn = Len(Turns[events[i].session])
  BY <1>1, <1>6 DEF ScheduleInv
<1> QED
  BY <1>1, <1>3, <1>4, <1>5, <1>6 DEF ScheduleInv, Idx

\* A session that is left before the deadline has been played to its end.
LEMMA ScheduleEndSession ==
  ASSUME TypeOK, PlaceInv, ScheduleInv, NEW w \in Workers, EndSession(w)
  PROVE  ScheduleInv'
<1>1. /\ UNCHANGED <<events, clock, session_idx, turn>>
      /\ AtTurn(w) /\ pc' = [pc EXCEPT ![w] = "idle"]
      /\ clock < Deadline => ~TurnsLeft(w)
  BY ReplayConstants DEF EndSession, OutOfTime, sharedVars, AtTurn, TypeOK
<1>2. FollowsSchedule' /\ \A i \in DOMAIN events : events[i].turn <= Len(Turns[events[i].session])
  BY <1>1 DEF ScheduleInv, FollowsSchedule, Before, Idx
<1>3. \A i, v : /\ LastRow(i, v)' = LastRow(i, v) /\ NoRow(v)' = NoRow(v)
                /\ TurnFollows(i, v)' = TurnFollows(i, v)
  BY <1>1 DEF LastRow, NoRow, RowOf, TurnFollows, Session, Idx
<1>4. \A v \in Workers : AtTurn(v)' => AtTurn(v)
  BY <1>1 DEF AtTurn, TypeOK
<1>5. ASSUME clock < Deadline
      PROVE  /\ ~NoRow(w)
             /\ \A i \in DOMAIN events : LastRow(i, w) =>
                   /\ Idx(events[i]) = session_idx[w] - 1
                   /\ events[i].turn = Len(Turns[events[i].session])
  <2>1. Session(w) \in Sessions /\ Turns[Session(w)] \in Seq(Nat \cup {NoExec})
    BY <1>1, Place, ReplayConstants
  <2>2. Len(Turns[Session(w)]) \in Nat /\ Len(Turns[Session(w)]) >= 1
    BY <2>1, ReplayConstants
  <2>3. turn[w] \in Nat /\ turn[w] > Len(Turns[Session(w)])
    BY <1>1, <1>5, <2>2 DEF TurnsLeft, TypeOK
  <2>4. ~NoRow(w)
    BY <1>1, <2>2, <2>3 DEF ScheduleInv
  <2>5. ASSUME NEW i \in DOMAIN events, LastRow(i, w)
        PROVE  /\ Idx(events[i]) = session_idx[w] - 1
               /\ events[i].turn = Len(Turns[events[i].session])
    <3>1. TurnFollows(i, w)
      BY <1>1, <2>5 DEF ScheduleInv
    <3>2. /\ Idx(events[i]) = session_idx[w] - 1 /\ events[i].session = Session(w)
          /\ turn[w] = events[i].turn + 1
      BY <3>1, <2>2, <2>3 DEF TurnFollows
    <3>3. events[i].turn \in Nat /\ events[i].turn <= Len(Turns[events[i].session])
      BY EventFields DEF ScheduleInv
    <3> QED
      BY <3>2, <3>3, <2>2, <2>3
  <2> QED
    BY <2>4, <2>5
<1>6. ASSUME NEW v \in Workers, pc'[v] = "idle", clock < Deadline
      PROVE  /\ NoRow(v) => session_idx[v] = v
             /\ \A i \in DOMAIN events : LastRow(i, v) =>
                   /\ Idx(events[i]) = session_idx[v] - 1
                   /\ events[i].turn = Len(Turns[events[i].session])
  <2>1. CASE v = w
    BY <2>1, <1>5, <1>6
  <2>2. CASE v # w
    BY <2>2, <1>1, <1>6 DEF ScheduleInv, TypeOK
  <2> QED
    BY <2>1, <2>2
<1> QED
  BY <1>1, <1>2, <1>3, <1>4, <1>6 DEF ScheduleInv, Idx

\* The row of a turn follows the agent's last one.
LEMMA ScheduleEndTurn ==
  ASSUME TypeOK, PlaceInv, PaceInv, ScheduleInv,
         NEW w \in Workers, NEW error \in BOOLEAN, EndTurn(w, error)
  PROVE  ScheduleInv'
<1> DEFINE e == Event(w, error)
<1>0. PICK n : n = Len(events) + 1
  OBVIOUS
<1>1. /\ e.worker_id = w /\ e.turn = turn[w] /\ e.session = Session(w)
      /\ Idx(e) = session_idx[w] - 1
  BY EventPlace DEF EndTurn, AtTurn
<1>2. /\ DOMAIN events = 1 .. Len(events) /\ Len(events) \in Nat
      /\ DOMAIN events' = DOMAIN events \cup {n}
      /\ events'[n] = e /\ \A i \in DOMAIN events : events'[i] = events[i]
  BY <1>0, AppendEvent DEF EndTurn, TypeOK
<1>3. /\ clock' = clock /\ session_idx' = session_idx /\ AtTurn(w) /\ Requesting(w)
      /\ pc'[w] = "turn" /\ turn'[w] = turn[w] + 1
      /\ \A v \in Workers \ {w} : pc'[v] = pc[v] /\ turn'[v] = turn[v]
  BY DEF EndTurn, AtTurn, Requesting, TypeOK
<1>4. n \in Nat /\ n \notin DOMAIN events /\ \A i \in DOMAIN events : i < n
  BY <1>0, <1>2
<1>5. TurnsLeft(w)
  BY <1>3 DEF PaceInv
<1>6. session_idx[w] \in Nat /\ turn[w] \in Nat /\ w \in Nat
  BY ReplayConstants DEF TypeOK, Workers
<1> HIDE DEF e
<1>7. \A i \in DOMAIN events' : events'[i].turn <= Len(Turns[events'[i].session])
  BY <1>1, <1>2, <1>5 DEF ScheduleInv, TurnsLeft
<1>8. \A i \in DOMAIN events : RowOf(i, w) /\ (\A k \in i + 1 .. n - 1 : ~RowOf(k, w)) => LastRow(i, w)
  BY <1>0, <1>2 DEF LastRow
<1>9. FollowsSchedule'
  <2>1. ASSUME NEW j \in DOMAIN events',
               \A i \in 1 .. j - 1 : events'[i].worker_id # events'[j].worker_id
        PROVE  Idx(events'[j]) = events'[j].worker_id /\ events'[j].turn = 1
    <3>1. CASE j \in DOMAIN events
      <4>1. 1 .. j - 1 \subseteq DOMAIN events
        BY <3>1, <1>2
      <4>2. \A i \in 1 .. j - 1 : events[i].worker_id # events[j].worker_id
        BY <2>1, <3>1, <4>1, <1>2
      <4> QED
        BY <3>1, <4>2, <1>2 DEF ScheduleInv, FollowsSchedule
    <3>2. CASE j = n
      <4>1. 1 .. j - 1 = DOMAIN events
        BY <3>2, <1>0, <1>2
      <4>2. NoRow(w)
        BY <2>1, <3>2, <4>1, <1>1, <1>2 DEF NoRow, RowOf
      <4>3. session_idx[w] = w + 1 /\ turn[w] = 1
        BY <4>2, <1>3 DEF ScheduleInv
      <4> QED
        BY <3>2, <4>3, <1>1, <1>2, <1>6
    <3> QED
      BY <3>1, <3>2, <1>2
  <2>2. ASSUME NEW i \in DOMAIN events', NEW j \in DOMAIN events', Before(i, j)'
        PROVE  \/ Idx(events'[j]) = Idx(events'[i]) /\ events'[j].turn = events'[i].turn + 1
               \/ /\ Idx(events'[j]) = Idx(events'[i]) + 1 /\ events'[j].turn = 1
                  /\ events'[i].turn = Len(Turns[events'[i].session])
    <3>1. i \in DOMAIN events
      BY <2>2, <1>2, <1>4 DEF Before
    <3>2. CASE j \in DOMAIN events
      <4>1. i + 1 .. j - 1 \subseteq DOMAIN events
        BY <3>1, <3>2, <1>2
      <4>2. Before(i, j)
        BY <2>2, <3>1, <3>2, <4>1, <1>2 DEF Before
      <4> QED
        BY <3>1, <3>2, <4>2, <1>2 DEF ScheduleInv, FollowsSchedule
    <3>3. CASE j = n
      <4>1. i + 1 .. n - 1 \subseteq DOMAIN events
        BY <3>1, <1>0, <1>2
      <4>2. RowOf(i, w) /\ \A k \in i + 1 .. n - 1 : ~RowOf(k, w)
        BY <2>2, <3>1, <3>3, <4>1, <1>1, <1>2 DEF Before, RowOf
      <4>3. LastRow(i, w)
        BY <3>1, <4>2, <1>8
      <4>4. TurnFollows(i, w)
        BY <3>1, <4>3, <1>3 DEF ScheduleInv
      <4>5. events[i].turn \in Nat /\ Idx(events[i]) \in Nat
        BY <3>1, EventFields
      <4> QED
        BY <3>1, <3>3, <4>4, <4>5, <1>1, <1>2, <1>6 DEF TurnFollows
    <3> QED
      BY <3>2, <3>3, <1>2
  <2>3. (\A j \in DOMAIN events' :
           (\A i \in 1 .. j - 1 : events'[i].worker_id # events'[j].worker_id) =>
               Idx(events'[j]) = events'[j].worker_id /\ events'[j].turn = 1)
    BY <2>1
  <2> QED
    BY <2>2, <2>3 DEF FollowsSchedule, Idx
<1>10. ASSUME NEW v \in Workers, AtTurn(v)'
       PROVE  /\ NoRow(v)' => session_idx'[v] = v + 1 /\ turn'[v] = 1
              /\ \A i \in DOMAIN events' : LastRow(i, v)' => TurnFollows(i, v)'
  <2>1. CASE v = w
    <3>1. RowOf(n, w)'
      BY <1>1, <1>2 DEF RowOf
    <3>2. ~NoRow(w)'
      BY <3>1, <1>2 DEF NoRow
    <3>3. ASSUME NEW i \in DOMAIN events', LastRow(i, w)'
          PROVE  TurnFollows(i, w)'
      <4>1. i = n
        BY <3>1, <3>3, <1>2, <1>4 DEF LastRow
      <4> QED
        BY <4>1, <1>1, <1>2, <1>3 DEF TurnFollows, Session, Idx
    <3> QED
      BY <2>1, <3>2, <3>3
  <2>2. CASE v # w
    <3>1. AtTurn(v) /\ \A i \in DOMAIN events : RowOf(i, v)' = RowOf(i, v)
      BY <2>2, <1>2, <1>3, <1>10 DEF AtTurn, RowOf
    <3>2. ~RowOf(n, v)'
      BY <2>2, <1>1, <1>2 DEF RowOf
    <3>3. NoRow(v)' => NoRow(v)
      BY <3>1, <1>2 DEF NoRow
    <3>4. ASSUME NEW i \in DOMAIN events', LastRow(i, v)'
          PROVE  TurnFollows(i, v)'
      <4>1. i \in DOMAIN events /\ LastRow(i, v)
        BY <3>1, <3>2, <3>4, <1>2 DEF LastRow
      <4>2. TurnFollows(i, v)
        BY <3>1, <4>1 DEF ScheduleInv
      <4> QED
        BY <2>2, <4>1, <4>2, <1>2, <1>3 DEF TurnFollows, Session, Idx
    <3> QED
      BY <2>2, <3>1, <3>3, <3>4, <1>3 DEF ScheduleInv
  <2> QED
    BY <2>1, <2>2
<1>11. ASSUME NEW v \in Workers, pc'[v] = "idle", clock < Deadline
       PROVE  /\ NoRow(v)' => session_idx[v] = v
              /\ \A i \in DOMAIN events' : LastRow(i, v)' =>
                    /\ Idx(events'[i]) = session_idx[v] - 1
                    /\ events'[i].turn = Len(Turns[events'[i].session])
  <2>1. v # w /\ pc[v] = "idle"
    BY <1>3, <1>11
  <2>2. \A i \in DOMAIN events : RowOf(i, v)' = RowOf(i, v)
    BY <1>2 DEF RowOf
  <2>3. ~RowOf(n, v)'
    BY <2>1, <1>1, <1>2 DEF RowOf
  <2>4. NoRow(v)' => NoRow(v)
    BY <2>2, <1>2 DEF NoRow
  <2>5. \A i \in DOMAIN events' : LastRow(i, v)' => i \in DOMAIN events /\ LastRow(i, v)
    BY <2>2, <2>3, <1>2 DEF LastRow
  <2> QED
    BY <2>1, <2>4, <2>5, <1>2, <1>11 DEF ScheduleInv
<1> QED
  BY <1>3, <1>7, <1>9, <1>10, <1>11 DEF ScheduleInv, Idx

LEMMA ScheduleStep ==
  ASSUME TypeOK, PlaceInv, PaceInv, ScheduleInv, [Next]_vars
  PROVE  ScheduleInv'
<1>1. ASSUME UNCHANGED <<events, session_idx, turn>>, clock <= clock',
             \A w \in Workers : (AtTurn(w)' => AtTurn(w)) /\ (pc'[w] = "idle" => pc[w] = "idle")
      PROVE  ScheduleInv'
  <2>1. \A i, v : /\ LastRow(i, v)' = LastRow(i, v) /\ NoRow(v)' = NoRow(v)
                  /\ TurnFollows(i, v)' = TurnFollows(i, v)
    BY <1>1 DEF LastRow, NoRow, RowOf, TurnFollows, Session, Idx
  <2>2. FollowsSchedule'
    BY <1>1 DEF ScheduleInv, FollowsSchedule, Before, Idx
  <2>3. clock' < Deadline => clock < Deadline
    <3>1. clock \in Nat /\ Deadline \in Nat /\ clock' \in Nat
      BY TypeStep, ReplayConstants DEF TypeOK
    <3> QED
      BY <3>1, <1>1
  <2> QED
    BY <1>1, <2>1, <2>2, <2>3 DEF ScheduleInv, Idx
<1> QED
  BY <1>1, SchedulePick, ScheduleEndSession, ScheduleEndTurn, ScheduleMoves

\* Any number of agents, in whatever order their turns end, each play the pool in
\* order from their own place, turn by turn, cycling as needed.
THEOREM ScheduleFollowed == Spec => []FollowsSchedule
<1>1. Init => PaceInv /\ KeysInv /\ ScheduleInv
  BY DEF Init, PaceInv, PacingRespected, Requesting, KeysInv, EventKeysUnique,
         ScheduleInv, FollowsSchedule, AtTurn, NoRow
<1>2. TypeOK /\ PlaceInv /\ KeysInv /\ [Next]_vars => KeysInv'
  BY KeysStep
<1>3. TypeOK /\ PlaceInv /\ KeysInv /\ PaceInv /\ [Next]_vars => PaceInv'
  BY PaceStep
<1>4. TypeOK /\ PlaceInv /\ PaceInv /\ ScheduleInv /\ [Next]_vars => ScheduleInv'
  BY ScheduleStep
<1>5. ScheduleInv => FollowsSchedule
  BY DEF ScheduleInv
<1> QED
  BY <1>1, <1>2, <1>3, <1>4, <1>5, TypeAndPlace, PTL DEF Spec

-----------------------------------------------------------------------------
(* Sessions are counted once *)

RowLeft(k) ==
    LET w == events[k].worker_id IN
    \/ Idx(events[k]) < session_idx[w] - 1
    \/ pc[w] \in {"idle", "returned"}
    \/ pc[w] = "cancelled" /\ done[w] = NoTurns

\* The sessions SessionsCountedOnce counts.
SessionsLeft == {<<events[i].worker_id, Idx(events[i])>> : i \in {k \in DOMAIN events : RowLeft(k)}}

\* The session w has started last has a row.
HasRow(w) == \E k \in DOMAIN events : RowOf(k, w) /\ Idx(events[k]) = session_idx[w] - 1

\* An agent that plays a session has counted a turn of it exactly if the session
\* has a row; an agent between two sessions has nothing to add up.
DoneInv ==
    \A w \in Workers :
        /\ pc[w] \in {"idle", "returned"} => done[w] = NoTurns
        /\ AtTurn(w) => (done[w] # NoTurns <=> HasRow(w))

LeftInv ==
    (\A w \in Workers : pc[w] # "unlogged") =>
        IsFiniteSet(SessionsLeft) /\ live.sessions_completed = Cardinality(SessionsLeft)

\* What an agent has counted, in all its sessions.
Completed(w) == result[w].turns_completed + done[w].turns_completed
Failed(w)    == result[w].turns_failed + done[w].turns_failed

\* What the agents have counted is what the shared counters have.
SumInv ==
    /\ live.turns_completed = SumFunction([w \in Workers |-> Completed(w)])
    /\ live.turns_failed = SumFunction([w \in Workers |-> Failed(w)])
    /\ live.sessions_completed = SumFunction([w \in Workers |-> result[w].sessions_completed])

StatsInv ==
    run = "finished" => /\ stats.turns_completed = live.turns_completed
                        /\ stats.turns_failed = live.turns_failed
                        /\ stats.sessions_completed = live.sessions_completed

LEMMA WorkersFinite == IsFiniteSet(Workers)
<1>1. 0 \in Int /\ Concurrency - 1 \in Int
  BY ReplayConstants
<1> QED
  BY <1>1, FS_Interval DEF Workers

\* Played, of counts.
LEMMA PlayedIsDone ==
  ASSUME TypeOK, NEW w \in Workers
  PROVE  Played(w) = IF done[w] = NoTurns THEN 0 ELSE 1
<1>1. done[w] \in TurnCounts
  BY DEF TypeOK
<1>2. done[w] = [turns_completed |-> done[w].turns_completed,
                 turns_failed |-> done[w].turns_failed]
  BY <1>1 DEF TurnCounts
<1>3. done[w].turns_completed \in Nat /\ done[w].turns_failed \in Nat
  BY <1>1 DEF TurnCounts
<1>4. done[w] = NoTurns <=> done[w].turns_completed = 0 /\ done[w].turns_failed = 0
  BY <1>2 DEF NoTurns
<1> QED
  BY <1>3, <1>4 DEF Played

\* The steps of a turn, and what they leave alone.
LEMMA CountMoves ==
  ASSUME TypeOK, NEW w \in Workers, NEW error \in BOOLEAN, Count(w, error)
  PROVE  /\ done'[w] # NoTurns /\ \A v \in Workers \ {w} : done'[v] = done[v]
         /\ live'.sessions_completed = live.sessions_completed
         /\ \/ /\ live'.turns_completed = live.turns_completed + 1
               /\ live'.turns_failed = live.turns_failed
               /\ done'[w].turns_completed = done[w].turns_completed + 1
               /\ done'[w].turns_failed = done[w].turns_failed
            \/ /\ live'.turns_completed = live.turns_completed
               /\ live'.turns_failed = live.turns_failed + 1
               /\ done'[w].turns_completed = done[w].turns_completed
               /\ done'[w].turns_failed = done[w].turns_failed + 1
<1>1. live \in LiveCounts /\ done \in [Workers -> TurnCounts] /\ done[w] \in TurnCounts
  BY DEF TypeOK
<1>2. done[w].turns_completed \in Nat /\ done[w].turns_failed \in Nat
  BY <1>1 DEF TurnCounts
<1>3. CASE error
  <2>1. /\ live' = [live EXCEPT !.turns_failed = @ + 1]
        /\ done' = [done EXCEPT ![w] = [done[w] EXCEPT !.turns_failed = @ + 1]]
    BY <1>3 DEF Count, CountFailed
  <2>2. /\ live'.turns_failed = live.turns_failed + 1
        /\ live'.turns_completed = live.turns_completed
        /\ live'.sessions_completed = live.sessions_completed
    BY <2>1, <1>1 DEF LiveCounts
  <2>3. /\ done'[w].turns_failed = done[w].turns_failed + 1
        /\ done'[w].turns_completed = done[w].turns_completed
        /\ \A v \in Workers \ {w} : done'[v] = done[v]
    BY <2>1, <1>1 DEF TurnCounts
  <2>4. done'[w] # NoTurns
    BY <2>3, <1>2 DEF NoTurns
  <2> QED
    BY <2>2, <2>3, <2>4
<1>4. CASE ~error
  <2>1. /\ live' = [live EXCEPT !.turns_completed = @ + 1, !.ttft_count = @ + Ttft(w)]
        /\ done' = [done EXCEPT ![w] = [done[w] EXCEPT !.turns_completed = @ + 1]]
    BY <1>4 DEF Count, CountCompleted
  <2>2. /\ live'.turns_failed = live.turns_failed
        /\ live'.turns_completed = live.turns_completed + 1
        /\ live'.sessions_completed = live.sessions_completed
    BY <2>1, <1>1 DEF LiveCounts
  <2>3. /\ done'[w].turns_failed = done[w].turns_failed
        /\ done'[w].turns_completed = done[w].turns_completed + 1
        /\ \A v \in Workers \ {w} : done'[v] = done[v]
    BY <2>1, <1>1 DEF TurnCounts
  <2>4. done'[w] # NoTurns
    BY <2>3, <1>2 DEF NoTurns
  <2> QED
    BY <2>2, <2>3, <2>4
<1> QED
  BY <1>3, <1>4

LEMMA DoneEndTurn ==
  ASSUME TypeOK, PlaceInv, DoneInv, LeftInv, NEW w \in Workers, NEW error \in BOOLEAN,
         EndTurn(w, error)
  PROVE  DoneInv' /\ LeftInv'
<1> DEFINE e == Event(w, error)
<1>0. PICK n : n = Len(events) + 1
  OBVIOUS
<1>1. e.worker_id = w /\ Idx(e) = session_idx[w] - 1 /\ w \in Workers
  BY EventPlace DEF EndTurn, AtTurn
<1>2. /\ DOMAIN events' = DOMAIN events \cup {n} /\ n \notin DOMAIN events
      /\ events'[n] = e /\ \A i \in DOMAIN events : events'[i] = events[i]
  BY <1>0, AppendEvent DEF EndTurn, TypeOK
<1>3. /\ session_idx' = session_idx /\ AtTurn(w) /\ pc[w] = "streaming" /\ pc'[w] = "turn"
      /\ AtTurn(w)' /\ \A v \in Workers \ {w} : pc'[v] = pc[v]
  BY DEF EndTurn, AtTurn, TypeOK
<1>4. /\ done'[w] # NoTurns /\ \A v \in Workers \ {w} : done'[v] = done[v]
      /\ live'.sessions_completed = live.sessions_completed
  BY CountMoves DEF EndTurn
<1>5. session_idx[w] \in Nat
  BY DEF TypeOK
<1> HIDE DEF e
<1>6. HasRow(w)'
  BY <1>1, <1>2, <1>3 DEF HasRow, RowOf, Idx
<1>7. ASSUME NEW v \in Workers \ {w}
      PROVE  HasRow(v)' <=> HasRow(v)
  BY <1>1, <1>2, <1>3 DEF HasRow, RowOf, Idx
<1>8. DoneInv'
  BY <1>3, <1>4, <1>6, <1>7 DEF DoneInv, AtTurn
<1>9. ~RowLeft(n)'
  BY <1>1, <1>2, <1>3, <1>5 DEF RowLeft, Idx
<1>10. ASSUME NEW k \in DOMAIN events
       PROVE  RowLeft(k)' <=> RowLeft(k)
  <2>1. events'[k] = events[k] /\ events[k].worker_id \in Workers
    BY <1>2, EventFields
  <2> QED
    BY <2>1, <1>3, <1>4 DEF RowLeft, Idx
<1>11. SessionsLeft' = SessionsLeft
  <2>1. {k \in DOMAIN events' : RowLeft(k)'} = {k \in DOMAIN events : RowLeft(k)}
    BY <1>2, <1>9, <1>10
  <2> QED
    BY <2>1, <1>2 DEF SessionsLeft, Idx
<1>12. (\A v \in Workers : pc'[v] # "unlogged") => \A v \in Workers : pc[v] # "unlogged"
  BY <1>3
<1> QED
  BY <1>4, <1>8, <1>11, <1>12 DEF LeftInv

LEMMA DoneEndSession ==
  ASSUME TypeOK, PlaceInv, KeysInv, DoneInv, LeftInv, NEW w \in Workers, EndSession(w)
  PROVE  DoneInv' /\ LeftInv'
<1> DEFINE p == <<w, session_idx[w] - 1>>
<1>1. /\ events' = events /\ session_idx' = session_idx /\ AtTurn(w) /\ pc[w] = "turn"
      /\ pc'[w] = "idle" /\ done'[w] = NoTurns
      /\ \A v \in Workers \ {w} : pc'[v] = pc[v] /\ done'[v] = done[v]
  BY DEF EndSession, AtTurn, TypeOK
<1>2. live'.sessions_completed = live.sessions_completed + Played(w)
  BY DEF EndSession, LivePlayed, TypeOK, LiveCounts
<1>3. DoneInv'
  BY <1>1 DEF DoneInv, AtTurn, HasRow, RowOf, Idx
<1>4. ASSUME NEW k \in DOMAIN events
      PROVE  /\ events[k].worker_id # w => (RowLeft(k)' <=> RowLeft(k))
             /\ events[k].worker_id = w =>
                   RowLeft(k)' /\ (RowLeft(k) <=> Idx(events[k]) < session_idx[w] - 1)
  BY <1>1, EventFields DEF RowLeft, Idx
<1>5. /\ session_idx[w] \in Nat
      /\ \A k \in DOMAIN events : /\ Idx(events[k]) \in Nat
                                  /\ events[k].worker_id = w => Idx(events[k]) < session_idx[w]
  BY <1>1, EventFields DEF TypeOK, KeysInv
<1>6. \A v \in Workers : pc[v] = "unlogged" => pc'[v] = "unlogged"
  BY <1>1
<1>7. CASE done[w] = NoTurns
  <2>1. \A k \in DOMAIN events : events[k].worker_id = w => Idx(events[k]) # session_idx[w] - 1
    BY <1>1, <1>7 DEF DoneInv, HasRow, RowOf
  <2>2. \A k \in DOMAIN events : RowLeft(k)' <=> RowLeft(k)
    BY <2>1, <1>4, <1>5
  <2>3. SessionsLeft' = SessionsLeft
    BY <2>2, <1>1 DEF SessionsLeft, Idx
  <2>4. live'.sessions_completed = live.sessions_completed
    BY <1>2, <1>7, PlayedIsDone DEF TypeOK, LiveCounts
  <2> QED
    BY <2>3, <2>4, <1>3, <1>6 DEF LeftInv
<1>8. CASE done[w] # NoTurns
  <2>1. PICK n \in DOMAIN events : events[n].worker_id = w /\ Idx(events[n]) = session_idx[w] - 1
    BY <1>1, <1>8 DEF DoneInv, HasRow, RowOf
  <2>2. p \notin SessionsLeft
    <3> SUFFICES ASSUME p \in SessionsLeft
                 PROVE  FALSE
      OBVIOUS
    <3>1. PICK k \in DOMAIN events : RowLeft(k) /\ p = <<events[k].worker_id, Idx(events[k])>>
      BY DEF SessionsLeft
    <3> QED
      BY <3>1, <1>4, <1>5
  <2>3. SessionsLeft' \subseteq SessionsLeft \cup {p}
    <3> SUFFICES ASSUME NEW k \in DOMAIN events, RowLeft(k)'
                 PROVE  <<events[k].worker_id, Idx(events[k])>> \in SessionsLeft \cup {p}
      BY <1>1 DEF SessionsLeft, Idx
    <3>1. CASE RowLeft(k)
      BY <3>1 DEF SessionsLeft
    <3>2. CASE ~RowLeft(k)
      BY <3>2, <1>4, <1>5
    <3> QED
      BY <3>1, <3>2
  <2>4. SessionsLeft \cup {p} \subseteq SessionsLeft'
    <3>1. p \in SessionsLeft'
      BY <2>1, <1>1, <1>4 DEF SessionsLeft, Idx
    <3>2. ASSUME NEW k \in DOMAIN events, RowLeft(k)
          PROVE  <<events[k].worker_id, Idx(events[k])>> \in SessionsLeft'
      <4>1. RowLeft(k)'
        BY <3>2, <1>4
      <4> QED
        BY <4>1, <1>1 DEF SessionsLeft, Idx
    <3> QED
      BY <3>1, <3>2 DEF SessionsLeft
  <2>5. SessionsLeft' = SessionsLeft \cup {p}
    BY <2>3, <2>4
  <2>6. live'.sessions_completed = live.sessions_completed + 1
    BY <1>2, <1>8, PlayedIsDone
  <2> HIDE DEF p
  <2>7. IsFiniteSet(SessionsLeft) => /\ IsFiniteSet(SessionsLeft')
                                     /\ Cardinality(SessionsLeft') = Cardinality(SessionsLeft) + 1
    BY <2>2, <2>5, FS_AddElement
  <2> QED
    BY <2>6, <2>7, <1>3, <1>6 DEF LeftInv
<1> QED
  BY <1>7, <1>8

LEMMA DonePick ==
  ASSUME TypeOK, PlaceInv, KeysInv, DoneInv, LeftInv, NEW w \in Workers, PickSession(w)
  PROVE  DoneInv' /\ LeftInv'
<1>1. /\ events' = events /\ live' = live /\ pc[w] = "idle" /\ pc'[w] = "turn"
      /\ session_idx'[w] = session_idx[w] + 1 /\ done'[w] = NoTurns
      /\ \A v \in Workers \ {w} : /\ pc'[v] = pc[v] /\ done'[v] = done[v]
                                  /\ session_idx'[v] = session_idx[v]
  BY DEF PickSession, NextIdx, sharedVars, TypeOK
<1>2. session_idx[w] \in Nat
  BY DEF TypeOK
<1>3. \A k \in DOMAIN events : /\ Idx(events[k]) \in Nat
                               /\ RowOf(k, w) => Idx(events[k]) < session_idx[w]
  BY EventFields DEF KeysInv, RowOf
<1>4. ~HasRow(w)'
  BY <1>1, <1>2, <1>3 DEF HasRow, RowOf, Idx
<1>5. \A v \in Workers \ {w} : HasRow(v)' <=> HasRow(v)
  BY <1>1 DEF HasRow, RowOf, Idx
<1>6. DoneInv'
  BY <1>1, <1>4, <1>5 DEF DoneInv, AtTurn
<1>7. ASSUME NEW k \in DOMAIN events
      PROVE  RowLeft(k)' <=> RowLeft(k)
  <2>1. CASE events[k].worker_id = w
    <3>1. RowLeft(k) /\ Idx(events[k]) < session_idx'[w] - 1
      BY <2>1, <1>1, <1>2, <1>3 DEF RowLeft, RowOf
    <3> QED
      BY <2>1, <3>1, <1>1 DEF RowLeft, Idx
  <2>2. CASE events[k].worker_id # w
    BY <2>2, <1>1, EventFields DEF RowLeft, Idx
  <2> QED
    BY <2>1, <2>2
<1>8. SessionsLeft' = SessionsLeft
  BY <1>1, <1>7 DEF SessionsLeft, Idx
<1> QED
  BY <1>1, <1>6, <1>8 DEF LeftInv

\* Whoever is cancelled in a session without a turn has no row to lose.
LEMMA DoneCancel ==
  ASSUME TypeOK, KeysInv, DoneInv, LeftInv, Cancel
  PROVE  DoneInv' /\ LeftInv'
<1>1. /\ events' = events /\ live' = live /\ session_idx' = session_idx /\ done' = done
      /\ \A v \in Workers : pc'[v] = IF pc[v] \in {"returned", "raised", "unlogged"}
                                     THEN pc[v] ELSE "cancelled"
  BY DEF Cancel, sharedVars
<1>2. DoneInv'
  BY <1>1 DEF DoneInv, AtTurn
<1>3. ASSUME NEW k \in DOMAIN events
      PROVE  RowLeft(k)' <=> RowLeft(k)
  <2>1. PICK v \in Workers : events[k].worker_id = v
    BY EventFields
  <2>2. CASE pc[v] \in {"returned", "raised", "unlogged", "cancelled"}
    BY <2>1, <2>2, <1>1 DEF RowLeft, Idx
  <2>3. CASE pc[v] = "idle"
    BY <2>1, <2>3, <1>1 DEF RowLeft, DoneInv
  <2>4. CASE AtTurn(v)
    <3>1. RowLeft(k) <=> Idx(events[k]) < session_idx[v] - 1
      BY <2>1, <2>4 DEF RowLeft, AtTurn
    <3>2. done[v] = NoTurns => Idx(events[k]) # session_idx[v] - 1
      BY <2>1, <2>4 DEF DoneInv, HasRow, RowOf
    <3>3. Idx(events[k]) \in Nat /\ session_idx[v] \in Nat /\ Idx(events[k]) < session_idx[v]
      BY <2>1, EventFields DEF TypeOK, KeysInv
    <3>4. RowLeft(k)' <=> Idx(events[k]) < session_idx[v] - 1 \/ done[v] = NoTurns
      BY <2>1, <2>4, <1>1 DEF RowLeft, AtTurn, Idx
    <3> QED
      BY <3>1, <3>2, <3>3, <3>4
  <2> QED
    BY <2>2, <2>3, <2>4 DEF TypeOK, AtTurn
<1>4. SessionsLeft' = SessionsLeft
  BY <1>1, <1>3 DEF SessionsLeft, Idx
<1>5. \A v \in Workers : pc[v] = "unlogged" => pc'[v] = "unlogged"
  BY <1>1
<1> QED
  BY <1>1, <1>2, <1>4, <1>5 DEF LeftInv

LEMMA DoneStep ==
  ASSUME TypeOK, PlaceInv, KeysInv, DoneInv, LeftInv, [Next]_vars
  PROVE  DoneInv' /\ LeftInv'
<1> DEFINE Same ==
      /\ events' = events /\ live' = live /\ session_idx' = session_idx /\ done' = done
      /\ \A v \in Workers : \/ pc'[v] = pc[v]
                            \/ pc[v] = "idle" /\ pc'[v] = "returned"
                            \/ AtTurn(v) /\ (AtTurn(v)' \/ pc'[v] = "raised")
<1>1. ASSUME Same
      PROVE  DoneInv' /\ LeftInv'
  <2>1. DoneInv'
    BY <1>1 DEF DoneInv, AtTurn, HasRow, RowOf, Idx
  <2>2. \A k \in DOMAIN events : RowLeft(k)' <=> RowLeft(k)
    BY <1>1, EventFields DEF RowLeft, AtTurn, Idx
  <2>3. SessionsLeft' = SessionsLeft
    BY <1>1, <2>2 DEF SessionsLeft, Idx
  <2>4. \A v \in Workers : pc[v] = "unlogged" => pc'[v] = "unlogged"
    BY <1>1 DEF AtTurn
  <2> QED
    BY <1>1, <2>1, <2>3, <2>4 DEF LeftInv
<1> USE DEF runVars, sharedVars, agentVars, AtTurn
<1>0. pc = [v \in Workers |-> pc[v]]
  BY DEF TypeOK
<1>2. ASSUME NEW w \in Workers, Return(w) \/ BeginTurn(w) \/ Send(w)
      PROVE  Same
  BY <1>0, <1>2 DEF Return, BeginTurn, Send
<1>3. ASSUME NEW w \in Workers, FirstByte(w) \/ RaiseInStream(w)
      PROVE  Same
  BY <1>0, <1>3 DEF FirstByte, RaiseInStream
<1>4. ASSUME NEW w \in Workers, NEW error \in BOOLEAN, RaiseInWrite(w, error)
      PROVE  DoneInv' /\ LeftInv'
  <2>1. /\ pc' = [pc EXCEPT ![w] = "unlogged"] /\ UNCHANGED <<events, session_idx>>
        /\ \A v \in Workers \ {w} : done'[v] = done[v]
    BY <1>4, CountMoves DEF RaiseInWrite
  <2>2. pc'[w] = "unlogged" /\ \A v \in Workers \ {w} : pc'[v] = pc[v]
    BY <2>1, <1>0
  <2>3. \A v : HasRow(v)' <=> HasRow(v)
    BY <2>1 DEF HasRow, RowOf, Idx
  <2>4. DoneInv'
    BY <2>1, <2>2, <2>3 DEF DoneInv
  <2> QED
    BY <2>2, <2>4 DEF LeftInv
<1>5. ASSUME Gather \/ GatherRaises \/ Tick \/ UNCHANGED vars
      PROVE  Same
  BY <1>5 DEF Gather, GatherRaises, Tick, vars
<1> HIDE DEF Same
<1> QED
  BY <1>1, <1>2, <1>3, <1>4, <1>5, DonePick, DoneEndSession, DoneEndTurn, DoneCancel
  DEF Next, AgentStep, EngineStep, RunStep, Terminated

LEMMA CountsTyped ==
  ASSUME TypeOK
  PROVE  /\ [w \in Workers |-> Completed(w)] \in [Workers -> Nat]
         /\ [w \in Workers |-> Failed(w)] \in [Workers -> Nat]
         /\ [w \in Workers |-> result[w].sessions_completed] \in [Workers -> Nat]
<1>1. \A w \in Workers : result[w] \in SessionCounts /\ done[w] \in TurnCounts
  BY DEF TypeOK
<1> QED
  BY <1>1 DEF Completed, Failed, SessionCounts, TurnCounts

\* One agent counts a turn, completed or failed.
LEMMA SumCount ==
  ASSUME TypeOK, TypeOK', SumInv, NEW w \in Workers, NEW error \in BOOLEAN, Count(w, error),
         result' = result
  PROVE  SumInv'
<1> DEFINE c == [v \in Workers |-> Completed(v)]
           f == [v \in Workers |-> Failed(v)]
           d == [v \in Workers |-> Completed(v)']
           g == [v \in Workers |-> Failed(v)']
<1>1. c \in [Workers -> Nat] /\ f \in [Workers -> Nat]
  BY CountsTyped
<1>2. d \in [Workers -> Nat] /\ g \in [Workers -> Nat]
  <2>1. \A v \in Workers : result[v] \in SessionCounts /\ done'[v] \in TurnCounts
    BY DEF TypeOK
  <2> QED
    BY <2>1 DEF Completed, Failed, SessionCounts, TurnCounts
<1>3. \A v \in Workers : v # w => d[v] = c[v] /\ g[v] = f[v]
  BY CountMoves DEF Completed, Failed
<1>4. result[w] \in SessionCounts /\ done[w] \in TurnCounts /\ done'[w] \in TurnCounts
  BY DEF TypeOK
<1>5. \/ /\ live'.turns_completed = live.turns_completed + 1
         /\ live'.turns_failed = live.turns_failed
         /\ d[w] = c[w] + 1 /\ g[w] = f[w]
      \/ /\ live'.turns_completed = live.turns_completed
         /\ live'.turns_failed = live.turns_failed + 1
         /\ d[w] = c[w] /\ g[w] = f[w] + 1
  BY <1>4, CountMoves DEF Completed, Failed, SessionCounts, TurnCounts
<1>6. live'.sessions_completed = live.sessions_completed
  BY CountMoves
<1>7. live'.turns_completed = SumFunction(d) /\ live'.turns_failed = SumFunction(g)
  <2> HIDE DEF c, d, f, g
  <2>1. SumFunction(d) = SumFunction(c) - c[w] + d[w]
    BY <1>1, <1>2, <1>3, WorkersFinite, SumChange
  <2>2. SumFunction(g) = SumFunction(f) - f[w] + g[w]
    BY <1>1, <1>2, <1>3, WorkersFinite, SumChange
  <2>3. /\ SumFunction(c) \in Nat /\ SumFunction(f) \in Nat
        /\ c[w] \in Nat /\ d[w] \in Nat /\ f[w] \in Nat /\ g[w] \in Nat
    BY <1>1, <1>2, WorkersFinite, SumType
  <2>4. live.turns_completed = SumFunction(c) /\ live.turns_failed = SumFunction(f)
    BY DEF SumInv, c, f
  <2> QED
    BY <2>1, <2>2, <2>3, <2>4, <1>5
<1> QED
  BY <1>6, <1>7 DEF SumInv, Completed, Failed

\* An agent leaves a session: what it has counted becomes part of its result.
LEMMA SumEndSession ==
  ASSUME TypeOK, TypeOK', SumInv, NEW w \in Workers, EndSession(w)
  PROVE  SumInv'
<1> DEFINE s == [v \in Workers |-> result[v].sessions_completed]
           t == [v \in Workers |-> result'[v].sessions_completed]
<1>1. /\ done'[w] = NoTurns /\ \A v \in Workers \ {w} : done'[v] = done[v] /\ result'[v] = result[v]
      /\ result'[w].turns_completed = result[w].turns_completed + done[w].turns_completed
      /\ result'[w].turns_failed = result[w].turns_failed + done[w].turns_failed
      /\ result'[w].sessions_completed = result[w].sessions_completed + Played(w)
  BY DEF EndSession, TypeOK
<1>2. /\ live'.turns_completed = live.turns_completed /\ live'.turns_failed = live.turns_failed
      /\ live'.sessions_completed = live.sessions_completed + Played(w)
  BY DEF EndSession, LivePlayed, TypeOK, LiveCounts
<1>3. \A v \in Workers : /\ result[v] \in SessionCounts /\ done[v] \in TurnCounts
                         /\ result'[v] \in SessionCounts
  BY DEF TypeOK
<1>4. ASSUME NEW v \in Workers
      PROVE  Completed(v)' = Completed(v) /\ Failed(v)' = Failed(v)
  BY <1>1, <1>3 DEF Completed, Failed, NoTurns, SessionCounts, TurnCounts
<1>5. s \in [Workers -> Nat] /\ t \in [Workers -> Nat]
  BY <1>3 DEF SessionCounts
<1>6. t[w] = s[w] + Played(w) /\ \A v \in Workers : v # w => t[v] = s[v]
  BY <1>1
<1>7. live.sessions_completed = SumFunction(s)
  BY DEF SumInv
<1> HIDE DEF s, t
<1>8. SumFunction(t) = SumFunction(s) - s[w] + t[w]
  BY <1>5, <1>6, WorkersFinite, SumChange
<1>9. SumFunction(s) \in Nat /\ s[w] \in Nat /\ Played(w) \in Nat
  BY <1>5, WorkersFinite, SumType DEF Played
<1>10. live'.sessions_completed = SumFunction(t)
  BY <1>2, <1>6, <1>7, <1>8, <1>9
<1> QED
  BY <1>2, <1>4, <1>10 DEF SumInv, t

LEMMA SumStep ==
  ASSUME TypeOK, TypeOK', DoneInv, SumInv, StatsInv, [Next]_vars
  PROVE  SumInv' /\ StatsInv'
<1> DEFINE Same == /\ live' = live /\ result' = result
                   /\ \A v \in Workers : done'[v] = done[v]
<1>1. ASSUME Same
      PROVE  SumInv'
  BY <1>1 DEF SumInv, Completed, Failed
<1> USE DEF runVars, sharedVars, agentVars
<1>2. ASSUME NEW w \in Workers, PickSession(w)
      PROVE  Same
  BY <1>2 DEF PickSession, DoneInv, TypeOK
<1>3. ASSUME NEW w \in Workers,
             Return(w) \/ BeginTurn(w) \/ Send(w) \/ FirstByte(w) \/ RaiseInStream(w)
      PROVE  Same
  BY <1>3 DEF Return, BeginTurn, Send, FirstByte, RaiseInStream
<1>4. ASSUME RunStep \/ Tick \/ UNCHANGED vars
      PROVE  Same
  BY <1>4 DEF RunStep, Gather, GatherRaises, Cancel, Tick, vars
<1>5. ASSUME NEW w \in Workers, NEW error \in BOOLEAN, EndTurn(w, error) \/ RaiseInWrite(w, error)
      PROVE  SumInv'
  BY <1>5, SumCount DEF EndTurn, RaiseInWrite
<1> HIDE DEF Same
<1>6. SumInv'
  BY <1>1, <1>2, <1>3, <1>4, <1>5, SumEndSession DEF Next, AgentStep, EngineStep, Terminated
<1>7. CASE Gather
  <2>1. \A v \in Workers : done[v] = NoTurns /\ result[v] \in SessionCounts
    BY <1>7 DEF Gather, DoneInv, TypeOK
  <2>2. \A v \in Workers : /\ Completed(v) = result[v].turns_completed
                           /\ Failed(v) = result[v].turns_failed
    BY <2>1 DEF Completed, Failed, NoTurns, SessionCounts
  <2>3. /\ [v \in Workers |-> Completed(v)] = [v \in Workers |-> result[v].turns_completed]
        /\ [v \in Workers |-> Failed(v)] = [v \in Workers |-> result[v].turns_failed]
    BY <2>2
  <2>4. live' = live
    BY <1>7 DEF Gather
  <2> QED
    BY <1>6, <1>7, <2>3, <2>4 DEF Gather, SumInv, StatsInv
<1>8. CASE \/ run' = run /\ (run = "finished" => UNCHANGED <<stats, live>>)
           \/ run' # "finished"
  BY <1>6, <1>8 DEF StatsInv
<1>9. ASSUME NEW w \in Workers, AgentStep(w) \/ EngineStep(w)
      PROVE  run' = run /\ run # "finished"
  BY <1>9 DEF AgentStep, EngineStep, PickSession, Return, BeginTurn, EndSession, Send,
              FirstByte, RaiseInStream, EndTurn, RaiseInWrite, Loop
<1>10. ASSUME GatherRaises \/ Cancel
       PROVE  run' # "finished"
  BY <1>10 DEF GatherRaises, Cancel
<1>11. ASSUME Tick \/ UNCHANGED vars
       PROVE  run' = run /\ UNCHANGED <<stats, live>>
  BY <1>11 DEF Tick, vars
<1> QED
  BY <1>7, <1>8, <1>9, <1>10, <1>11, <1>6 DEF Next, RunStep, Terminated

\* A session is counted once, by whoever leaves it, and what gather adds up at the
\* end is what the shared counters have counted meanwhile.
THEOREM SessionsAreCountedOnce == Spec => []SessionsCountedOnce
<1>1. Init => DoneInv /\ LeftInv /\ SumInv /\ StatsInv /\ KeysInv
  <2> SUFFICES ASSUME Init
               PROVE  DoneInv /\ LeftInv /\ SumInv /\ StatsInv /\ KeysInv
    OBVIOUS
  <2>1. events = <<>> /\ SessionsLeft = {}
    BY DEF Init, SessionsLeft
  <2>2. DoneInv /\ LeftInv /\ StatsInv /\ KeysInv
    BY <2>1, FS_EmptySet DEF Init, DoneInv, AtTurn, LeftInv, StatsInv, KeysInv, EventKeysUnique
  <2>3. \A w \in Workers : Completed(w) = 0 /\ Failed(w) = 0 /\ result[w].sessions_completed = 0
    BY DEF Init, Completed, Failed, NoStats, NoTurns
  <2>4. /\ SumFunction([w \in Workers |-> Completed(w)]) = 0
        /\ SumFunction([w \in Workers |-> Failed(w)]) = 0
        /\ SumFunction([w \in Workers |-> result[w].sessions_completed]) = 0
    BY <2>3, WorkersFinite, SumZero
  <2>5. SumInv
    BY <2>4 DEF Init, SumInv
  <2> QED
    BY <2>2, <2>5
<1>2. TypeOK /\ PlaceInv /\ KeysInv /\ [Next]_vars => KeysInv'
  BY KeysStep
<1>3. TypeOK /\ PlaceInv /\ KeysInv /\ DoneInv /\ LeftInv /\ [Next]_vars => DoneInv' /\ LeftInv'
  BY DoneStep
<1>4. TypeOK /\ TypeOK' /\ DoneInv /\ SumInv /\ StatsInv /\ [Next]_vars => SumInv' /\ StatsInv'
  BY SumStep
<1>5. LeftInv /\ StatsInv => SessionsCountedOnce
  BY DEF LeftInv, StatsInv, SessionsCountedOnce, SessionsLeft, RowLeft
<1> QED
  BY <1>1, <1>2, <1>3, <1>4, <1>5, TypeAndPlace, PTL DEF Spec
=============================================================================
