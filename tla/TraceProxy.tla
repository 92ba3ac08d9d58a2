----------------------------- MODULE TraceProxy -----------------------------
(***************************************************************************)
(* The capture proxy (pipeline/proxy: app.py, recorder.py, parse.py) between *)
(* claude-cli and the engine.  It answers title requests itself, forwards   *)
(* everything else, and logs one row of turn_traces.jsonl for each answer to *)
(* a POST /v1/messages: the conversation sent, the part of it that is new,   *)
(* and the time since the last request.                                    *)
(*                                                                         *)
(* All handlers run on one event loop; a handler is two steps, before and    *)
(* after the await of the engine's answer.  The conversations of claude-cli  *)
(* (its main loop and its sub-agents) and the engine are the environment.   *)
(* Requests to other paths pass through and touch no state.                *)
(***************************************************************************)
EXTENDS Integers, Sequences, FiniteSets, FiniteSetsExt, Functions

CONSTANTS
    Agents,         \* claude-cli's conversations: the main loop, the sub-agents
    Prompt,         \* agent -> its system prompt and tools, which never change
    NoTime,         \* Python's None, for a time
    Capture,        \* --capture
    Horizon,        \* bound: the clock stops here
    MaxRequests,    \* bound: requests that reach the proxy
    MaxTroubles,    \* bound: broken connections and error answers
    MaxGiveUps,     \* bound: requests whose client stops waiting
    Kinds           \* kinds of request that occur, of "turn", "title", "opaque"

ASSUME ProxyConstants ==
    /\ Prompt \in [Agents -> STRING]
    /\ NoTime \notin Nat
    /\ Capture \in BOOLEAN
    /\ Horizon \in Nat /\ MaxRequests \in Nat /\ MaxTroubles \in Nat /\ MaxGiveUps \in Nat
    /\ Kinds \subseteq {"turn", "title", "opaque"}

VARIABLES
    clock,          \* time.time(), from the start of the session
    requests,       \* what has reached /v1/messages, in order of arrival
    last_units,     \* TraceRecorder._last_turn_units
    last_time,      \* TraceRecorder._last_response_time
    rows,           \* turn_traces.jsonl
    talk,           \* agent -> messages in its conversation
    client,         \* agent -> "idle", "waiting" for an answer, or to "retry"
    awaited,        \* agent -> the request it waits for
    troubles,       \* broken connections and error answers so far
    give_ups        \* requests given up so far

recorderVars == <<last_units, last_time, rows>>
clientVars   == <<talk, client, awaited>>
countVars    == <<troubles, give_ups>>
vars == <<clock, requests, recorderVars, clientVars, countVars>>

-----------------------------------------------------------------------------
(* The body of a request.  The CLI puts a fresh nonce in front of the system   *)
(* prompt of every request, and a notice of role "system" among the messages. *)

Message(a, i) == [role |-> IF i = 1 THEN "system" ELSE "user", by |-> a, no |-> i]

Body(a, n) == [system |-> [prompt |-> Prompt[a], nonce |-> Len(requests) + 1],
               messages |-> [i \in 1 .. n |-> Message(a, i)]]

(* The pieces the handlers are made of.  A definition X_... before X is a bug X *)
(* does not have; the mutants of PROJECT.json put it in the place of X.        *)

\* rerole_system_messages, on the body's messages.
Rerole(messages) ==
    [i \in DOMAIN messages |->
        IF messages[i].role = "system" THEN [messages[i] EXCEPT !.role = "user"]
                                       ELSE messages[i]]

\* _strip_billing_header: what is left in front of the system prompt.
StripNonce_Kept(system) == system.nonce
StripNonce(system) == 0

\* request_chunks: the system text and the tools (one chunk here), then one chunk
\* per message.
RequestChunks(body) ==
    <<[role |-> "SYSTEM", by |-> body.system.prompt, no |-> StripNonce(body.system)]>>
        \o body.messages

\* common_prefix_len: the shared leading run of two chunk lists.
CommonPrefixLen(previous, current) ==
    Cardinality({k \in 1 .. Len(current) :
        k <= Len(previous) /\ \A i \in 1 .. k : previous[i] = current[i]})

\* note_response_time: the value returned ...
ToolExecMs == IF last_time = NoTime THEN NoTime ELSE clock - last_time

\* ... and the time remembered, on the arrival of a request and on its answer.
TimeAtArrival == clock
TimeAtAnswer == last_time

\* The time remembered when a title request is answered from the can.
TimeAtTitle_Now == clock
TimeAtTitle == last_time

Init ==
    /\ clock = 0 /\ requests = <<>>
    /\ last_units = <<>> /\ last_time = NoTime /\ rows = <<>>
    /\ talk = [a \in Agents |-> 0]
    /\ client = [a \in Agents |-> "idle"]
    /\ awaited = [a \in Agents |-> 0]
    /\ troubles = 0 /\ give_ups = 0

-----------------------------------------------------------------------------
(* ProxyApp._messages, up to the await *)

\* A title request: answered at once, never sent on, never noted.
AnswerTitle(a) ==
    /\ "title" \in Kinds /\ Len(requests) < MaxRequests
    /\ requests' = Append(requests,
           [kind |-> "title", agent |-> a, body |-> Body(a, 0), request_time |-> clock,
            tool_exec_ms |-> NoTime, status |-> "canned", http |-> "200",
            responded_at |-> clock])
    /\ last_time' = TimeAtTitle
    /\ UNCHANGED <<clock, last_units, rows, clientVars, countVars>>

\* Noted and forwarded, with the messages of a JSON body re-roled.
Forward(kind, a, n) ==
    /\ kind \in Kinds /\ Len(requests) < MaxRequests
    /\ requests' = Append(requests,
           [kind |-> kind, agent |-> a,
            body |-> [Body(a, n) EXCEPT !.messages =
                         IF kind = "turn" THEN Rerole(@) ELSE @],
            request_time |-> clock, tool_exec_ms |-> ToolExecMs,
            status |-> "sent", http |-> "", responded_at |-> NoTime])
    /\ last_time' = TimeAtArrival
    /\ talk' = [talk EXCEPT ![a] = n]
    /\ client' = [client EXCEPT ![a] = "waiting"]
    /\ awaited' = [awaited EXCEPT ![a] = Len(requests) + 1]
    /\ UNCHANGED <<clock, last_units, rows, countVars>>

\* The next turn of a conversation: the reply and a tool result have been added.
Ask(a) ==
    /\ client[a] = "idle"
    /\ Forward("turn", a, talk[a] + 2)

\* After a failure, an error answer, or its own patience, the client sends the
\* same conversation again.
Retry(a) ==
    /\ client[a] = "retry"
    /\ Forward("turn", a, talk[a])

\* A body that is not a JSON object is forwarded as it is.
Opaque(a) ==
    /\ client[a] = "idle"
    /\ Forward("opaque", a, talk[a])

-----------------------------------------------------------------------------
(* ProxyApp._messages, from the await on *)

Row(r) ==
    LET chunks == RequestChunks(requests[r].body) IN
    [request |-> r, request_time |-> requests[r].request_time,
     tool_exec_ms |-> requests[r].tool_exec_ms,
     isl_text |-> chunks,
     isl_new_text |-> SubSeq(chunks, CommonPrefixLen(last_units, chunks) + 1, Len(chunks))]

\* What is logged: every answer, whatever its status code.
Logs_OkOnly(r) == Capture /\ requests[r].kind = "turn" /\ requests[r].http = "200"
Logs(r) == Capture /\ requests[r].kind = "turn"

\* What _last_turn_units becomes when a row is written.
NextUnits_Kept(r) == last_units
NextUnits(r) == RequestChunks(requests[r].body)

\* The client hears of the end of a request, if it still waits for it.
Hears(r, next) ==
    LET a == requests[r].agent IN
    client' = IF client[a] = "waiting" /\ awaited[a] = r
              THEN [client EXCEPT ![a] = next] ELSE client

\* What the client makes of a handler that raised.
AfterFailure_Hangs == "waiting"
AfterFailure == "retry"

\* The answer is complete: the row is written, then the answer passed on.
Respond(r) ==
    /\ requests[r].status = "finished"
    /\ requests' = [requests EXCEPT ![r].status = "responded", ![r].responded_at = clock]
    /\ IF Logs(r)
       THEN rows' = Append(rows, Row(r)) /\ last_units' = NextUnits(r)
       ELSE UNCHANGED <<rows, last_units>>
    /\ last_time' = TimeAtAnswer
    /\ Hears(r, IF requests[r].http = "200" THEN "idle" ELSE "retry")
    /\ UNCHANGED <<clock, talk, awaited, countVars>>

\* httpx raises, before or while the answer is read: no row, and a 500 for the client.
ForwardFails(r) ==
    /\ requests[r].status \in {"sent", "finished"} /\ troubles < MaxTroubles
    /\ requests' = [requests EXCEPT ![r].status = "failed"]
    /\ troubles' = troubles + 1
    /\ Hears(r, AfterFailure)
    /\ UNCHANGED <<clock, recorderVars, talk, awaited, give_ups>>

-----------------------------------------------------------------------------
(* The environment *)

\* vLLM refuses a body that is no JSON, or that has a message of role "system".
Refused(r) ==
    \/ requests[r].kind = "opaque"
    \/ \E i \in DOMAIN requests[r].body.messages : requests[r].body.messages[i].role = "system"

Finish(r, http) ==
    /\ requests[r].status = "sent"
    /\ http = "400" <=> Refused(r)
    /\ IF http = "500" THEN troubles < MaxTroubles /\ troubles' = troubles + 1
                       ELSE UNCHANGED troubles
    /\ requests' = [requests EXCEPT ![r].status = "finished", ![r].http = http]
    /\ UNCHANGED <<clock, recorderVars, clientVars, give_ups>>

\* The client stops waiting; the handler goes on.
GiveUp(a) ==
    /\ client[a] = "waiting" /\ give_ups < MaxGiveUps
    /\ client' = [client EXCEPT ![a] = "retry"]
    /\ give_ups' = give_ups + 1
    /\ UNCHANGED <<clock, requests, recorderVars, talk, awaited, troubles>>

Tick ==
    /\ clock < Horizon
    /\ clock' = clock + 1
    /\ UNCHANGED <<requests, recorderVars, clientVars, countVars>>

-----------------------------------------------------------------------------
InFlight == {r \in DOMAIN requests : requests[r].status \in {"sent", "finished"}}

ClientStep(a) == Ask(a) \/ Retry(a) \/ Opaque(a) \/ GiveUp(a) \/ AnswerTitle(a)

EngineStep(r) == \E http \in {"200", "400", "500"} : Finish(r, http)

\* The session is over: claude-cli has no more to ask.
Quiet == InFlight = {} /\ UNCHANGED vars

Next ==
    \/ \E a \in Agents : ClientStep(a)
    \/ \E r \in DOMAIN requests : EngineStep(r) \/ Respond(r) \/ ForwardFails(r)
    \/ Tick
    \/ Quiet

Spec == Init /\ [][Next]_vars

\* The event loop resumes every handler whose answer is there, and the engine ends
\* every request: the proxy sets no timeout of its own.
FairSpec ==
    /\ Spec
    /\ \A r \in 1 .. MaxRequests :
          /\ WF_vars(r \in DOMAIN requests /\ EngineStep(r))
          /\ WF_vars(r \in DOMAIN requests /\ Respond(r))

-----------------------------------------------------------------------------
(* Properties *)

\* turn_traces.jsonl holds one row for each turn that was answered, whether or not
\* the client still waited and whatever the status code; and none for a title, a body
\* that is no JSON object, or a request whose answer has not come or was broken off.
RowsAreAnswers ==
    Capture =>
        /\ {rows[i].request : i \in DOMAIN rows} =
              {r \in DOMAIN requests :
                  requests[r].kind = "turn" /\ requests[r].status = "responded"}
        /\ \A i, j \in DOMAIN rows : rows[i].request = rows[j].request => i = j

\* isl_new_text is a difference that can be undone: the row before and the new
\* chunks give back isl_text, and what is left out is as long as can be, in the
\* order of the file, however the handlers interleave (recorder.py:44-57).
IslNewDecodes ==
    \A i \in DOMAIN rows :
        LET before == IF i = 1 THEN <<>> ELSE rows[i - 1].isl_text
            isl    == rows[i].isl_text
            shared == Len(isl) - Len(rows[i].isl_new_text)
        IN  /\ shared \in 0 .. Len(before)
            /\ isl = SubSeq(before, 1, shared) \o rows[i].isl_new_text
            /\ (shared < Len(before) /\ shared < Len(isl)) =>
                before[shared + 1] # isl[shared + 1]

\* The pauses of the file tile the session.  They do not overlap: no moment is slept
\* twice when the rows are replayed one after the other, sub-agents or not ...
PausesDontOverlap ==
    \A i, j \in DOMAIN rows :
        (/\ rows[i].tool_exec_ms # NoTime /\ rows[j].tool_exec_ms # NoTime
         /\ rows[i].request < rows[j].request) =>
            rows[j].request_time - rows[j].tool_exec_ms >= rows[i].request_time

\* ... and once every forwarded request is in the file they add up to the time from
\* the first request to the last, title requests notwithstanding.
PausesTile ==
    /\ PausesDontOverlap
    /\ (/\ Capture /\ rows # <<>>
        /\ \A r \in DOMAIN requests :
              \/ requests[r].kind = "title"
              \/ requests[r].kind = "turn" /\ requests[r].status = "responded") =>
           LET times == {rows[i].request_time : i \in DOMAIN rows} IN
           SumFunction([i \in DOMAIN rows |->
               IF rows[i].tool_exec_ms = NoTime THEN 0 ELSE rows[i].tool_exec_ms])
             = Max(times) - Min(times)

\* "The conversation is append-only, so turn N's chunks share a common prefix with
\* turn N-1's; the new suffix is isl_new" (parse.py:50-56): every chunk is new
\* in exactly one row, through failures and retries.
OnlyFreshMessagesNew ==
    \A i, j \in DOMAIN rows :
        i # j => Range(rows[i].isl_new_text) \cap Range(rows[j].isl_new_text) = {}

\* Whoever waits for an answer gets one, an error or its own patience apart.
WaitEnds == \A a \in Agents : client[a] = "waiting" ~> client[a] # "waiting"

-----------------------------------------------------------------------------
(* What the documents say and the code does not do *)

\* README.md:37 and trace_collection/README.md:54: tool_exec_ms is the time between
\* the previous turn's response and this turn's request.
ToolExecIsSinceResponse ==
    \A i \in 2 .. Len(rows) :
        rows[i].tool_exec_ms =
            rows[i].request_time - requests[rows[i - 1].request].responded_at
=============================================================================
