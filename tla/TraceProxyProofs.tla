-------------------------- MODULE TraceProxyProofs --------------------------
(***************************************************************************)
(* The rows of turn_traces.jsonl for any number of conversations, requests,   *)
(* failures and clients that give up: one row for each answer, differences    *)
(* that can be undone in the order of the file, and pauses that do not overlap  *)
(* in the order of arrival and add up to the length of the session.  For one  *)
(* conversation also: every piece of it new in one row only, and every turn  *)
(* loaded with its own token counts until the scraper has merged two.       *)
(***************************************************************************)
EXTENDS CapturePairing, FoldLemmas, SequenceTheorems

-----------------------------------------------------------------------------
(* The state *)

Chunks   == [role : {"SYSTEM", "system", "user"}, by : STRING \cup Agents, no : Nat]
Bodies   == [system : [prompt : STRING, nonce : Nat], messages : Seq(Chunks)]
Times    == Nat \cup {NoTime}
Requests ==
    [kind : {"turn", "title", "opaque"}, agent : Agents, body : Bodies,
     request_time : Nat, tool_exec_ms : Times,
     status : {"canned", "sent", "finished", "responded", "failed"},
     http : {"", "200", "400", "500"}, responded_at : Times]
Rows ==
    [request : Nat, request_time : Nat, tool_exec_ms : Times,
     isl_text : Seq(Chunks), isl_new_text : Seq(Chunks)]

Typed ==
    /\ clock \in Nat /\ talk \in [Agents -> Nat]
    /\ requests \in Seq(Requests) /\ rows \in Seq(Rows)
    /\ last_units \in Seq(Chunks) /\ last_time \in Times

\* The next difference is taken to the last row.
Diffed ==
    /\ last_units = IF rows = <<>> THEN <<>> ELSE rows[Len(rows)].isl_text
    /\ IslNewDecodes

Answered == {r \in DOMAIN requests :
                requests[r].status = "responded" /\ requests[r].kind = "turn"}

OneEach ==
    Capture =>
        /\ Len(rows) = Cardinality(Answered)
        /\ \A i, j \in DOMAIN rows : rows[i].request = rows[j].request => i = j

Logged ==
    /\ \A i \in DOMAIN rows :
          LET r == rows[i].request
          IN  /\ r \in Answered
              /\ rows[i].request_time = requests[r].request_time
              /\ rows[i].tool_exec_ms = requests[r].tool_exec_ms
    /\ OneEach

Noted(r) == requests[r].kind # "title"

\* The last arrival is the latest one, and a pause goes back to the arrival before.
Timed ==
    /\ last_time # NoTime => last_time <= clock
    /\ \A r \in DOMAIN requests : Noted(r) =>
          last_time # NoTime /\ requests[r].request_time <= last_time
    /\ \A r, s \in DOMAIN requests :
          (r < s /\ Noted(r) /\ Noted(s)) =>
              /\ requests[s].tool_exec_ms # NoTime
              /\ requests[s].request_time - requests[s].tool_exec_ms >= requests[r].request_time

\* The pauses of the rows, of the requests that have one, and of all that were noted.
Pause(t)     == IF t = NoTime THEN 0 ELSE t
RowPauses    == [i \in DOMAIN rows |-> Pause(rows[i].tool_exec_ms)]
LoggedPauses == [r \in DOMAIN requests |->
                    IF r \in Answered THEN Pause(requests[r].tool_exec_ms) ELSE 0]
NotedPauses  == [r \in DOMAIN requests |->
                    IF Noted(r) THEN Pause(requests[r].tool_exec_ms) ELSE 0]

\* The file has the pauses of the requests it logs, and those of all the noted requests
\* lead from the first of them, r, to the last, s.
Covered ==
    /\ Capture => SumFunction(RowPauses) = SumFunction(LoggedPauses)
    /\ last_time # NoTime =>
          \E r, s \in DOMAIN requests :
              /\ Noted(r) /\ Noted(s)
              /\ requests[s].request_time = last_time
              /\ \A k \in DOMAIN requests :
                    Noted(k) => requests[r].request_time <= requests[k].request_time
              /\ SumFunction(NotedPauses) = last_time - requests[r].request_time

Inv == Typed /\ Diffed /\ Logged /\ Timed /\ Covered

-----------------------------------------------------------------------------
(* common_prefix_len *)

\* A set of numbers from 1 on without a gap is counted by its largest.
LEMMA InitialSegment ==
    ASSUME NEW n \in Nat, NEW K \in SUBSET (1 .. n),
           \A k \in K : \A j \in 1 .. k : j \in K
    PROVE  /\ Cardinality(K) \in 0 .. n
           /\ \A k \in 1 .. n : k \in K <=> k <= Cardinality(K)
<1>1. IsFiniteSet(1 .. n) /\ Cardinality(1 .. n) = n
  BY FS_Interval
<1>2. IsFiniteSet(K) /\ Cardinality(K) <= n
  BY <1>1, FS_Subset
<1>3. Cardinality(K) \in Nat
  BY <1>2, FS_CardinalityType
<1>4. ASSUME NEW k \in 1 .. n, k \in K PROVE k <= Cardinality(K)
  <2>1. (1 .. k) \in SUBSET K BY <1>4
  <2>2. Cardinality(1 .. k) <= Cardinality(K) BY <2>1, <1>2, FS_Subset
  <2>3. Cardinality(1 .. k) = k BY FS_Interval
  <2>q. QED BY <2>2, <2>3
<1>5. ASSUME NEW k \in 1 .. n, k \notin K PROVE k > Cardinality(K)
  <2>1. K \in SUBSET (1 .. k - 1)
    <3> SUFFICES ASSUME NEW j \in K PROVE j \in 1 .. k - 1 OBVIOUS
    <3>1. ~(k <= j) BY <1>5
    <3>q. QED BY <3>1
  <2>2. IsFiniteSet(1 .. k - 1) /\ Cardinality(1 .. k - 1) = k - 1 BY FS_Interval
  <2>3. Cardinality(K) <= k - 1 BY <2>1, <2>2, FS_Subset
  <2>q. QED BY <2>3, <1>3
<1>q. QED BY <1>2, <1>3, <1>4, <1>5

\* It is the length of a common beginning, and of no longer one.
LEMMA CommonPrefix ==
    ASSUME NEW S, NEW previous \in Seq(S), NEW current \in Seq(S),
           NEW m, m = CommonPrefixLen(previous, current)
    PROVE  /\ m \in 0 .. Len(current) /\ m <= Len(previous)
           /\ \A i \in 1 .. m : previous[i] = current[i]
           /\ (m < Len(previous) /\ m < Len(current)) => previous[m + 1] # current[m + 1]
<1> DEFINE K == {k \in 1 .. Len(current) :
                    k <= Len(previous) /\ \A i \in 1 .. k : previous[i] = current[i]}
<1>0. Len(previous) \in Nat /\ Len(current) \in Nat OBVIOUS
<1>1. K \in SUBSET (1 .. Len(current)) OBVIOUS
<1>2. \A k \in K : \A j \in 1 .. k : j \in K BY <1>0
<1>3. m = Cardinality(K) BY DEF CommonPrefixLen
<1> HIDE DEF K
<1>4. m \in 0 .. Len(current) /\ \A k \in 1 .. Len(current) : k \in K <=> k <= m
  BY <1>0, <1>1, <1>2, <1>3, InitialSegment
<1>5. m # 0 => m \in K BY <1>4, <1>0
<1>6. m <= Len(previous) /\ \A i \in 1 .. m : previous[i] = current[i]
  BY <1>5, <1>4, <1>0 DEF K
<1>7. ASSUME m < Len(previous), m < Len(current) PROVE previous[m + 1] # current[m + 1]
  <2>1. m + 1 \in 1 .. Len(current) /\ m + 1 <= Len(previous) BY <1>4, <1>7, <1>0
  <2>2. m + 1 \notin K BY <2>1, <1>4, <1>0
  <2>3. PICK i \in 1 .. m + 1 : previous[i] # current[i] BY <2>1, <2>2 DEF K
  <2>4. i = m + 1 BY <2>3, <1>6, <1>4, <1>0
  <2>q. QED BY <2>3, <2>4
<1>q. QED BY <1>4, <1>6, <1>7


\* What IslNewDecodes says of a row.
Decodes(before, isl, new) ==
    LET shared == Len(isl) - Len(new)
    IN  /\ shared \in 0 .. Len(before)
        /\ isl = SubSeq(before, 1, shared) \o new
        /\ (shared < Len(before) /\ shared < Len(isl)) => before[shared + 1] # isl[shared + 1]

Before(i) == IF i = 1 THEN <<>> ELSE rows[i - 1].isl_text

LEMMA RowDecodes ==
    IslNewDecodes <=>
        \A i \in DOMAIN rows : Decodes(Before(i), rows[i].isl_text, rows[i].isl_new_text)
  BY DEF IslNewDecodes, Decodes, Before

LEMMA DifferenceDecodes ==
    ASSUME NEW S, NEW previous \in Seq(S), NEW current \in Seq(S),
           NEW m, m = CommonPrefixLen(previous, current)
    PROVE  Decodes(previous, current, SubSeq(current, m + 1, Len(current)))
<1> DEFINE new == SubSeq(current, m + 1, Len(current))
<1>0. Len(previous) \in Nat /\ Len(current) \in Nat OBVIOUS
<1>1. /\ m \in 0 .. Len(current) /\ m <= Len(previous)
      /\ \A i \in 1 .. m : previous[i] = current[i]
      /\ (m < Len(previous) /\ m < Len(current)) => previous[m + 1] # current[m + 1]
  BY CommonPrefix
<1>2. new \in Seq(S) /\ Len(new) = Len(current) - m BY <1>0, <1>1
<1>3. SubSeq(previous, 1, m) = SubSeq(current, 1, m) BY <1>0, <1>1
<1>4. current = SubSeq(current, 1, m) \o new
  <2>1. SubSeq(current, 1, Len(current)) = current OBVIOUS
  <2>2. m \in 1 - 1 .. Len(current) /\ Len(current) \in m .. Len(current)
        /\ 1 \in 1 .. Len(current) + 1
    BY <1>0, <1>1
  <2>q. QED BY <2>1, <2>2, ConcatAdjacentSubSeq
<1> HIDE DEF new
<1>5. Len(current) - Len(new) = m BY <1>0, <1>1, <1>2
<1>6. m \in 0 .. Len(previous) BY <1>0, <1>1
<1>7. current = SubSeq(previous, 1, m) \o new BY <1>3, <1>4
<1>8. Decodes(previous, current, new) BY <1>1, <1>5, <1>6, <1>7, Zenon DEF Decodes
<1>q. QED BY <1>8 DEF new

-----------------------------------------------------------------------------
(* Types *)

LEMMA ChunksTyped ==
    ASSUME NEW body \in Bodies
    PROVE  RequestChunks(body) \in Seq(Chunks)
<1> DEFINE first == [role |-> "SYSTEM", by |-> body.system.prompt, no |-> StripNonce(body.system)]
<1>1. first \in Chunks BY DEF Bodies, Chunks, StripNonce
<1>2. <<first>> \in Seq(Chunks) BY <1>1
<1>3. body.messages \in Seq(Chunks) BY DEF Bodies
<1>q. QED BY <1>2, <1>3 DEF RequestChunks

LEMMA BodyTyped ==
    ASSUME Typed, NEW a \in Agents, NEW n \in Nat
    PROVE  /\ Body(a, n) \in Bodies
           /\ [Body(a, n) EXCEPT !.messages = Rerole(@)] \in Bodies
<1>1. \A i \in 1 .. n : Message(a, i) \in Chunks BY DEF Message, Chunks
<1>2. [i \in 1 .. n |-> Message(a, i)] \in Seq(Chunks) BY <1>1
<1>3. [prompt |-> Prompt[a], nonce |-> Len(requests) + 1] \in [prompt : STRING, nonce : Nat]
  BY ProxyConstants DEF Typed
<1>4. Body(a, n) \in Bodies BY <1>2, <1>3 DEF Body, Bodies
<1>5. ASSUME NEW m \in Seq(Chunks) PROVE Rerole(m) \in Seq(Chunks)
  <2>1. \A i \in 1 .. Len(m) : m[i] \in Chunks OBVIOUS
  <2>2. \A i \in 1 .. Len(m) : [m[i] EXCEPT !.role = "user"] \in Chunks BY <2>1 DEF Chunks
  <2>3. DOMAIN m = 1 .. Len(m) /\ Len(m) \in Nat OBVIOUS
  <2>q. QED BY <2>1, <2>2, <2>3 DEF Rerole
<1>6. Rerole(Body(a, n).messages) \in Seq(Chunks) BY <1>4, <1>5 DEF Bodies
<1>7. ASSUME NEW b \in Bodies, NEW m \in Seq(Chunks)
      PROVE  [b EXCEPT !.messages = m] \in Bodies
  BY DEF Bodies
<1>q. QED BY <1>4, <1>6, <1>7

LEMMA InitInv == Init => Inv
<1> SUFFICES ASSUME Init PROVE Inv OBVIOUS
<1> USE DEF Init
<1>1. Typed BY DEF Typed, Times
<1>2. Diffed BY DEF Diffed, IslNewDecodes
<1>3. Logged
  <2>1. Answered = {} BY DEF Answered
  <2>q. QED BY <2>1, FS_EmptySet DEF Logged, OneEach, Answered
<1>4. Timed BY DEF Timed
<1>5. Covered
  <2>1. DOMAIN rows = {} /\ DOMAIN requests = {} BY DEF Covered
  <2>2. RowPauses = LoggedPauses BY <2>1 DEF RowPauses, LoggedPauses
  <2>q. QED BY <2>2 DEF Covered
<1>q. QED BY <1>1, <1>2, <1>3, <1>4, <1>5 DEF Inv

-----------------------------------------------------------------------------
(* The steps *)

LEMMA SameState ==
    ASSUME Inv, UNCHANGED <<clock, requests, last_units, last_time, rows, talk>>
    PROVE  Inv'
<1>1. (Typed /\ Diffed /\ Logged /\ Timed)'
  BY DEF Inv, Typed, Diffed, IslNewDecodes, Logged, OneEach, Answered, Timed, Noted
<1>2. RowPauses' = RowPauses /\ LoggedPauses' = LoggedPauses /\ NotedPauses' = NotedPauses
  BY DEF RowPauses, LoggedPauses, NotedPauses, Answered, Noted
<1>3. Covered' BY <1>2 DEF Inv, Covered, Noted
<1>q. QED BY <1>1, <1>3 DEF Inv

\* Every pause is a number.
PausesAreNumbers ==
    /\ RowPauses \in [DOMAIN rows -> Nat] /\ LoggedPauses \in [DOMAIN requests -> Nat]
    /\ NotedPauses \in [DOMAIN requests -> Nat]

LEMMA PausesTyped == Typed => PausesAreNumbers
<1> SUFFICES ASSUME Typed PROVE PausesAreNumbers OBVIOUS
<1>1. /\ \A r \in DOMAIN requests : Pause(requests[r].tool_exec_ms) \in Nat
      /\ \A i \in DOMAIN rows : Pause(rows[i].tool_exec_ms) \in Nat
  <2>1. /\ \A r \in DOMAIN requests : requests[r] \in Requests
        /\ \A i \in DOMAIN rows : rows[i] \in Rows
    BY DEF Typed
  <2>q. QED BY <2>1 DEF Requests, Rows, Times, Pause
<1>q. QED BY <1>1 DEF PausesAreNumbers, RowPauses, LoggedPauses, NotedPauses

\* A request arrives: nothing of it is in the file yet.
LEMMA ArrivalKeeps ==
    ASSUME Inv, NEW r \in Requests, requests' = Append(requests, r),
           r.status \in {"canned", "sent"}, r.request_time = clock,
           \/ r.kind = "title" /\ last_time' = last_time
           \/ r.kind # "title" /\ r.tool_exec_ms = ToolExecMs /\ last_time' = clock,
           talk' \in [Agents -> Nat], UNCHANGED <<clock, last_units, rows>>
    PROVE  Inv'
<1>0. Typed BY DEF Inv
<1>1. /\ Len(requests) \in Nat /\ DOMAIN requests = 1 .. Len(requests)
      /\ requests' \in Seq(Requests) /\ DOMAIN requests' = 1 .. Len(requests) + 1
      /\ \A k \in DOMAIN requests : k \in DOMAIN requests' /\ requests'[k] = requests[k]
      /\ requests'[Len(requests) + 1] = r
  BY <1>0 DEF Typed
<1>2. Typed' BY <1>0, <1>1 DEF Typed, Times
<1>3. Diffed' BY DEF Inv, Diffed, IslNewDecodes
<1>4. Logged'
  <2>1. Answered' = Answered BY <1>1 DEF Answered
  <2>2. OneEach'
    BY <2>1 DEF Inv, Logged, OneEach, Answered
  <2>3. Answered \subseteq DOMAIN requests BY DEF Answered
  <2>q. QED BY <1>1, <2>1, <2>2, <2>3 DEF Inv, Logged
<1>5. Timed'
  <2>0. Timed /\ clock \in Nat /\ last_time \in Times /\ last_time' \in Times
    BY <1>0, <1>2 DEF Inv, Typed
  <2>1. last_time' # NoTime => last_time' <= clock' BY <2>0 DEF Timed, Times
  <2>2. \A k \in DOMAIN requests :
           requests[k].request_time \in Nat /\ requests[k].tool_exec_ms \in Times
    <3>1. \A k \in DOMAIN requests : requests[k] \in Requests BY <1>0 DEF Typed
    <3>q. QED BY <3>1 DEF Requests
  <2>3. \A k \in DOMAIN requests' : Noted(k)' =>
           last_time' # NoTime /\ requests'[k].request_time <= last_time'
    <3> SUFFICES ASSUME NEW k \in DOMAIN requests', Noted(k)'
                 PROVE  last_time' # NoTime /\ requests'[k].request_time <= last_time'
      OBVIOUS
    <3>1. clock # NoTime BY ProxyConstants, <2>0
    <3>2. CASE k \in DOMAIN requests
      <4>1. Noted(k) /\ requests'[k] = requests[k] BY <1>1, <3>2 DEF Noted
      <4>q. QED BY <4>1, <3>1, <3>2, <2>0, <2>2 DEF Timed, Times
    <3>3. CASE k = Len(requests) + 1 BY <1>1, <3>1, <3>3, <2>0 DEF Noted
    <3>q. QED BY <1>1, <3>2, <3>3
  <2>4. ASSUME NEW k \in DOMAIN requests', NEW s \in DOMAIN requests', k < s, Noted(k)', Noted(s)'
        PROVE  /\ requests'[s].tool_exec_ms # NoTime
               /\ requests'[s].request_time - requests'[s].tool_exec_ms
                     >= requests'[k].request_time
    <3>1. k \in DOMAIN requests /\ requests'[k] = requests[k] /\ Noted(k)
      BY <2>4, <1>1 DEF Noted
    <3>2. CASE s \in DOMAIN requests
      <4>1. requests'[s] = requests[s] /\ Noted(s) BY <2>4, <3>2, <1>1 DEF Noted
      <4>q. QED BY <2>4, <3>1, <3>2, <4>1, <2>0 DEF Timed
    <3>3. CASE s = Len(requests) + 1
      <4>1. requests'[s] = r /\ r.kind # "title" BY <2>4, <3>3, <1>1 DEF Noted
      <4>2. last_time # NoTime /\ requests[k].request_time <= last_time /\ last_time <= clock
        BY <3>1, <2>0 DEF Timed
      <4>3. r.tool_exec_ms = clock - last_time /\ last_time \in Nat
        BY <4>1, <4>2, <2>0 DEF ToolExecMs, Times
      <4>4. clock - last_time \in Nat BY <4>2, <4>3, <2>0
      <4>q. QED BY <4>1, <4>2, <4>3, <4>4, <3>1, <2>0, <2>2, ProxyConstants
    <3>q. QED BY <1>1, <3>2, <3>3
  <2>q. QED BY <2>1, <2>3, <2>4 DEF Timed
<1>6. Covered'
  <2> PICK n : n = Len(requests) OBVIOUS
  <2>0. /\ n \in Nat /\ DOMAIN requests = 1 .. n /\ DOMAIN requests' = 1 .. n + 1
        /\ LoggedPauses \in [1 .. n -> Nat] /\ LoggedPauses' \in [1 .. n + 1 -> Nat]
        /\ NotedPauses \in [1 .. n -> Nat] /\ NotedPauses' \in [1 .. n + 1 -> Nat]
    <3>1. PausesAreNumbers /\ PausesAreNumbers' BY <1>0, <1>2, PausesTyped, PTL
    <3>q. QED BY <1>1, <3>1 DEF PausesAreNumbers
  <2>1. SumFunction(LoggedPauses') = SumFunction(LoggedPauses)
    <3>1. \A k \in 1 .. n : LoggedPauses'[k] = LoggedPauses[k]
      BY <1>1, <2>0 DEF LoggedPauses, Answered
    <3>2. LoggedPauses'[n + 1] = 0 BY <1>1, <2>0 DEF LoggedPauses, Answered
    <3>3. SumFunction(LoggedPauses) \in Nat BY <2>0, IntervalSize, SumType
    <3>4. SumFunction(LoggedPauses') = SumFunction(LoggedPauses) + LoggedPauses'[n + 1]
      BY <2>0, <3>1, SumAppend
    <3>q. QED BY <3>2, <3>3, <3>4
  <2>2. SumFunction(NotedPauses') =
            SumFunction(NotedPauses) + (IF r.kind = "title" THEN 0 ELSE Pause(r.tool_exec_ms))
    <3>1. \A k \in 1 .. n : NotedPauses'[k] = NotedPauses[k]
      BY <1>1, <2>0 DEF NotedPauses, Noted
    <3>2. NotedPauses'[n + 1] = IF r.kind = "title" THEN 0 ELSE Pause(r.tool_exec_ms)
      BY <1>1, <2>0 DEF NotedPauses, Noted
    <3>q. QED BY <2>0, <3>1, <3>2, SumAppend
  <2>3. Capture => SumFunction(RowPauses') = SumFunction(LoggedPauses')
    <3>1. RowPauses' = RowPauses BY DEF RowPauses
    <3>q. QED BY <2>1, <3>1 DEF Inv, Covered
  <2>4. \A k \in DOMAIN requests : Noted(k)' <=> Noted(k) BY <1>1 DEF Noted
  <2>5. \A k \in DOMAIN requests : requests[k].request_time \in Nat
    <3>1. \A k \in DOMAIN requests : requests[k] \in Requests BY <1>0 DEF Typed
    <3>q. QED BY <3>1 DEF Requests
  <2>6. SumFunction(NotedPauses) \in Nat /\ clock \in Nat /\ last_time \in Times
    BY <1>0, <2>0, IntervalSize, SumType DEF Typed
  <2>7. clock # NoTime BY <2>6, ProxyConstants
  <2>8. CASE r.kind = "title"
    <3>1. SumFunction(NotedPauses') = SumFunction(NotedPauses) /\ last_time' = last_time
      BY <2>2, <2>6, <2>8
    <3>2. ~Noted(n + 1)' BY <1>1, <2>8 DEF Noted
    <3>3. ASSUME last_time # NoTime
          PROVE  \E f, s \in DOMAIN requests' :
                    /\ Noted(f)' /\ Noted(s)'
                    /\ requests'[s].request_time = last_time'
                    /\ \A k \in DOMAIN requests' :
                          Noted(k)' => requests'[f].request_time <= requests'[k].request_time
                    /\ SumFunction(NotedPauses') = last_time' - requests'[f].request_time
      <4>1. PICK f \in DOMAIN requests, s \in DOMAIN requests :
                  /\ Noted(f) /\ Noted(s)
                  /\ requests[s].request_time = last_time
                  /\ \A k \in DOMAIN requests :
                        Noted(k) => requests[f].request_time <= requests[k].request_time
                  /\ SumFunction(NotedPauses) = last_time - requests[f].request_time
        BY <3>3 DEF Inv, Covered
      <4>2. /\ f \in DOMAIN requests' /\ s \in DOMAIN requests' /\ Noted(f)' /\ Noted(s)'
            /\ requests'[f] = requests[f] /\ requests'[s] = requests[s]
        BY <1>1, <2>4, <4>1
      <4>3. \A k \in DOMAIN requests' :
               Noted(k)' => requests'[f].request_time <= requests'[k].request_time
        BY <1>1, <2>0, <2>4, <3>2, <4>1, <4>2
      <4>q. QED BY <3>1, <4>1, <4>2, <4>3
    <3>q. QED BY <2>3, <3>1, <3>3 DEF Covered
  <2>9. CASE r.kind # "title"
    <3>1. last_time' = clock /\ last_time' # NoTime /\ Noted(n + 1)'
          /\ requests'[n + 1].request_time = clock /\ n + 1 \in DOMAIN requests'
          /\ SumFunction(NotedPauses') = SumFunction(NotedPauses) + Pause(ToolExecMs)
      BY <1>1, <2>0, <2>2, <2>7, <2>9 DEF Noted
    <3>2. CASE last_time = NoTime
      <4>1. \A k \in DOMAIN requests : ~Noted(k) BY <3>2 DEF Inv, Timed
      <4>2. SumFunction(NotedPauses) = 0
        <5>1. \A k \in 1 .. n : NotedPauses[k] = 0 BY <2>0, <4>1 DEF NotedPauses
        <5>q. QED BY <2>0, <5>1, IntervalSize, SumZero
      <4>3. Pause(ToolExecMs) = 0 BY <3>2 DEF Pause, ToolExecMs
      <4>4. SumFunction(NotedPauses') = clock - requests'[n + 1].request_time
        BY <2>6, <3>1, <4>2, <4>3
      <4>5. \A k \in DOMAIN requests' : Noted(k)' => k = n + 1
        BY <2>0, <2>4, <4>1
      <4>6. \A k \in DOMAIN requests' :
               Noted(k)' => requests'[n + 1].request_time <= requests'[k].request_time
        BY <2>6, <3>1, <4>5
      <4>q. QED BY <2>3, <3>1, <4>4, <4>6 DEF Covered
    <3>3. CASE last_time # NoTime
      <4>1. PICK f \in DOMAIN requests :
                  /\ Noted(f)
                  /\ \A k \in DOMAIN requests :
                        Noted(k) => requests[f].request_time <= requests[k].request_time
                  /\ SumFunction(NotedPauses) = last_time - requests[f].request_time
        BY <3>3 DEF Inv, Covered
      <4>2. last_time \in Nat /\ last_time <= clock /\ requests[f].request_time <= last_time
        BY <2>6, <3>3, <4>1 DEF Inv, Timed, Times
      <4>3. Pause(ToolExecMs) = clock - last_time
        <5>1. clock - last_time \in Nat BY <2>6, <4>2
        <5>q. QED BY <3>3, <5>1, ProxyConstants DEF Pause, ToolExecMs
      <4>4. f \in DOMAIN requests' /\ Noted(f)' /\ requests'[f] = requests[f]
        BY <1>1, <2>4, <4>1
      <4>5. SumFunction(NotedPauses') = clock - requests'[f].request_time
        BY <2>5, <2>6, <3>1, <4>1, <4>2, <4>3, <4>4
      <4>6. ASSUME NEW k \in DOMAIN requests', Noted(k)'
            PROVE  requests'[f].request_time <= requests'[k].request_time
        <5>1. CASE k \in DOMAIN requests BY <1>1, <2>4, <4>1, <4>4, <4>6, <5>1
        <5>2. CASE k = n + 1 BY <2>5, <2>6, <3>1, <4>2, <4>4, <5>2
        <5>q. QED BY <2>0, <5>1, <5>2
      <4>q. QED BY <2>3, <3>1, <4>4, <4>5, <4>6 DEF Covered
    <3>q. QED BY <3>2, <3>3
  <2>q. QED BY <2>8, <2>9
<1>q. QED BY <1>2, <1>3, <1>4, <1>5, <1>6 DEF Inv

LEMMA SeqExcept ==
    ASSUME NEW S, NEW s \in Seq(S), NEW i \in DOMAIN s, NEW e \in S
    PROVE  /\ [s EXCEPT ![i] = e] \in Seq(S) /\ DOMAIN [s EXCEPT ![i] = e] = DOMAIN s
           /\ [s EXCEPT ![i] = e][i] = e
           /\ \A k \in DOMAIN s : k # i => [s EXCEPT ![i] = e][k] = s[k]
  OBVIOUS

\* The status of a request changes, and nothing of it is logged.
LEMMA StatusKeeps ==
    ASSUME Inv, NEW r \in DOMAIN requests, NEW now \in Requests,
           requests' = [requests EXCEPT ![r] = now],
           requests[r].status # "responded", now.status # "responded",
           now.kind = requests[r].kind, now.request_time = requests[r].request_time,
           now.tool_exec_ms = requests[r].tool_exec_ms,
           UNCHANGED <<clock, recorderVars, talk>>
    PROVE  Inv'
<1> USE DEF recorderVars
<1>0. Typed BY DEF Inv
<1>1. /\ requests' \in Seq(Requests) /\ DOMAIN requests' = DOMAIN requests
      /\ requests'[r] = now
      /\ \A k \in DOMAIN requests : k # r => requests'[k] = requests[k]
  <2>1. requests \in Seq(Requests) BY <1>0 DEF Typed
  <2>q. QED BY <2>1, SeqExcept
<1>5. \A k \in DOMAIN requests :
         /\ requests'[k].kind = requests[k].kind
         /\ requests'[k].request_time = requests[k].request_time
         /\ requests'[k].tool_exec_ms = requests[k].tool_exec_ms
         /\ requests'[k].status = "responded" <=> requests[k].status = "responded"
  BY <1>1
<1>6. Answered' = Answered BY <1>1, <1>5 DEF Answered
<1>7. Typed' BY <1>0, <1>1 DEF Typed
<1>8. Diffed' BY DEF Inv, Diffed, IslNewDecodes
<1>9. Logged'
  <2>1. OneEach' BY <1>6 DEF Inv, Logged, OneEach, Answered
  <2>2. Answered \subseteq DOMAIN requests BY DEF Answered
  <2>q. QED BY <1>5, <1>6, <2>1, <2>2 DEF Inv, Logged
<1>10. Timed' BY <1>1, <1>5 DEF Inv, Timed, Noted
<1>11. Covered'
  <2>1. RowPauses' = RowPauses BY DEF RowPauses
  <2>2. LoggedPauses' = LoggedPauses BY <1>1, <1>5, <1>6 DEF LoggedPauses, Pause
  <2>3. NotedPauses' = NotedPauses BY <1>1, <1>5 DEF NotedPauses, Noted, Pause
  <2>4. \A k \in DOMAIN requests : Noted(k)' <=> Noted(k) BY <1>1, <1>5 DEF Noted
  <2>q. QED BY <1>1, <1>5, <2>1, <2>2, <2>3, <2>4 DEF Inv, Covered
<1>q. QED BY <1>7, <1>8, <1>9, <1>10, <1>11 DEF Inv

\* An answer is passed on; a turn's is logged.
LEMMA RespondKeeps == ASSUME Inv, NEW r \in DOMAIN requests, Respond(r) PROVE Inv'
<1> DEFINE now == [requests[r] EXCEPT !.status = "responded", !.responded_at = clock]
<1>0. Typed /\ Diffed /\ Logged /\ Timed BY DEF Inv
<1>1. /\ requests \in Seq(Requests) /\ DOMAIN requests = 1 .. Len(requests)
      /\ requests[r] \in Requests /\ requests[r].status = "finished"
  BY <1>0 DEF Typed, Respond
<1>2. now \in Requests /\ now.status = "responded" /\ now.kind = requests[r].kind
      /\ now.request_time = requests[r].request_time
      /\ now.tool_exec_ms = requests[r].tool_exec_ms
  BY <1>0, <1>1 DEF Typed, Requests, Times
<1>3. requests' = [requests EXCEPT ![r] = now] BY <1>1 DEF Respond
<1> HIDE DEF now
<1>4. /\ requests' \in Seq(Requests) /\ DOMAIN requests' = DOMAIN requests
      /\ requests'[r] = now
      /\ \A k \in DOMAIN requests : k # r => requests'[k] = requests[k]
  BY <1>1, <1>2, <1>3, SeqExcept
<1>5. \A k \in DOMAIN requests :
         /\ requests'[k].kind = requests[k].kind
         /\ requests'[k].request_time = requests[k].request_time
         /\ requests'[k].tool_exec_ms = requests[k].tool_exec_ms
  BY <1>2, <1>4
<1>6. UNCHANGED <<clock, talk, last_time>> BY DEF Respond, TimeAtAnswer
<1>7. Timed' BY <1>0, <1>4, <1>5, <1>6 DEF Timed, Noted
<1>8. Answered' = IF requests[r].kind = "turn" THEN Answered \cup {r} ELSE Answered
  BY <1>1, <1>2, <1>4 DEF Answered
<1>9. r \notin Answered BY <1>1 DEF Answered
<1>10. Answered \subseteq DOMAIN requests BY DEF Answered
<1>13. Covered => (last_time # NoTime =>
          \E f, s \in DOMAIN requests' :
              /\ Noted(f)' /\ Noted(s)'
              /\ requests'[s].request_time = last_time'
              /\ \A k \in DOMAIN requests' :
                    Noted(k)' => requests'[f].request_time <= requests'[k].request_time
              /\ SumFunction(NotedPauses') = last_time' - requests'[f].request_time)
  <2>1. NotedPauses' = NotedPauses BY <1>4, <1>5 DEF NotedPauses, Noted, Pause
  <2>2. \A k \in DOMAIN requests : Noted(k)' <=> Noted(k) BY <1>4, <1>5 DEF Noted
  <2>q. QED BY <1>4, <1>5, <1>6, <2>1, <2>2 DEF Covered
<1>11. CASE ~Logs(r)
  <2>1. UNCHANGED <<rows, last_units>> BY <1>11 DEF Respond
  <2>2. Typed' BY <1>0, <1>4, <1>6, <2>1 DEF Typed
  <2>3. Diffed' BY <1>0, <2>1 DEF Diffed, IslNewDecodes
  <2>4. ~Capture \/ Answered' = Answered BY <1>8, <1>11 DEF Logs
  <2>5. OneEach' BY <1>0, <2>1, <2>4 DEF Logged, OneEach, Answered
  <2>6. Answered \subseteq Answered' BY <1>8
  <2>7. Logged' BY <1>0, <1>5, <1>10, <2>1, <2>5, <2>6 DEF Logged
  <2>8. ASSUME Capture PROVE SumFunction(RowPauses') = SumFunction(LoggedPauses')
    <3>1. RowPauses' = RowPauses BY <2>1 DEF RowPauses
    <3>2. LoggedPauses' = LoggedPauses BY <1>4, <1>5, <2>4, <2>8 DEF LoggedPauses, Pause
    <3>q. QED BY <2>8, <3>1, <3>2 DEF Inv, Covered
  <2>9. Covered' BY <1>6, <1>13, <2>8 DEF Inv, Covered
  <2>q. QED BY <1>7, <2>2, <2>3, <2>7, <2>9 DEF Inv
<1>12. CASE Logs(r)
  <2> DEFINE chunks == RequestChunks(requests[r].body)
             m == CommonPrefixLen(last_units, chunks)
             row == Row(r)
  <2>1. chunks \in Seq(Chunks) /\ last_units \in Seq(Chunks) /\ Len(chunks) \in Nat
        /\ Len(last_units) \in Nat
    <3>1. requests[r].body \in Bodies BY <1>1 DEF Requests
    <3>2. chunks \in Seq(Chunks) BY <3>1, ChunksTyped
    <3>3. last_units \in Seq(Chunks) BY <1>0 DEF Typed
    <3>q. QED BY <3>2, <3>3
  <2>2. m \in 0 .. Len(chunks) /\ Decodes(last_units, chunks, SubSeq(chunks, m + 1, Len(chunks)))
    BY <2>1, CommonPrefix, DifferenceDecodes
  <2>3. /\ row.request = r /\ row.request_time = requests[r].request_time
        /\ row.tool_exec_ms = requests[r].tool_exec_ms
        /\ row.isl_text = chunks /\ row.isl_new_text = SubSeq(chunks, m + 1, Len(chunks))
    BY DEF Row
  <2>4. rows' = Append(rows, row) /\ last_units' = chunks
    BY <1>12 DEF Respond, NextUnits
  <2> HIDE DEF chunks, m
  <2>5. SubSeq(chunks, m + 1, Len(chunks)) \in Seq(Chunks) BY <2>1, <2>2
  <2>6. row \in Rows
    <3>1. requests[r].request_time \in Nat /\ requests[r].tool_exec_ms \in Times
      BY <1>1 DEF Requests
    <3>2. row = [request |-> r, request_time |-> requests[r].request_time,
                 tool_exec_ms |-> requests[r].tool_exec_ms, isl_text |-> chunks,
                 isl_new_text |-> SubSeq(chunks, m + 1, Len(chunks))]
      BY DEF Row, chunks, m
    <3>3. r \in Nat BY <1>1
    <3> HIDE DEF row
    <3>q. QED BY <2>1, <2>5, <3>1, <3>2, <3>3 DEF Rows
  <2> HIDE DEF row
  <2>7. /\ rows \in Seq(Rows) /\ Len(rows) \in Nat /\ DOMAIN rows = 1 .. Len(rows)
        /\ rows' \in Seq(Rows) /\ Len(rows') = Len(rows) + 1
        /\ DOMAIN rows' = 1 .. Len(rows) + 1 /\ rows'[Len(rows) + 1] = row
        /\ \A i \in DOMAIN rows : rows'[i] = rows[i]
    BY <1>0, <2>4, <2>6 DEF Typed
  <2>8. Typed' BY <1>0, <1>4, <1>6, <2>1, <2>4, <2>7 DEF Typed
  <2>9. Diffed'
    <3>1. last_units' = IF rows' = <<>> THEN <<>> ELSE rows'[Len(rows')].isl_text
      BY <2>3, <2>4, <2>7
    <3>2. ASSUME NEW i \in DOMAIN rows'
          PROVE  Decodes(Before(i)', rows'[i].isl_text, rows'[i].isl_new_text)
      <4>1. CASE i \in DOMAIN rows
        <5>1. rows'[i] = rows[i] /\ Before(i)' = Before(i) BY <4>1, <2>7 DEF Before
        <5>2. Decodes(Before(i), rows[i].isl_text, rows[i].isl_new_text)
          BY <1>0, <4>1, RowDecodes DEF Diffed
        <5>q. QED BY <5>1, <5>2
      <4>2. CASE i = Len(rows) + 1
        <5>1. Before(i)' = last_units
          <6>1. CASE i = 1 BY <1>0, <4>2, <6>1, <2>7 DEF Diffed, Before
          <6>2. CASE i # 1 BY <1>0, <4>2, <6>2, <2>7 DEF Diffed, Before
          <6>q. QED BY <6>1, <6>2
        <5>2. rows'[i].isl_text = chunks
              /\ rows'[i].isl_new_text = SubSeq(chunks, m + 1, Len(chunks))
          BY <4>2, <2>3, <2>7
        <5>q. QED BY <5>1, <5>2, <2>2
      <4>q. QED BY <4>1, <4>2, <2>7
    <3>3. IslNewDecodes' BY <3>2 DEF IslNewDecodes, Decodes, Before
    <3>q. QED BY <3>1, <3>3 DEF Diffed
  <2>10. Logged'
    <3>1. Capture /\ Answered' = Answered \cup {r} BY <1>8, <1>12 DEF Logs
    <3>2. IsFiniteSet(Answered)
      <4>1. IsFiniteSet(1 .. Len(requests)) BY <1>1, FS_Interval
      <4>q. QED BY <1>1, <1>10, <4>1, FS_Subset
    <3>3. Cardinality(Answered') = Cardinality(Answered) + 1
      BY <3>1, <3>2, <1>9, FS_AddElement
    <3>4. \A i \in DOMAIN rows : rows[i].request \in Answered BY <1>0 DEF Logged
    <3>5. Len(rows) = Cardinality(Answered)
      BY <1>0, <3>1 DEF Logged, OneEach, Answered
    <3>6. \A i, j \in DOMAIN rows : rows[i].request = rows[j].request => i = j
      BY <1>0, <3>1 DEF Logged, OneEach
    <3>7. \A i, j \in DOMAIN rows' : rows'[i].request = rows'[j].request => i = j
      BY <3>4, <3>6, <1>9, <2>3, <2>7
    <3>8. OneEach'
      BY <3>3, <3>5, <3>7, <2>7 DEF OneEach, Answered
    <3>9. ASSUME NEW i \in DOMAIN rows'
          PROVE  LET k == rows'[i].request
                 IN  /\ k \in Answered'
                     /\ rows'[i].request_time = requests'[k].request_time
                     /\ rows'[i].tool_exec_ms = requests'[k].tool_exec_ms
      <4>1. CASE i \in DOMAIN rows
        <5>1. rows'[i] = rows[i] BY <4>1, <2>7
        <5>q. QED BY <4>1, <5>1, <3>1, <1>0, <1>5, <1>10 DEF Logged
      <4>2. CASE i = Len(rows) + 1 BY <4>2, <2>3, <2>7, <3>1, <1>5
      <4>q. QED BY <4>1, <4>2, <2>7
    <3>q. QED BY <3>8, <3>9 DEF Logged
  <2>11. SumFunction(RowPauses') = SumFunction(LoggedPauses')
    <3>1. /\ IsFiniteSet(DOMAIN requests)
          /\ LoggedPauses \in [DOMAIN requests -> Nat] /\ LoggedPauses' \in [DOMAIN requests -> Nat]
          /\ RowPauses \in [1 .. Len(rows) -> Nat] /\ RowPauses' \in [1 .. Len(rows) + 1 -> Nat]
      <4>1. PausesAreNumbers /\ PausesAreNumbers' BY <1>0, <2>8, PausesTyped, PTL
      <4>2. IsFiniteSet(DOMAIN requests) BY <1>1, IntervalSize
      <4>q. QED BY <1>4, <2>7, <4>1, <4>2 DEF PausesAreNumbers
    <3>2. SumFunction(RowPauses') = SumFunction(RowPauses) + Pause(requests[r].tool_exec_ms)
      <4>1. \A i \in 1 .. Len(rows) : RowPauses'[i] = RowPauses[i] BY <2>7 DEF RowPauses
      <4>2. RowPauses'[Len(rows) + 1] = Pause(requests[r].tool_exec_ms)
        BY <2>3, <2>7 DEF RowPauses
      <4>3. Len(rows) \in Nat BY <2>7
      <4>q. QED BY <3>1, <4>1, <4>2, <4>3, SumAppend
    <3>3. SumFunction(LoggedPauses') = SumFunction(LoggedPauses) + Pause(requests[r].tool_exec_ms)
      <4>1. Answered' = Answered \cup {r} BY <1>8, <1>12 DEF Logs
      <4>2. \A k \in DOMAIN requests : k # r => LoggedPauses'[k] = LoggedPauses[k]
        BY <1>4, <1>5, <4>1 DEF LoggedPauses, Pause
      <4>3. LoggedPauses[r] = 0 /\ LoggedPauses'[r] = Pause(requests[r].tool_exec_ms)
        BY <1>4, <1>5, <1>9, <4>1 DEF LoggedPauses, Pause
      <4>4. SumFunction(LoggedPauses') =
                SumFunction(LoggedPauses) - LoggedPauses[r] + LoggedPauses'[r]
        BY <3>1, <4>2, SumChange
      <4>5. SumFunction(LoggedPauses) \in Nat BY <3>1, SumType
      <4>q. QED BY <4>3, <4>4, <4>5
    <3>q. QED BY <1>12, <3>2, <3>3 DEF Inv, Covered, Logs
  <2>12. Covered' BY <1>6, <1>13, <2>11 DEF Inv, Covered
  <2>q. QED BY <1>7, <2>8, <2>9, <2>10, <2>12 DEF Inv
<1>q. QED BY <1>11, <1>12

LEMMA ClientKeeps == ASSUME Inv, NEW a \in Agents, ClientStep(a) PROVE Inv'
<1>0. Typed /\ clock \in Nat /\ talk[a] \in Nat /\ talk \in [Agents -> Nat] BY DEF Inv, Typed
<1>1. ASSUME NEW kind \in {"turn", "opaque"}, NEW n \in Nat, Forward(kind, a, n) PROVE Inv'
  <2> DEFINE r == [kind |-> kind, agent |-> a,
                   body |-> [Body(a, n) EXCEPT !.messages =
                                IF kind = "turn" THEN Rerole(@) ELSE @],
                   request_time |-> clock, tool_exec_ms |-> ToolExecMs,
                   status |-> "sent", http |-> "", responded_at |-> NoTime]
  <2>1. ToolExecMs \in Times
    <3>1. last_time # NoTime => last_time \in Nat /\ last_time <= clock
      BY <1>0 DEF Inv, Typed, Timed, Times
    <3>2. last_time # NoTime => clock - last_time \in Nat BY <3>1, <1>0
    <3>q. QED BY <3>2 DEF ToolExecMs, Times
  <2>2. [Body(a, n) EXCEPT !.messages = IF kind = "turn" THEN Rerole(@) ELSE @] \in Bodies
    <3>1. CASE kind = "turn" BY <3>1, <1>0, BodyTyped
    <3>2. CASE kind # "turn"
      <4>1. Body(a, n) \in Bodies BY <1>0, BodyTyped
      <4>2. [Body(a, n) EXCEPT !.messages = @] = Body(a, n) BY <4>1 DEF Bodies
      <4>q. QED BY <3>2, <4>1, <4>2
    <3>q. QED BY <3>1, <3>2
  <2>3. r \in Requests BY <1>0, <2>1, <2>2 DEF Requests, Times
  <2>4. requests' = Append(requests, r) /\ last_time' = clock BY <1>1 DEF Forward, TimeAtArrival
  <2>5. UNCHANGED <<clock, last_units, rows>> /\ talk' = [talk EXCEPT ![a] = n]
    BY <1>1 DEF Forward
  <2>6. talk' \in [Agents -> Nat] BY <1>0, <2>5
  <2>7. /\ r.status = "sent" /\ r.request_time = clock /\ r.kind # "title"
        /\ r.tool_exec_ms = ToolExecMs
    OBVIOUS
  <2> HIDE DEF r
  <2>q. QED BY <2>3, <2>4, <2>5, <2>6, <2>7, ArrivalKeeps
<1>2. CASE AnswerTitle(a)
  <2> DEFINE r == [kind |-> "title", agent |-> a, body |-> Body(a, 0), request_time |-> clock,
                   tool_exec_ms |-> NoTime, status |-> "canned", http |-> "200",
                   responded_at |-> clock]
  <2>1. Body(a, 0) \in Bodies BY <1>0, BodyTyped
  <2>2. r \in Requests BY <1>0, <2>1 DEF Requests, Times
  <2>3. /\ requests' = Append(requests, r) /\ last_time' = last_time
        /\ UNCHANGED <<clock, last_units, rows, talk>>
    BY <1>2 DEF AnswerTitle, TimeAtTitle, clientVars
  <2>4. r.status = "canned" /\ r.request_time = clock /\ r.kind = "title" OBVIOUS
  <2> HIDE DEF r
  <2>q. QED BY <1>0, <2>2, <2>3, <2>4, ArrivalKeeps
<1>3. CASE Ask(a)
  <2>1. talk[a] + 2 \in Nat BY <1>0
  <2>q. QED BY <1>1, <1>3, <2>1 DEF Ask
<1>4. CASE Retry(a) BY <1>0, <1>1, <1>4 DEF Retry
<1>5. CASE Opaque(a) BY <1>0, <1>1, <1>5 DEF Opaque
<1>6. CASE GiveUp(a)
  <2>1. UNCHANGED <<clock, requests, last_units, last_time, rows, talk>>
    BY <1>6 DEF GiveUp, recorderVars
  <2>q. QED BY <2>1, SameState
<1>q. QED BY <1>2, <1>3, <1>4, <1>5, <1>6 DEF ClientStep

\* The engine ends a request, or the connection to it breaks.
LEMMA EngineKeeps ==
    ASSUME Inv, NEW r \in DOMAIN requests, EngineStep(r) \/ ForwardFails(r)
    PROVE  Inv'
<1>1. requests[r] \in Requests BY DEF Inv, Typed
<1>2. CASE EngineStep(r)
  <2>1. PICK http \in {"200", "400", "500"} : Finish(r, http) BY <1>2 DEF EngineStep
  <2> DEFINE now == [requests[r] EXCEPT !.status = "finished", !.http = http]
  <2>2. now \in Requests /\ now.status = "finished" /\ now.kind = requests[r].kind
        /\ now.request_time = requests[r].request_time
        /\ now.tool_exec_ms = requests[r].tool_exec_ms
    BY <1>1 DEF Requests
  <2>3. requests' = [requests EXCEPT ![r] = now] /\ requests[r].status = "sent"
        /\ UNCHANGED <<clock, recorderVars, talk>>
    BY <2>1 DEF Finish, clientVars
  <2> HIDE DEF now
  <2>q. QED BY <2>2, <2>3, StatusKeeps
<1>3. CASE ForwardFails(r)
  <2> DEFINE now == [requests[r] EXCEPT !.status = "failed"]
  <2>2. now \in Requests /\ now.status = "failed" /\ now.kind = requests[r].kind
        /\ now.request_time = requests[r].request_time
        /\ now.tool_exec_ms = requests[r].tool_exec_ms
    BY <1>1 DEF Requests
  <2>3. requests' = [requests EXCEPT ![r] = now] /\ requests[r].status # "responded"
        /\ UNCHANGED <<clock, recorderVars, talk>>
    BY <1>3 DEF ForwardFails
  <2> HIDE DEF now
  <2>q. QED BY <2>2, <2>3, StatusKeeps
<1>q. QED BY <1>2, <1>3

LEMMA TickKeeps == ASSUME Inv, Tick PROVE Inv'
<1>1. /\ clock \in Nat /\ clock' = clock + 1
      /\ UNCHANGED <<requests, last_units, last_time, rows, talk>>
  BY DEF Inv, Typed, Tick, recorderVars, clientVars
<1>2. Typed' BY <1>1 DEF Inv, Typed
<1>3. Diffed' BY <1>1 DEF Inv, Diffed, IslNewDecodes
<1>4. Logged' BY <1>1 DEF Inv, Logged, OneEach, Answered
<1>5. Timed' BY <1>1 DEF Inv, Typed, Timed, Noted, Times
<1>6. RowPauses' = RowPauses /\ LoggedPauses' = LoggedPauses /\ NotedPauses' = NotedPauses
  BY <1>1 DEF RowPauses, LoggedPauses, NotedPauses, Answered, Noted
<1>7. Covered' BY <1>1, <1>6 DEF Inv, Covered, Noted
<1>q. QED BY <1>2, <1>3, <1>4, <1>5, <1>7 DEF Inv

-----------------------------------------------------------------------------
(* Theorems *)

LEMMA StepKeeps == Inv /\ [Next]_vars => Inv'
<1> SUFFICES ASSUME Inv, [Next]_vars PROVE Inv' OBVIOUS
<1>1. ASSUME NEW a \in Agents, ClientStep(a) PROVE Inv' BY <1>1, ClientKeeps
<1>2. ASSUME NEW r \in DOMAIN requests, EngineStep(r) \/ ForwardFails(r) PROVE Inv'
  BY <1>2, EngineKeeps
<1>3. ASSUME NEW r \in DOMAIN requests, Respond(r) PROVE Inv' BY <1>3, RespondKeeps
<1>4. CASE Tick BY <1>4, TickKeeps
<1>5. CASE Quiet \/ UNCHANGED vars
  <2>1. UNCHANGED <<clock, requests, last_units, last_time, rows, talk>>
    BY <1>5 DEF Quiet, vars, recorderVars, clientVars
  <2>q. QED BY <2>1, SameState
<1>q. QED BY <1>1, <1>2, <1>3, <1>4, <1>5 DEF Next

THEOREM Invariance == Spec => []Inv
  BY InitInv, StepKeeps, PTL DEF Spec

\* Every difference can be undone, whatever the order of the answers: recorder.py:44-57.
THEOREM RowsDecode == Spec => []IslNewDecodes
<1>1. Inv => IslNewDecodes BY DEF Inv, Diffed
<1>q. QED BY <1>1, Invariance, PTL

\* The first half of PausesTile: recorder.py:31-38.
THEOREM NoOverlap == Spec => []PausesDontOverlap
<1>1. Inv => PausesDontOverlap
  <2> SUFFICES ASSUME Inv, NEW i \in DOMAIN rows, NEW j \in DOMAIN rows,
                      rows[j].tool_exec_ms # NoTime, rows[i].request < rows[j].request
               PROVE  rows[j].request_time - rows[j].tool_exec_ms >= rows[i].request_time
    BY DEF PausesDontOverlap
  <2> DEFINE r == rows[i].request
             s == rows[j].request
  <2>1. /\ r \in Answered /\ rows[i].request_time = requests[r].request_time
        /\ s \in Answered /\ rows[j].request_time = requests[s].request_time
        /\ rows[j].tool_exec_ms = requests[s].tool_exec_ms
    BY DEF Inv, Logged
  <2>2. r \in DOMAIN requests /\ s \in DOMAIN requests /\ Noted(r) /\ Noted(s)
    BY <2>1 DEF Answered, Noted
  <2>q. QED BY <2>1, <2>2 DEF Inv, Timed
<1>q. QED BY <1>1, Invariance, PTL

\* There are as many rows as answers, and each is of another one: none is without.
LEMMA EveryAnswerHasARow ==
    ASSUME Inv, Capture
    PROVE  \A r \in Answered : \E i \in DOMAIN rows : rows[i].request = r
<1> DEFINE of == [i \in DOMAIN rows |-> rows[i].request]
           image == {rows[i].request : i \in DOMAIN rows}
<1>1. /\ Len(rows) \in Nat /\ DOMAIN rows = 1 .. Len(rows)
      /\ Len(requests) \in Nat /\ DOMAIN requests = 1 .. Len(requests)
  BY DEF Inv, Typed
<1>2. Len(rows) = Cardinality(Answered)
      /\ \A i, j \in DOMAIN rows : rows[i].request = rows[j].request => i = j
  BY DEF Inv, Logged, OneEach, Answered
<1>3. image \subseteq Answered BY DEF Inv, Logged
<1>4. IsFiniteSet(DOMAIN rows) /\ Cardinality(DOMAIN rows) = Len(rows)
  BY <1>1, IntervalSize
<1>5. of \in Bijection(DOMAIN rows, image) BY <1>2 DEF Bijection, Injection, Surjection, IsInjective
<1>6. IsFiniteSet(Answered)
  <2>1. IsFiniteSet(1 .. Len(requests)) BY <1>1, IntervalSize
  <2>q. QED BY <1>1, <2>1, FS_Subset DEF Answered
<1> HIDE DEF of, image
<1>7. Cardinality(image) = Len(rows) BY <1>4, <1>5, FS_Bijection DEF ExistsBijection
<1>8. image = Answered BY <1>2, <1>3, <1>6, <1>7, FS_Subset
<1>q. QED BY <1>8 DEF image

\* The rows are those of the answered turns, one each, and of nothing else:
\* app.py:76-111, recorder.py:42-58.
THEOREM OneRowEach == Spec => []RowsAreAnswers
<1>1. ASSUME Inv, Capture
      PROVE  {rows[i].request : i \in DOMAIN rows} = Answered
  <2>1. \A i \in DOMAIN rows : rows[i].request \in Answered BY <1>1 DEF Inv, Logged
  <2>q. QED BY <1>1, <2>1, EveryAnswerHasARow
<1>2. Inv => RowsAreAnswers
  BY <1>1 DEF Inv, Logged, OneEach, Answered, RowsAreAnswers
<1>q. QED BY <1>2, Invariance, PTL

\* The pauses of a file that has every request add up to the time from the first
\* request to the last: recorder.py:31-38, app.py:82-88.
THEOREM PausesAddUp == Spec => []PausesTile
<1>1. ASSUME Inv, Capture, rows # <<>>,
             \A r \in DOMAIN requests :
                \/ requests[r].kind = "title"
                \/ requests[r].kind = "turn" /\ requests[r].status = "responded"
      PROVE  LET times == {rows[i].request_time : i \in DOMAIN rows} IN
             SumFunction([i \in DOMAIN rows |->
                 IF rows[i].tool_exec_ms = NoTime THEN 0 ELSE rows[i].tool_exec_ms])
               = Max(times) - Min(times)
  <2> DEFINE times == {rows[i].request_time : i \in DOMAIN rows}
  <2>1. \A r \in DOMAIN requests : Noted(r) <=> r \in Answered
    BY <1>1 DEF Noted, Answered
  <2>2. LoggedPauses = NotedPauses BY <2>1 DEF LoggedPauses, NotedPauses
  <2>3. SumFunction(RowPauses) = SumFunction(NotedPauses) BY <1>1, <2>2 DEF Inv, Covered
  <2>4. PICK i \in DOMAIN rows : rows[i].request \in Answered
    <3>1. 1 \in DOMAIN rows BY <1>1 DEF Inv, Typed
    <3>q. QED BY <1>1, <3>1 DEF Inv, Logged
  <2>5. last_time # NoTime BY <1>1, <2>1, <2>4 DEF Inv, Timed, Answered
  <2>6. PICK f \in DOMAIN requests, l \in DOMAIN requests :
              /\ Noted(f) /\ Noted(l)
              /\ requests[l].request_time = last_time
              /\ \A k \in DOMAIN requests :
                    Noted(k) => requests[f].request_time <= requests[k].request_time
              /\ SumFunction(NotedPauses) = last_time - requests[f].request_time
    BY <1>1, <2>5 DEF Inv, Covered
  <2>7. times = {requests[r].request_time : r \in Answered}
    <3>1. \A r \in Answered : \E j \in DOMAIN rows : rows[j].request = r
      BY <1>1, EveryAnswerHasARow
    <3>q. QED BY <1>1, <3>1 DEF Inv, Logged
  <2>8. times \subseteq Nat
    <3>1. \A j \in DOMAIN rows : rows[j] \in Rows BY <1>1 DEF Inv, Typed
    <3>q. QED BY <3>1 DEF Rows
  <2>9. requests[f].request_time \in times /\ requests[l].request_time \in times
    BY <2>1, <2>6, <2>7
  <2>10. \A t \in times : requests[f].request_time <= t /\ t <= requests[l].request_time
    BY <1>1, <2>1, <2>6, <2>7 DEF Inv, Timed, Answered
  <2> HIDE DEF times
  <2>11. Max(times) = requests[l].request_time
    BY <2>8, <2>9, <2>10, LargestIsMax
  <2>12. Min(times) = requests[f].request_time
    BY <2>8, <2>9, <2>10, SmallestIsMin
  <2>q. QED BY <2>3, <2>6, <2>11, <2>12 DEF RowPauses, Pause, times
<1>2. PausesDontOverlap /\ Inv => PausesTile BY <1>1 DEF PausesTile
<1>q. QED BY <1>2, NoOverlap, Invariance, PTL

-----------------------------------------------------------------------------
(* The conversations *)

Turn(r) == requests[r].kind = "turn"
Said(r) == Len(requests[r].body.messages)

\* Piece k of what agent a says: its prompt and tools, then message k - 1.
Piece(a, k) == IF k = 1 THEN [role |-> "SYSTEM", by |-> Prompt[a], no |-> 0]
                        ELSE [role |-> "user", by |-> a, no |-> k - 1]

\* A turn says a beginning of its agent's conversation, and its row what it says.
Spoken ==
    /\ client \in [Agents -> {"idle", "waiting", "retry"}] /\ awaited \in [Agents -> Nat]
    /\ give_ups \in Nat /\ troubles \in Nat
    /\ \A r \in DOMAIN requests : Turn(r) =>
          /\ Said(r) <= talk[requests[r].agent]
          /\ \A k \in 1 .. Said(r) + 1 :
                RequestChunks(requests[r].body)[k] = Piece(requests[r].agent, k)
    /\ \A r \in DOMAIN requests : requests[r].kind = "title" => requests[r].status = "canned"
    /\ \A i \in DOMAIN rows : rows[i].isl_text = RequestChunks(requests[rows[i].request].body)

\* As long as no client has given up, an agent waits for its one request under way,
\* which says all of its conversation, and its rows say more and more of it.
InTurn ==
    give_ups = 0 =>
        /\ \A r \in InFlight :
              /\ client[requests[r].agent] = "waiting" /\ awaited[requests[r].agent] = r
              /\ Turn(r) => Said(r) = talk[requests[r].agent]
        /\ \A i, j \in DOMAIN rows :
              (i < j /\ requests[rows[i].request].agent = requests[rows[j].request].agent) =>
                  Said(rows[i].request) <= Said(rows[j].request)

TalkInv == Inv /\ Spoken /\ InTurn

\* What a row's text is made of.
LEMMA PiecesOf ==
    ASSUME NEW b \in Bodies
    PROVE  /\ Len(b.messages) \in Nat /\ Len(RequestChunks(b)) = Len(b.messages) + 1
           /\ RequestChunks(b)[1] = [role |-> "SYSTEM", by |-> b.system.prompt, no |-> 0]
           /\ \A k \in 2 .. Len(b.messages) + 1 : RequestChunks(b)[k] = b.messages[k - 1]
<1> DEFINE first == [role |-> "SYSTEM", by |-> b.system.prompt, no |-> StripNonce(b.system)]
           said == b.messages
<1>1. said \in Seq(Chunks) BY DEF Bodies
<1>2. first \in Chunks BY DEF Bodies, Chunks, StripNonce
<1>3. RequestChunks(b) = <<first>> \o said BY DEF RequestChunks
<1>4. first = [role |-> "SYSTEM", by |-> b.system.prompt, no |-> 0] BY DEF StripNonce
<1> HIDE DEF first, said
<1>5. /\ Len(said) \in Nat /\ Len(<<first>> \o said) = Len(said) + 1
      /\ (<<first>> \o said)[1] = first
      /\ \A k \in 2 .. Len(said) + 1 : (<<first>> \o said)[k] = said[k - 1]
  BY <1>1, <1>2
<1>q. QED BY <1>3, <1>4, <1>5 DEF said

\* The body of a turn of agent a that says n messages.
LEMMA TurnSays ==
    ASSUME Typed, NEW a \in Agents, NEW n \in Nat, NEW b,
           b = [Body(a, n) EXCEPT !.messages = Rerole(@)]
    PROVE  /\ b \in Bodies /\ Len(b.messages) = n
           /\ \A k \in 1 .. n + 1 : RequestChunks(b)[k] = Piece(a, k)
<1>1. b \in Bodies BY BodyTyped
<1>2. b.system.prompt = Prompt[a] BY DEF Body
<1>3. b.messages = [i \in 1 .. n |-> [role |-> "user", by |-> a, no |-> i]]
  <2>1. b.messages = Rerole([i \in 1 .. n |-> Message(a, i)]) BY DEF Body
  <2>2. \A i \in 1 .. n :
           /\ Message(a, i).role # "system" => Message(a, i) = [role |-> "user", by |-> a, no |-> i]
           /\ [Message(a, i) EXCEPT !.role = "user"] = [role |-> "user", by |-> a, no |-> i]
    BY DEF Message
  <2>3. DOMAIN [i \in 1 .. n |-> Message(a, i)] = 1 .. n OBVIOUS
  <2>q. QED BY <2>1, <2>2, <2>3 DEF Rerole
<1>4. Len(b.messages) = n
  <2>1. b.messages \in Seq(Chunks) BY <1>1 DEF Bodies
  <2>2. DOMAIN b.messages = 1 .. n BY <1>3
  <2>q. QED BY <2>1, <2>2
<1>5. ASSUME NEW k \in 1 .. n + 1 PROVE RequestChunks(b)[k] = Piece(a, k)
  <2>1. CASE k = 1 BY <1>1, <1>2, <2>1, PiecesOf DEF Piece
  <2>2. CASE k # 1
    <3>1. k \in 2 .. n + 1 /\ k - 1 \in 1 .. n BY <2>2
    <3>2. RequestChunks(b)[k] = b.messages[k - 1] BY <1>1, <1>4, <3>1, PiecesOf
    <3>q. QED BY <1>3, <2>2, <3>1, <3>2 DEF Piece
  <2>q. QED BY <2>1, <2>2
<1>q. QED BY <1>1, <1>4, <1>5

LEMMA InitTalks == Init => Spoken /\ InTurn
  BY DEF Init, Spoken, InTurn, InFlight

\* Nothing of the conversations and their rows changes.
LEMMA SameTalk ==
    ASSUME TalkInv, UNCHANGED <<requests, rows, talk, client, awaited, troubles, give_ups>>
    PROVE  (Spoken /\ InTurn)'
  BY DEF TalkInv, Spoken, InTurn, InFlight, Turn, Said

\* What is known of the requests stays known as they are added to.
LEMMA RequestsGrow ==
    ASSUME Typed, NEW r, requests' = Append(requests, r)
    PROVE  /\ Len(requests) \in Nat /\ DOMAIN requests = 1 .. Len(requests)
           /\ DOMAIN requests' = 1 .. Len(requests) + 1
           /\ \A k \in DOMAIN requests : k \in DOMAIN requests' /\ requests'[k] = requests[k]
           /\ requests'[Len(requests) + 1] = r
  BY DEF Typed

LEMMA TitleTalks == ASSUME TalkInv, NEW a \in Agents, AnswerTitle(a) PROVE (Spoken /\ InTurn)'
<1> DEFINE r == [kind |-> "title", agent |-> a, body |-> Body(a, 0), request_time |-> clock,
                 tool_exec_ms |-> NoTime, status |-> "canned", http |-> "200",
                 responded_at |-> clock]
<1>1. /\ requests' = Append(requests, r) /\ r.kind = "title" /\ r.status = "canned"
      /\ UNCHANGED <<rows, talk, client, awaited, troubles, give_ups>>
  BY DEF AnswerTitle, clientVars, countVars
<1> HIDE DEF r
<1>2. /\ Len(requests) \in Nat /\ DOMAIN requests = 1 .. Len(requests)
      /\ DOMAIN requests' = 1 .. Len(requests) + 1
      /\ \A k \in DOMAIN requests : k \in DOMAIN requests' /\ requests'[k] = requests[k]
      /\ requests'[Len(requests) + 1] = r
  BY <1>1, RequestsGrow DEF TalkInv, Inv
<1>3. \A i \in DOMAIN rows : rows[i].request \in DOMAIN requests
  BY DEF TalkInv, Inv, Logged, Answered
<1>4. Spoken'
  <2>1. \A k \in DOMAIN requests' : Turn(k)' => k \in DOMAIN requests
    BY <1>1, <1>2 DEF Turn
  <2>2. \A k \in DOMAIN requests : (Turn(k)' <=> Turn(k)) /\ Said(k)' = Said(k)
    BY <1>2 DEF Turn, Said
  <2>3. \A i \in DOMAIN rows' :
           rows'[i].isl_text = RequestChunks(requests'[rows'[i].request].body)
    BY <1>1, <1>2, <1>3 DEF TalkInv, Spoken
  <2>4. \A k \in DOMAIN requests' : Turn(k)' =>
          /\ Said(k)' <= talk'[requests'[k].agent]
          /\ \A p \in 1 .. Said(k)' + 1 :
                RequestChunks(requests'[k].body)[p] = Piece(requests'[k].agent, p)
    <3> SUFFICES ASSUME NEW k \in DOMAIN requests', Turn(k)'
                 PROVE  /\ Said(k)' <= talk'[requests'[k].agent]
                        /\ \A p \in 1 .. Said(k)' + 1 :
                              RequestChunks(requests'[k].body)[p] = Piece(requests'[k].agent, p)
      OBVIOUS
    <3>1. k \in DOMAIN requests /\ Turn(k) /\ Said(k)' = Said(k) /\ requests'[k] = requests[k]
      BY <1>2, <2>1, <2>2
    <3>q. QED BY <1>1, <3>1 DEF TalkInv, Spoken
  <2>5. \A k \in DOMAIN requests' :
           requests'[k].kind = "title" => requests'[k].status = "canned"
    BY <1>1, <1>2 DEF TalkInv, Spoken
  <2>q. QED BY <1>1, <2>3, <2>4, <2>5 DEF TalkInv, Spoken
<1>5. InFlight' = InFlight BY <1>1, <1>2 DEF InFlight
<1>6. \A k \in DOMAIN requests : (Turn(k)' <=> Turn(k)) /\ Said(k)' = Said(k)
  BY <1>2 DEF Turn, Said
<1>7. InFlight \subseteq DOMAIN requests BY DEF InFlight
<1>8. InTurn' BY <1>1, <1>2, <1>3, <1>5, <1>6, <1>7 DEF TalkInv, InTurn
<1>q. QED BY <1>4, <1>8

\* An agent that does not wait says something more.
LEMMA ForwardTalks ==
    ASSUME TalkInv, NEW a \in Agents, NEW kind \in {"turn", "opaque"}, NEW n \in Nat,
           client[a] # "waiting", talk[a] <= n, Forward(kind, a, n)
    PROVE  (Spoken /\ InTurn)'
<1> DEFINE r == [kind |-> kind, agent |-> a,
                 body |-> [Body(a, n) EXCEPT !.messages = IF kind = "turn" THEN Rerole(@) ELSE @],
                 request_time |-> clock, tool_exec_ms |-> ToolExecMs,
                 status |-> "sent", http |-> "", responded_at |-> NoTime]
<1>0. Typed /\ Logged /\ Spoken /\ InTurn BY DEF TalkInv, Inv
<1>1. /\ requests' = Append(requests, r) /\ r.kind = kind /\ r.status = "sent" /\ r.agent = a
      /\ talk' = [talk EXCEPT ![a] = n] /\ client' = [client EXCEPT ![a] = "waiting"]
      /\ awaited' = [awaited EXCEPT ![a] = Len(requests) + 1]
      /\ UNCHANGED <<rows, troubles, give_ups>>
  BY DEF Forward, countVars
<1>2. kind = "turn" => /\ Len(r.body.messages) = n
                       /\ \A k \in 1 .. n + 1 : RequestChunks(r.body)[k] = Piece(a, k)
  BY <1>0, TurnSays
<1> HIDE DEF r
<1> PICK new : new = Len(requests) + 1 OBVIOUS
<1>3. /\ new \in Nat /\ DOMAIN requests = 1 .. new - 1
      /\ DOMAIN requests' = 1 .. new
      /\ \A k \in DOMAIN requests : k \in DOMAIN requests' /\ requests'[k] = requests[k]
      /\ requests'[new] = r
  BY <1>0, <1>1, RequestsGrow
<1>4. \A i \in DOMAIN rows : rows[i].request \in DOMAIN requests
  BY <1>0 DEF Logged, Answered
<1>5. \A k \in DOMAIN requests : (Turn(k)' <=> Turn(k)) /\ Said(k)' = Said(k)
  BY <1>3 DEF Turn, Said
<1>6. \A k \in DOMAIN requests : requests[k].agent \in Agents /\ Said(k) \in Nat
  <2>1. \A k \in DOMAIN requests : requests[k] \in Requests BY <1>0 DEF Typed
  <2>2. \A k \in DOMAIN requests : requests[k].agent \in Agents /\ requests[k].body \in Bodies
    BY <2>1 DEF Requests
  <2>q. QED BY <2>2, PiecesOf DEF Said
<1>7. /\ talk \in [Agents -> Nat] /\ talk' \in [Agents -> Nat] /\ talk'[a] = n
      /\ \A b \in Agents : talk[b] <= talk'[b]
  BY <1>0, <1>1 DEF Typed
<1>8. (kind = "turn" => Said(new)' = n) /\ (Turn(new)' <=> kind = "turn")
  BY <1>1, <1>2, <1>3 DEF Said, Turn
<1>9. ASSUME NEW k \in DOMAIN requests', Turn(k)'
      PROVE  /\ Said(k)' <= talk'[requests'[k].agent]
             /\ \A p \in 1 .. Said(k)' + 1 :
                   RequestChunks(requests'[k].body)[p] = Piece(requests'[k].agent, p)
  <2>1. CASE k \in DOMAIN requests
    <3>1. Turn(k) /\ Said(k)' = Said(k) /\ requests'[k] = requests[k] BY <1>3, <1>5, <1>9, <2>1
    <3>2. Said(k) <= talk[requests[k].agent] /\ talk[requests[k].agent] <= talk'[requests[k].agent]
      BY <1>0, <1>6, <1>7, <2>1, <3>1 DEF Spoken
    <3>3. Said(k) <= talk'[requests[k].agent] BY <1>6, <1>7, <2>1, <3>2
    <3>q. QED BY <1>0, <2>1, <3>1, <3>3 DEF Spoken
  <2>2. CASE k = new BY <1>1, <1>2, <1>3, <1>7, <1>8, <1>9, <2>2
  <2>q. QED BY <1>3, <2>1, <2>2
<1>10. Spoken'
  <2>1. client' \in [Agents -> {"idle", "waiting", "retry"}] /\ awaited' \in [Agents -> Nat]
        /\ give_ups' \in Nat /\ troubles' \in Nat
    <3>1. Len(requests) + 1 \in Nat BY <1>0 DEF Typed
    <3>q. QED BY <1>0, <1>1, <3>1 DEF Spoken
  <2>2. \A i \in DOMAIN rows' :
           rows'[i].isl_text = RequestChunks(requests'[rows'[i].request].body)
    BY <1>0, <1>1, <1>3, <1>4 DEF Spoken
  <2>3. \A k \in DOMAIN requests' :
           requests'[k].kind = "title" => requests'[k].status = "canned"
    BY <1>0, <1>1, <1>3 DEF Spoken
  <2>q. QED BY <1>9, <2>1, <2>2, <2>3 DEF Spoken
<1>11. InTurn'
  <2> SUFFICES ASSUME give_ups = 0 PROVE InTurn' BY <1>1 DEF InTurn
  <2>1. ASSUME NEW k \in InFlight'
        PROVE  /\ client'[requests'[k].agent] = "waiting" /\ awaited'[requests'[k].agent] = k
               /\ Turn(k)' => Said(k)' = talk'[requests'[k].agent]
    <3>1. k \in DOMAIN requests' BY DEF InFlight
    <3>2. CASE k = new
      <4>1. requests'[k].agent = a BY <1>1, <1>3, <3>2
      <4>q. QED BY <1>0, <1>1, <1>7, <1>8, <3>2, <4>1 DEF Spoken
    <3>3. CASE k \in DOMAIN requests
      <4>1. requests'[k] = requests[k] /\ k \in InFlight BY <1>3, <3>3 DEF InFlight
      <4>2. client[requests[k].agent] = "waiting" BY <1>0, <4>1 DEF InTurn
      <4>3. requests[k].agent # a BY <4>2
      <4>q. QED BY <1>0, <1>1, <1>5, <1>6, <1>7, <3>3, <4>1, <4>2, <4>3 DEF InTurn, Spoken
    <3>q. QED BY <1>3, <3>1, <3>2, <3>3
  <2>2. ASSUME NEW i \in DOMAIN rows', NEW j \in DOMAIN rows', i < j,
               requests'[rows'[i].request].agent = requests'[rows'[j].request].agent
        PROVE  Said(rows[i].request)' <= Said(rows[j].request)'
    <3>1. i \in DOMAIN rows /\ j \in DOMAIN rows /\ rows'[i] = rows[i] /\ rows'[j] = rows[j]
      BY <1>1
    <3>2. rows[i].request \in DOMAIN requests /\ rows[j].request \in DOMAIN requests BY <1>4, <3>1
    <3>3. requests[rows[i].request].agent = requests[rows[j].request].agent
      BY <1>3, <2>2, <3>1, <3>2
    <3>4. Said(rows[i].request) <= Said(rows[j].request) BY <1>0, <2>2, <3>1, <3>3 DEF InTurn
    <3>5. Said(rows[i].request)' = Said(rows[i].request)
          /\ Said(rows[j].request)' = Said(rows[j].request)
      BY <1>3, <3>1, <3>2 DEF Said
    <3>q. QED BY <3>4, <3>5
  <2>q. QED BY <2>1, <2>2 DEF InTurn
<1>q. QED BY <1>10, <1>11

\* The requests keep what they say.
SameRequests ==
    /\ DOMAIN requests' = DOMAIN requests
    /\ \A k \in DOMAIN requests :
          /\ requests'[k].kind = requests[k].kind /\ requests'[k].agent = requests[k].agent
          /\ requests'[k].body = requests[k].body

\* A request goes on, or ends and is logged or not: its agent may hear of it.
LEMMA EndTalks ==
    ASSUME TalkInv, Inv', SameRequests, NEW r \in InFlight, NEW next \in {"idle", "retry"},
           \A k \in DOMAIN requests : k # r => requests'[k].status = requests[k].status,
           \/ client' = client /\ rows' = rows
           \/ r \notin InFlight' /\ Hears(r, next)
              /\ (rows' = rows \/ (rows' = Append(rows, Row(r)) /\ Turn(r))),
           UNCHANGED <<talk, awaited, give_ups>>, troubles' \in Nat
    PROVE  (Spoken /\ InTurn)'
<1>0. Typed /\ Logged /\ Spoken /\ InTurn /\ r \in DOMAIN requests /\ Logged'
  BY DEF TalkInv, Inv, InFlight
<1>1. \A k \in DOMAIN requests :
         /\ Turn(k)' <=> Turn(k) /\ Said(k)' = Said(k)
         /\ RequestChunks(requests'[k].body) = RequestChunks(requests[k].body)
  BY DEF SameRequests, Turn, Said
<1>2. /\ \A i \in DOMAIN rows : rows[i].request \in DOMAIN requests
      /\ Len(rows) \in Nat /\ DOMAIN rows = 1 .. Len(rows)
  BY <1>0 DEF Logged, Answered, Typed
<1>3. client' \in [Agents -> {"idle", "waiting", "retry"}]
  <2>1. requests[r] \in Requests BY <1>0 DEF Typed
  <2>2. requests[r].agent \in Agents BY <2>1 DEF Requests
  <2>q. QED BY <1>0, <2>2 DEF Spoken, Hears
<1>4. \/ rows' = rows
      \/ /\ Turn(r) /\ DOMAIN rows' = 1 .. Len(rows) + 1
         /\ \A i \in DOMAIN rows : rows'[i] = rows[i]
         /\ rows'[Len(rows) + 1] = Row(r)
  <2> DEFINE row == Row(r)
  <2>1. rows \in Seq(Rows) BY <1>0 DEF Typed
  <2> HIDE DEF row
  <2>2. ASSUME rows' = Append(rows, row)
        PROVE  /\ DOMAIN rows' = 1 .. Len(rows) + 1 /\ rows'[Len(rows) + 1] = row
               /\ \A i \in DOMAIN rows : rows'[i] = rows[i]
    BY <2>1, <2>2
  <2>q. QED BY <2>2 DEF row
<1>5. Row(r).request = r /\ Row(r).isl_text = RequestChunks(requests[r].body) BY DEF Row
<1> HIDE DEF Row
<1>6. Spoken'
  <2>1. \A i \in DOMAIN rows' :
           rows'[i].isl_text = RequestChunks(requests'[rows'[i].request].body)
    <3> SUFFICES ASSUME NEW i \in DOMAIN rows'
                 PROVE  rows'[i].isl_text = RequestChunks(requests'[rows'[i].request].body)
      OBVIOUS
    <3>1. CASE i \in DOMAIN rows
      <4>1. rows'[i] = rows[i] /\ rows[i].request \in DOMAIN requests BY <1>2, <1>4, <3>1
      <4>2. rows[i].isl_text = RequestChunks(requests[rows[i].request].body)
        BY <1>0, <3>1 DEF Spoken
      <4>q. QED BY <1>1, <4>1, <4>2
    <3>2. CASE i \notin DOMAIN rows
      <4>1. rows'[i] = Row(r) BY <1>2, <1>4, <3>2
      <4>q. QED BY <1>0, <1>1, <1>5, <4>1
    <3>q. QED BY <3>1, <3>2
  <2>2. \A k \in DOMAIN requests' : Turn(k)' =>
          /\ Said(k)' <= talk'[requests'[k].agent]
          /\ \A p \in 1 .. Said(k)' + 1 :
                RequestChunks(requests'[k].body)[p] = Piece(requests'[k].agent, p)
    BY <1>0, <1>1 DEF Spoken, SameRequests
  <2>3. \A k \in DOMAIN requests' :
           requests'[k].kind = "title" => requests'[k].status = "canned"
    BY <1>0 DEF Spoken, SameRequests, InFlight
  <2>q. QED BY <1>0, <1>3, <2>1, <2>2, <2>3 DEF Spoken
<1>7. InTurn'
  <2> SUFFICES ASSUME give_ups = 0 PROVE InTurn' BY DEF InTurn
  <2>1. ASSUME NEW k \in InFlight'
        PROVE  /\ client'[requests'[k].agent] = "waiting" /\ awaited'[requests'[k].agent] = k
               /\ Turn(k)' => Said(k)' = talk'[requests'[k].agent]
    <3>1. k \in DOMAIN requests BY DEF InFlight, SameRequests
    <3>2. k \in InFlight BY <1>0, <3>1 DEF InFlight
    <3>3. /\ client[requests[k].agent] = "waiting" /\ awaited[requests[k].agent] = k
          /\ Turn(k) => Said(k) = talk[requests[k].agent]
      BY <1>0, <3>2 DEF InTurn
    <3>4. client'[requests[k].agent] = client[requests[k].agent]
      <4>1. CASE client' = client BY <4>1
      <4>2. CASE r \notin InFlight' /\ Hears(r, next)
        <5>1. k # r BY <4>2
        <5>2. awaited[requests[r].agent] = r BY <1>0 DEF InTurn
        <5>3. requests[k].agent # requests[r].agent BY <3>3, <5>1, <5>2
        <5>q. QED BY <4>2, <5>3, <1>0 DEF Hears, Spoken
      <4>q. QED BY <4>1, <4>2
    <3>q. QED BY <1>1, <3>1, <3>3, <3>4 DEF SameRequests
  <2>2. ASSUME NEW i \in DOMAIN rows', NEW j \in DOMAIN rows', i < j,
               requests'[rows'[i].request].agent = requests'[rows'[j].request].agent
        PROVE  Said(rows[i].request)' <= Said(rows[j].request)'
    <3>1. i \in DOMAIN rows /\ rows'[i] = rows[i] BY <1>2, <1>4, <2>2
    <3>2. rows[i].request \in DOMAIN requests BY <1>2, <3>1
    <3>3. CASE j \in DOMAIN rows
      <4>1. rows'[j] = rows[j] /\ rows[j].request \in DOMAIN requests BY <1>2, <1>4, <3>3
      <4>2. requests[rows[i].request].agent = requests[rows[j].request].agent
        BY <2>2, <3>1, <3>2, <4>1 DEF SameRequests
      <4>3. Said(rows[i].request) <= Said(rows[j].request)
        BY <1>0, <2>2, <3>1, <3>3, <4>2 DEF InTurn
      <4>4. Said(rows[i].request)' = Said(rows[i].request)
            /\ Said(rows[j].request)' = Said(rows[j].request)
        BY <3>1, <3>2, <4>1 DEF SameRequests, Said
      <4>q. QED BY <4>3, <4>4
    <3>4. CASE j \notin DOMAIN rows
      <4>1. Turn(r) /\ rows'[j].request = r BY <1>2, <1>4, <1>5, <2>2, <3>4
      <4>2. requests[rows[i].request].agent = requests[r].agent
        BY <1>0, <2>2, <3>1, <3>2, <4>1 DEF SameRequests
      <4>3. Said(r) = talk[requests[r].agent] BY <1>0, <4>1 DEF InTurn
      <4>4. Turn(rows[i].request) BY <1>0, <3>1 DEF Logged, Answered, Turn
      <4>5. Said(rows[i].request) <= talk[requests[r].agent]
        BY <1>0, <3>2, <4>2, <4>4 DEF Spoken
      <4>6. Said(rows[i].request)' = Said(rows[i].request) /\ Said(rows[j].request)' = Said(r)
        BY <1>0, <3>1, <3>2, <4>1 DEF SameRequests, Said
      <4>q. QED BY <4>3, <4>5, <4>6
    <3>q. QED BY <3>3, <3>4
  <2>q. QED BY <2>1, <2>2 DEF InTurn
<1>q. QED BY <1>6, <1>7

LEMMA TalkKeeps == TalkInv /\ [Next]_vars => TalkInv'
<1> SUFFICES ASSUME TalkInv, [Next]_vars PROVE TalkInv' OBVIOUS
<1>0. Inv /\ Typed /\ Spoken BY DEF TalkInv, Inv
<1>1. Inv' BY <1>0, StepKeeps
<1>2. (Spoken /\ InTurn)'
  <2>0. \A k \in DOMAIN requests : requests[k] \in Requests BY <1>0 DEF Typed
  <2>1. ASSUME NEW a \in Agents, ClientStep(a) PROVE (Spoken /\ InTurn)'
    <3>0. talk[a] \in Nat BY <1>0 DEF Typed
    <3>1. CASE Ask(a)
      <4>1. talk[a] + 2 \in Nat /\ talk[a] <= talk[a] + 2 /\ client[a] # "waiting"
        BY <3>0, <3>1 DEF Ask
      <4>q. QED BY <3>1, <4>1, ForwardTalks DEF Ask
    <3>2. CASE Retry(a)
      <4>1. talk[a] <= talk[a] /\ client[a] # "waiting" BY <3>0, <3>2 DEF Retry
      <4>q. QED BY <3>0, <3>2, <4>1, ForwardTalks DEF Retry
    <3>3. CASE Opaque(a)
      <4>1. talk[a] <= talk[a] /\ client[a] # "waiting" BY <3>0, <3>3 DEF Opaque
      <4>q. QED BY <3>0, <3>3, <4>1, ForwardTalks DEF Opaque
    <3>4. CASE GiveUp(a)
      <4>1. /\ give_ups' # 0 /\ give_ups' \in Nat
            /\ client' = [client EXCEPT ![a] = "retry"]
            /\ UNCHANGED <<requests, rows, talk, awaited, troubles>>
        BY <1>0, <3>4 DEF GiveUp, Spoken, recorderVars
      <4>2. Spoken' BY <1>0, <4>1 DEF Spoken, Turn, Said
      <4>q. QED BY <4>1, <4>2 DEF InTurn
    <3>5. CASE AnswerTitle(a) BY <3>5, TitleTalks
    <3>q. QED BY <2>1, <3>1, <3>2, <3>3, <3>4, <3>5 DEF ClientStep
  <2>2. ASSUME NEW r \in DOMAIN requests, EngineStep(r) PROVE (Spoken /\ InTurn)'
    <3>1. PICK http \in {"200", "400", "500"} : Finish(r, http) BY <2>2 DEF EngineStep
    <3>2. /\ requests[r].status = "sent"
          /\ requests' = [requests EXCEPT ![r].status = "finished", ![r].http = http]
          /\ UNCHANGED <<rows, talk, client, awaited, give_ups>>
      BY <3>1 DEF Finish, recorderVars, clientVars
    <3>3. troubles' \in Nat BY <1>0, <3>1 DEF Finish, Spoken
    <3>4. SameRequests BY <2>0, <3>2 DEF SameRequests, Requests
    <3>5. \A k \in DOMAIN requests : k # r => requests'[k].status = requests[k].status BY <3>2
    <3>6. r \in InFlight BY <3>2 DEF InFlight
    <3>q. QED BY <1>1, <3>2, <3>3, <3>4, <3>5, <3>6, EndTalks
  <2>3. ASSUME NEW r \in DOMAIN requests, ForwardFails(r) PROVE (Spoken /\ InTurn)'
    <3>1. /\ r \in InFlight /\ requests' = [requests EXCEPT ![r].status = "failed"]
          /\ Hears(r, "retry") /\ UNCHANGED <<rows, talk, awaited, give_ups>>
      BY <2>3 DEF ForwardFails, InFlight, recorderVars, AfterFailure
    <3>0. PICK next \in {"idle", "retry"} : Hears(r, next) BY <3>1
    <3>2. troubles' \in Nat BY <1>0, <2>3 DEF ForwardFails, Spoken
    <3>3. SameRequests /\ r \notin InFlight' BY <2>0, <3>1 DEF SameRequests, Requests, InFlight
    <3>4. \A k \in DOMAIN requests : k # r => requests'[k].status = requests[k].status BY <3>1
    <3>5. rows' = rows /\ UNCHANGED <<talk, awaited, give_ups>> BY <3>1
    <3>6. \/ client' = client /\ rows' = rows
          \/ r \notin InFlight' /\ Hears(r, next)
             /\ (rows' = rows \/ (rows' = Append(rows, Row(r)) /\ Turn(r)))
      BY <3>0, <3>3, <3>5
    <3>7. r \in InFlight BY <3>1
    <3>q. QED BY <1>1, <3>2, <3>3, <3>4, <3>5, <3>6, <3>7, EndTalks
  <2>4. ASSUME NEW r \in DOMAIN requests, Respond(r) PROVE (Spoken /\ InTurn)'
    <3>1. /\ r \in InFlight
          /\ requests' = [requests EXCEPT ![r].status = "responded", ![r].responded_at = clock]
          /\ rows' = rows \/ (rows' = Append(rows, Row(r)) /\ Turn(r))
          /\ UNCHANGED <<talk, awaited, give_ups, troubles>>
      <4>1. r \in InFlight BY <2>4 DEF Respond, InFlight
      <4>2. requests' = [requests EXCEPT ![r].status = "responded", ![r].responded_at = clock]
            /\ UNCHANGED <<talk, awaited, give_ups, troubles>>
        BY <2>4 DEF Respond, countVars
      <4>3. CASE Logs(r)
        <5>1. rows' = Append(rows, Row(r)) BY <2>4, <4>3 DEF Respond
        <5>2. Turn(r) BY <4>3 DEF Logs, Turn
        <5>q. QED BY <4>1, <4>2, <5>1, <5>2
      <4>4. CASE ~Logs(r)
        <5>1. rows' = rows BY <2>4, <4>4 DEF Respond
        <5>q. QED BY <4>1, <4>2, <5>1
      <4>q. QED BY <4>3, <4>4
    <3>2. PICK next \in {"idle", "retry"} : Hears(r, next) BY <2>4 DEF Respond
    <3>3. SameRequests /\ r \notin InFlight' BY <2>0, <3>1 DEF SameRequests, Requests, InFlight
    <3>4. \A k \in DOMAIN requests : k # r => requests'[k].status = requests[k].status BY <3>1
    <3>5. troubles' \in Nat BY <1>0, <3>1 DEF Spoken
    <3>6. \/ client' = client /\ rows' = rows
          \/ r \notin InFlight' /\ Hears(r, next)
             /\ (rows' = rows \/ (rows' = Append(rows, Row(r)) /\ Turn(r)))
      BY <3>1, <3>2, <3>3
    <3>7. r \in InFlight /\ UNCHANGED <<talk, awaited, give_ups>> BY <3>1
    <3>q. QED BY <1>1, <3>3, <3>4, <3>5, <3>6, <3>7, EndTalks
  <2>5. CASE Tick \/ Quiet \/ UNCHANGED vars
    <3>1. UNCHANGED <<requests, rows, talk, client, awaited, troubles, give_ups>>
      BY <2>5 DEF Tick, Quiet, vars, recorderVars, clientVars, countVars
    <3>q. QED BY <3>1, SameTalk
  <2>q. QED BY <2>1, <2>2, <2>3, <2>4, <2>5 DEF Next
<1>q. QED BY <1>1, <1>2 DEF TalkInv

THEOREM Talks == Spec => []TalkInv
<1>1. Init => TalkInv BY InitInv, InitTalks DEF TalkInv
<1>q. QED BY <1>1, TalkKeeps, PTL DEF Spec

\* What a row's difference holds, if the row before it says no more than it does.
LEMMA NewPieces ==
    ASSUME NEW before \in Seq(Chunks), NEW isl \in Seq(Chunks), NEW new \in Seq(Chunks),
           Len(before) <= Len(isl), \A k \in 1 .. Len(before) : before[k] = isl[k],
           Decodes(before, isl, new)
    PROVE  \A p \in DOMAIN new :
              Len(before) + p \in 1 .. Len(isl) /\ new[p] = isl[Len(before) + p]
<1> DEFINE shared == Len(isl) - Len(new)
<1>1. /\ shared \in 0 .. Len(before) /\ isl = SubSeq(before, 1, shared) \o new
      /\ (shared < Len(before) /\ shared < Len(isl)) => before[shared + 1] # isl[shared + 1]
  BY DEF Decodes
<1>2. Len(before) \in Nat /\ Len(isl) \in Nat /\ Len(new) \in Nat OBVIOUS
<1> HIDE DEF shared
<1>4. shared = Len(before)
  <2> SUFFICES ASSUME shared # Len(before) PROVE FALSE OBVIOUS
  <2>1. shared < Len(before) /\ shared < Len(isl) /\ shared + 1 \in 1 .. Len(before)
    BY <1>1, <1>2
  <2>q. QED BY <1>1, <2>1
<1>3. SubSeq(before, 1, shared) = before BY <1>4
<1>5. isl = before \o new BY <1>1, <1>3
<1>7. Len(new) = Len(isl) - Len(before) BY <1>2, <1>4 DEF shared
<1>6. \A p \in DOMAIN new : p \in 1 .. Len(new) /\ (before \o new)[Len(before) + p] = new[p]
  BY <1>2
<1>q. QED BY <1>2, <1>5, <1>6, <1>7

\* Every piece of the conversation is new in one row only, if the session is one
\* conversation whose client does not give up: parse.py:50-56, recorder.py:44-57.
THEOREM FreshOnce ==
    ASSUME NEW m, Agents = {m}, MaxGiveUps = 0
    PROVE  Spec => []OnlyFreshMessagesNew
<1> DEFINE Patient == give_ups = 0
<1>1. Init => Patient BY DEF Init
<1>2. Patient /\ [Next]_vars => Patient'
  <2> SUFFICES ASSUME Patient, [Next]_vars PROVE Patient' OBVIOUS
  <2>1. ASSUME NEW a \in Agents PROVE ~GiveUp(a) BY DEF GiveUp
  <2>2. ASSUME NEW a \in Agents, ClientStep(a) PROVE Patient'
    BY <2>1, <2>2 DEF ClientStep, Ask, Retry, Opaque, Forward, AnswerTitle, countVars
  <2>3. ASSUME NEW r \in DOMAIN requests, EngineStep(r) \/ Respond(r) \/ ForwardFails(r)
        PROVE  Patient'
    BY <2>3 DEF EngineStep, Finish, Respond, ForwardFails, countVars
  <2>4. CASE Tick \/ Quiet \/ UNCHANGED vars BY <2>4 DEF Tick, Quiet, vars, countVars
  <2>q. QED BY <2>2, <2>3, <2>4 DEF Next
<1>3. TalkInv /\ Patient => OnlyFreshMessagesNew
  <2> SUFFICES ASSUME TalkInv, Patient PROVE OnlyFreshMessagesNew OBVIOUS
  <2>0. Typed /\ Diffed /\ Logged /\ Spoken /\ InTurn BY DEF TalkInv, Inv
  <2>1. /\ Len(rows) \in Nat /\ DOMAIN rows = 1 .. Len(rows)
        /\ \A i \in DOMAIN rows : rows[i] \in Rows
        /\ \A r \in DOMAIN requests : requests[r] \in Requests
    BY <2>0 DEF Typed
  <2>2. \A i \in DOMAIN rows :
           rows[i].isl_text \in Seq(Chunks) /\ rows[i].isl_new_text \in Seq(Chunks)
    BY <2>1 DEF Rows
  <2>3. ASSUME NEW i \in DOMAIN rows
        PROVE  /\ Said(rows[i].request) \in Nat
               /\ Len(rows[i].isl_text) = Said(rows[i].request) + 1
               /\ \A k \in 1 .. Len(rows[i].isl_text) : rows[i].isl_text[k] = Piece(m, k)
    <3>1. rows[i].request \in DOMAIN requests /\ Turn(rows[i].request)
      BY <2>0 DEF Logged, Answered, Turn
    <3>2. requests[rows[i].request].agent = m /\ requests[rows[i].request].body \in Bodies
      BY <2>1, <3>1 DEF Requests
    <3>3. rows[i].isl_text = RequestChunks(requests[rows[i].request].body) BY <2>0 DEF Spoken
    <3>4. Said(rows[i].request) \in Nat /\ Len(rows[i].isl_text) = Said(rows[i].request) + 1
      BY <3>2, <3>3, PiecesOf DEF Said
    <3>q. QED BY <2>0, <3>1, <3>2, <3>3, <3>4 DEF Spoken
  <2>4. \A i, j \in DOMAIN rows : i < j => Len(rows[i].isl_text) <= Len(rows[j].isl_text)
    <3> SUFFICES ASSUME NEW i \in DOMAIN rows, NEW j \in DOMAIN rows, i < j
                 PROVE  Len(rows[i].isl_text) <= Len(rows[j].isl_text)
      OBVIOUS
    <3>1. rows[i].request \in DOMAIN requests /\ rows[j].request \in DOMAIN requests
      BY <2>0 DEF Logged, Answered
    <3>2. requests[rows[i].request].agent = requests[rows[j].request].agent
      BY <2>1, <3>1 DEF Requests
    <3>3. Said(rows[i].request) <= Said(rows[j].request) BY <2>0, <3>2 DEF InTurn
    <3>q. QED BY <2>3, <3>3
  <2>5. ASSUME NEW i \in DOMAIN rows, NEW p \in DOMAIN rows[i].isl_new_text
        PROVE  \E k \in 1 .. Len(rows[i].isl_text) :
                  /\ rows[i].isl_new_text[p] = Piece(m, k)
                  /\ \A j \in DOMAIN rows : j < i => Len(rows[j].isl_text) < k
    <3> DEFINE before == Before(i)
               isl == rows[i].isl_text
               new == rows[i].isl_new_text
    <3>1. Decodes(before, isl, new) BY <2>0, RowDecodes DEF Diffed
    <3>2. /\ before \in Seq(Chunks) /\ Len(before) <= Len(isl)
          /\ \A k \in 1 .. Len(before) : before[k] = isl[k]
          /\ \A j \in DOMAIN rows : j < i => Len(rows[j].isl_text) <= Len(before)
      <4>1. CASE i = 1
        <5>1. before = <<>> BY <4>1 DEF Before
        <5>2. before \in Seq(Chunks) /\ Len(before) = 0 BY <5>1
        <5>3. ~\E j \in DOMAIN rows : j < i BY <2>1, <4>1
        <5>4. Len(isl) \in Nat BY <2>2
        <5> HIDE DEF before, isl
        <5>q. QED BY <5>2, <5>3, <5>4
      <4>2. CASE i # 1
        <5>1. before = rows[i - 1].isl_text /\ i - 1 \in DOMAIN rows BY <2>1, <4>2 DEF Before
        <5>2. before \in Seq(Chunks) /\ Len(before) <= Len(isl) BY <2>1, <2>2, <2>4, <5>1
        <5>3. \A k \in 1 .. Len(before) : before[k] = isl[k]
          BY <2>2, <2>3, <5>1, <5>2
        <5>4. \A j \in DOMAIN rows : j < i => j = i - 1 \/ j < i - 1 BY <2>1
        <5>5. \A j \in DOMAIN rows : j < i => Len(rows[j].isl_text) <= Len(before)
          BY <2>2, <2>4, <5>1, <5>2, <5>4
        <5>q. QED BY <5>2, <5>3, <5>5
      <4>q. QED BY <4>1, <4>2
    <3>3. isl \in Seq(Chunks) /\ new \in Seq(Chunks) BY <2>2
    <3>4. Len(before) + p \in 1 .. Len(isl) /\ new[p] = isl[Len(before) + p]
      <4> HIDE DEF before, isl, new
      <4>1. p \in DOMAIN new BY DEF new
      <4>q. QED BY <3>1, <3>2, <3>3, <4>1, NewPieces
    <3>5. isl[Len(before) + p] = Piece(m, Len(before) + p) BY <2>3, <3>4
    <3>6. \A j \in DOMAIN rows : j < i => Len(rows[j].isl_text) < Len(before) + p
      <4>1. Len(before) \in Nat /\ p \in Nat /\ p >= 1 BY <3>2, <3>3
      <4>q. QED BY <2>2, <3>2, <4>1
    <3>q. QED BY <3>4, <3>5, <3>6
  <2>6. \A k, l \in Nat \ {0} : Piece(m, k) = Piece(m, l) => k = l
    <3>1. \A k \in Nat \ {0} : Piece(m, k).no = k - 1 BY DEF Piece
    <3>q. QED BY <3>1
  <2>7. ASSUME NEW i \in DOMAIN rows, NEW j \in DOMAIN rows, i < j
        PROVE  Range(rows[i].isl_new_text) \cap Range(rows[j].isl_new_text) = {}
    <3> SUFFICES ASSUME NEW p \in DOMAIN rows[i].isl_new_text,
                        NEW q \in DOMAIN rows[j].isl_new_text,
                        rows[i].isl_new_text[p] = rows[j].isl_new_text[q]
                 PROVE  FALSE
      BY DEF Range
    <3>1. PICK k \in 1 .. Len(rows[i].isl_text) : rows[i].isl_new_text[p] = Piece(m, k) BY <2>5
    <3>2. PICK l \in 1 .. Len(rows[j].isl_text) :
                rows[j].isl_new_text[q] = Piece(m, l) /\ Len(rows[i].isl_text) < l
      BY <2>5, <2>7
    <3>3. Len(rows[i].isl_text) \in Nat /\ Len(rows[j].isl_text) \in Nat BY <2>2
    <3>4. k \in Nat \ {0} /\ l \in Nat \ {0} /\ k # l BY <3>1, <3>2, <3>3
    <3>q. QED BY <2>6, <3>1, <3>2, <3>4
  <2>8. \A i, j \in DOMAIN rows : i # j => i < j \/ j < i BY <2>1
  <2>q. QED BY <2>7, <2>8 DEF OnlyFreshMessagesNew
<1>4. Spec => []Patient BY <1>1, <1>2, PTL DEF Spec
<1>q. QED BY <1>3, <1>4, Talks, PTL
-----------------------------------------------------------------------------
(* The pairing of the two files *)

\* A turn vLLM has answered, and which is not logged yet.
Ended(r) == r \in DOMAIN requests /\ Turn(r) /\ requests[r].status = "finished"

Undisturbed == Cardinality(Agents) = 1 /\ troubles = 0 /\ give_ups = 0

\* Completion k is what row k is about, and one more may wait for its row.
Paired ==
    /\ completions \in Seq(Nat)
    /\ rows # <<>> => Capture
    /\ Undisturbed =>
          /\ \A k \in DOMAIN rows :
                k \in DOMAIN completions /\ completions[k] = rows[k].request
          /\ \A r \in DOMAIN requests : (Capture /\ Ended(r)) =>
                /\ Len(completions) = Len(rows) + 1
                /\ completions[Len(rows) + 1] = r
          /\ (Capture /\ \A r \in DOMAIN requests : ~Ended(r)) =>
                Len(completions) = Len(rows)

PairInv == TalkInv /\ Paired

LEMMA SmallSequences ==
    /\ SetToSeq({}) = <<>>
    /\ \A x : SetToSeq({x}) = <<x>>
<1>1. SetToSeq({}) = <<>>
  <2>1. Cardinality({}) = 0 BY FS_EmptySet
  <2>2. <<>> \in [1 .. 0 -> {}] /\ IsInjective(<<>>) BY DEF IsInjective
  <2>3. SetToSeq({}) \in [1 .. 0 -> {}] BY <2>1, <2>2 DEF SetToSeq
  <2>q. QED BY <2>3
<1>2. ASSUME NEW x PROVE SetToSeq({x}) = <<x>>
  <2>1. Cardinality({x}) = 1 BY FS_Singleton
  <2>2. <<x>> \in [1 .. 1 -> {x}] /\ IsInjective(<<x>>) BY DEF IsInjective
  <2>3. SetToSeq({x}) \in [1 .. 1 -> {x}] BY <2>1, <2>2 DEF SetToSeq
  <2>4. \A f \in [1 .. 1 -> {x}] : f = <<x>> OBVIOUS
  <2>q. QED BY <2>3, <2>4
<1>q. QED BY <1>1, <1>2

\* One conversation has one request under way.
LEMMA OneUnderWay ==
    ASSUME TalkInv, IsFiniteSet(Agents), Undisturbed, NEW r \in InFlight, NEW s \in InFlight
    PROVE  r = s
<1>1. PICK m : Agents = {m} BY FS_Singleton DEF Undisturbed
<1>2. \A k \in DOMAIN requests : requests[k] \in Requests BY DEF TalkInv, Inv, Typed
<1>3. requests[r].agent = m /\ requests[s].agent = m
  BY <1>1, <1>2 DEF Requests, InFlight
<1>q. QED BY <1>3 DEF TalkInv, InTurn, Undisturbed

\* A re-roled conversation is not refused.
LEMMA TurnsAreTaken ==
    ASSUME TalkInv, NEW r \in DOMAIN requests, Turn(r)
    PROVE  ~Refused(r)
<1>1. requests[r] \in Requests BY DEF TalkInv, Inv, Typed
<1>2. requests[r].body \in Bodies BY <1>1 DEF Requests
<1> DEFINE said == requests[r].body.messages
<1>3. said \in Seq(Chunks) BY <1>2 DEF Bodies
<1>4. ASSUME NEW i \in DOMAIN said PROVE said[i].role = "user"
  <2>1. i + 1 \in 2 .. Len(said) + 1 /\ i + 1 - 1 = i /\ i \in Nat BY <1>3
  <2>2. RequestChunks(requests[r].body)[i + 1] = said[i]
    <3>1. \A k \in 2 .. Len(said) + 1 : RequestChunks(requests[r].body)[k] = said[k - 1]
      BY <1>2, PiecesOf
    <3> HIDE DEF said
    <3>q. QED BY <2>1, <3>1
  <2>3. RequestChunks(requests[r].body)[i + 1] = Piece(requests[r].agent, i + 1)
    BY <2>1 DEF TalkInv, Spoken, Said
  <2>4. i + 1 # 1 BY <2>1
  <2>q. QED BY <2>2, <2>3, <2>4 DEF Piece
<1>q. QED BY <1>4 DEF Refused, Turn

\* Neither file grows, and no turn ends.
LEMMA NothingPaired ==
    ASSUME Paired, completions' = completions, rows' = rows, Undisturbed' => Undisturbed,
           DOMAIN requests \subseteq DOMAIN requests',
           Undisturbed' => \A k \in DOMAIN requests' : Ended(k)' <=> Ended(k)
    PROVE  Paired'
<1>1. ASSUME Undisturbed'
      PROVE  /\ \A k \in DOMAIN rows' :
                   k \in DOMAIN completions' /\ completions'[k] = rows'[k].request
             /\ \A r \in DOMAIN requests' : (Capture /\ Ended(r)') =>
                   /\ Len(completions') = Len(rows') + 1
                   /\ completions'[Len(rows') + 1] = r
             /\ (Capture /\ \A r \in DOMAIN requests' : ~Ended(r)') =>
                   Len(completions') = Len(rows')
  <2>1. \A k \in DOMAIN requests' : Ended(k)' => k \in DOMAIN requests /\ Ended(k)
    BY <1>1 DEF Ended
  <2>2. (\A k \in DOMAIN requests' : ~Ended(k)') => \A k \in DOMAIN requests : ~Ended(k)
    BY <1>1
  <2>q. QED BY <1>1, <2>1, <2>2 DEF Paired
<1>q. QED BY <1>1 DEF Paired

\* What vLLM completes in a step.
Completed == {r \in DOMAIN requests : Counted(r) /\ requests'[r].status = "finished"}

LEMMA ProxyPairs == ASSUME PairInv, TalkInv', IsFiniteSet(Agents), ProxyStep PROVE Paired'
<1>0. TalkInv /\ Paired /\ Spoken BY DEF PairInv, TalkInv
<1>1. completions' = completions \o SetToSeq(Completed) BY DEF ProxyStep, Completed
<1>2. completions \in Seq(Nat) BY <1>0 DEF Paired
<1>3. Completed = {} => completions' = completions BY <1>1, <1>2, SmallSequences
<1>4. /\ requests \in Seq(Requests) /\ DOMAIN requests = 1 .. Len(requests)
      /\ \A k \in DOMAIN requests : requests[k] \in Requests
  BY <1>0 DEF TalkInv, Inv, Typed
<1>5. ASSUME NEW r, requests' = Append(requests, r), r.status # "finished",
             UNCHANGED <<rows, troubles, give_ups>>
      PROVE  Paired'
  <2>1. /\ Len(requests) \in Nat /\ DOMAIN requests' = 1 .. Len(requests) + 1
        /\ \A k \in DOMAIN requests : k \in DOMAIN requests' /\ requests'[k] = requests[k]
        /\ requests'[Len(requests) + 1] = r
    BY <1>0, <1>5, RequestsGrow DEF TalkInv, Inv
  <2>2. Completed = {} BY <2>1 DEF Completed, Counted
  <2>3. \A k \in DOMAIN requests' : Ended(k)' <=> Ended(k)
    BY <1>4, <1>5, <2>1 DEF Ended, Turn
  <2>4. Undisturbed' => Undisturbed BY <1>5 DEF Undisturbed
  <2>5. rows' = rows /\ DOMAIN requests \subseteq DOMAIN requests' BY <1>5, <2>1
  <2>q. QED BY <1>0, <1>3, <2>2, <2>3, <2>4, <2>5, NothingPaired
<1>6. ASSUME NEW a \in Agents, ClientStep(a) PROVE Paired'
  <2>1. ASSUME NEW kind, NEW n, Forward(kind, a, n) PROVE Paired'
    <3> DEFINE r == [kind |-> kind, agent |-> a,
                     body |-> [Body(a, n) EXCEPT !.messages =
                                  IF kind = "turn" THEN Rerole(@) ELSE @],
                     request_time |-> clock, tool_exec_ms |-> ToolExecMs,
                     status |-> "sent", http |-> "", responded_at |-> NoTime]
    <3>1. /\ requests' = Append(requests, r) /\ r.status # "finished"
          /\ UNCHANGED <<rows, troubles, give_ups>>
      BY <2>1 DEF Forward, countVars
    <3> HIDE DEF r
    <3>q. QED BY <1>5, <3>1
  <2>2. CASE AnswerTitle(a)
    <3> DEFINE r == [kind |-> "title", agent |-> a, body |-> Body(a, 0), request_time |-> clock,
                     tool_exec_ms |-> NoTime, status |-> "canned", http |-> "200",
                     responded_at |-> clock]
    <3>1. /\ requests' = Append(requests, r) /\ r.status # "finished"
          /\ UNCHANGED <<rows, troubles, give_ups>>
      BY <2>2 DEF AnswerTitle, countVars
    <3> HIDE DEF r
    <3>q. QED BY <1>5, <3>1
  <2>3. CASE GiveUp(a)
    <3>1. UNCHANGED <<requests, rows>> /\ give_ups' # 0
      BY <1>0, <2>3 DEF GiveUp, recorderVars, Spoken
    <3>2. Completed = {} BY <3>1 DEF Completed, Counted
    <3>3. ~Undisturbed' BY <3>1 DEF Undisturbed
    <3>q. QED BY <1>0, <1>3, <3>1, <3>2, <3>3, NothingPaired
  <2>q. QED BY <1>6, <2>1, <2>2, <2>3 DEF ClientStep, Ask, Retry, Opaque
<1>7. ASSUME NEW r \in DOMAIN requests, EngineStep(r) PROVE Paired'
  <2>1. PICK http \in {"200", "400", "500"} : Finish(r, http) BY <1>7 DEF EngineStep
  <2>2. /\ requests[r].status = "sent"
        /\ requests' = [requests EXCEPT ![r].status = "finished", ![r].http = http]
        /\ UNCHANGED <<rows, give_ups>>
    BY <2>1 DEF Finish, recorderVars
  <2>3. /\ DOMAIN requests' = DOMAIN requests
        /\ requests'[r].status = "finished" /\ requests'[r].http = http
        /\ requests'[r].kind = requests[r].kind
        /\ \A k \in DOMAIN requests : k # r => requests'[k] = requests[k]
    BY <1>4, <2>2 DEF Requests
  <2>4. Completed = IF http = "200" THEN {r} ELSE {} BY <2>2, <2>3 DEF Completed, Counted
  <2>5. \A k \in DOMAIN requests : Ended(k)' <=> (IF k = r THEN Turn(r) ELSE Ended(k))
    BY <2>3 DEF Ended, Turn
  <2>6. ~Ended(r) BY <2>2 DEF Ended
  <2>7. CASE http # "200"
    <3>1. Undisturbed' => Undisturbed /\ ~Turn(r)
      <4>1. CASE http = "400"
        <5>1. Refused(r) BY <2>1, <4>1 DEF Finish
        <5>2. ~Turn(r) BY <1>0, <5>1, TurnsAreTaken
        <5>3. troubles' = troubles BY <2>1, <4>1 DEF Finish
        <5>q. QED BY <2>2, <5>2, <5>3 DEF Undisturbed
      <4>2. CASE http = "500"
        <5>1. troubles' = troubles + 1 BY <2>1, <4>2 DEF Finish
        <5>2. ~Undisturbed' BY <1>0, <5>1 DEF Undisturbed, Spoken
        <5>q. QED BY <5>2
      <4>q. QED BY <2>7, <4>1, <4>2
    <3>2. completions' = completions BY <1>3, <2>4, <2>7
    <3>3. Undisturbed' => \A k \in DOMAIN requests' : Ended(k)' <=> Ended(k)
      BY <2>3, <2>5, <2>6, <3>1
    <3>q. QED BY <1>0, <2>2, <2>3, <3>1, <3>2, <3>3, NothingPaired
  <2>8. CASE http = "200"
    <3>1. completions' = completions \o <<r>> BY <1>1, <2>4, <2>8, SmallSequences
    <3>2. r \in Nat BY <1>4
    <3>3. /\ completions' \in Seq(Nat) /\ Len(completions) \in Nat
          /\ Len(completions') = Len(completions) + 1
          /\ DOMAIN completions = 1 .. Len(completions)
          /\ DOMAIN completions' = 1 .. Len(completions) + 1
          /\ \A k \in DOMAIN completions : completions'[k] = completions[k]
          /\ completions'[Len(completions) + 1] = r
      BY <1>2, <3>1, <3>2
    <3>4. ASSUME Undisturbed'
          PROVE  /\ \A k \in DOMAIN rows' :
                       k \in DOMAIN completions' /\ completions'[k] = rows'[k].request
                 /\ \A k \in DOMAIN requests' : (Capture /\ Ended(k)') =>
                       /\ Len(completions') = Len(rows') + 1
                       /\ completions'[Len(rows') + 1] = k
                 /\ (Capture /\ \A k \in DOMAIN requests' : ~Ended(k)') =>
                       Len(completions') = Len(rows')
      <4>1. Undisturbed BY <2>1, <2>2, <2>8, <3>4 DEF Undisturbed, Finish
      <4>2. Turn(r)
        <5>1. ~Refused(r) BY <2>1, <2>8 DEF Finish
        <5>2. requests[r].kind # "title"
          <6>1. requests[r].kind = "title" => requests[r].status = "canned"
            BY DEF PairInv, TalkInv, Spoken
          <6>q. QED BY <2>2, <6>1
        <5>q. QED BY <1>4, <5>1, <5>2 DEF Refused, Turn, Requests
      <4>3. \A k \in DOMAIN requests : ~Ended(k)
        <5>1. r \in InFlight BY <2>2 DEF InFlight
        <5>2. \A k \in DOMAIN requests : Ended(k) => k \in InFlight BY DEF Ended, InFlight
        <5>q. QED BY <1>0, <2>6, <4>1, <5>1, <5>2, OneUnderWay
      <4>4. Capture => Len(completions) = Len(rows) BY <1>0, <4>1, <4>3 DEF Paired
      <4>5. \A k \in DOMAIN requests' : Ended(k)' => k = r BY <2>3, <2>5, <4>3
      <4>6. r \in DOMAIN requests' /\ Ended(r)' BY <2>3, <2>5, <4>2
      <4>7. \A k \in DOMAIN rows :
               k \in DOMAIN completions /\ completions[k] = rows[k].request
        BY <1>0, <4>1 DEF Paired
      <4>q. QED BY <2>2, <3>3, <4>4, <4>5, <4>6, <4>7
    <3>q. QED BY <1>0, <2>2, <3>3, <3>4 DEF Paired
  <2>q. QED BY <2>7, <2>8
<1>8. ASSUME NEW r \in DOMAIN requests, ForwardFails(r) PROVE Paired'
  <2>1. /\ requests' = [requests EXCEPT ![r].status = "failed"] /\ rows' = rows
        /\ troubles' = troubles + 1
    BY <1>8 DEF ForwardFails, recorderVars
  <2>2. /\ DOMAIN requests' = DOMAIN requests /\ requests'[r].status = "failed"
        /\ \A k \in DOMAIN requests : k # r => requests'[k] = requests[k]
    BY <1>4, <2>1 DEF Requests
  <2>3. Completed = {} BY <2>2 DEF Completed, Counted
  <2>4. ~Undisturbed' BY <1>0, <2>1 DEF Undisturbed, Spoken
  <2>q. QED BY <1>0, <1>3, <2>1, <2>2, <2>3, <2>4, NothingPaired
<1>9. ASSUME NEW r \in DOMAIN requests, Respond(r) PROVE Paired'
  <2>1. /\ requests[r].status = "finished" /\ UNCHANGED <<troubles, give_ups>>
        /\ requests' = [requests EXCEPT ![r].status = "responded", ![r].responded_at = clock]
    BY <1>9 DEF Respond, countVars
  <2>2. /\ DOMAIN requests' = DOMAIN requests /\ requests'[r].status = "responded"
        /\ \A k \in DOMAIN requests : k # r => requests'[k] = requests[k]
    BY <1>4, <2>1 DEF Requests
  <2>3. completions' = completions
    <3>1. Completed = {} BY <2>2 DEF Completed, Counted
    <3>q. QED BY <1>3, <3>1
  <2>4. \A k \in DOMAIN requests : Ended(k)' <=> k # r /\ Ended(k) BY <2>2 DEF Ended, Turn
  <2>5. Undisturbed' <=> Undisturbed BY <2>1 DEF Undisturbed
  <2>6. CASE ~Logs(r)
    <3>1. rows' = rows BY <1>9, <2>6 DEF Respond
    <3>2. CASE Turn(r)
      <4>1. ~Capture BY <2>6, <3>2 DEF Logs, Turn
      <4>q. QED BY <1>0, <2>3, <2>5, <3>1, <4>1 DEF Paired
    <3>3. CASE ~Turn(r)
      <4>1. \A k \in DOMAIN requests' : Ended(k)' <=> Ended(k) BY <2>2, <2>4, <3>3 DEF Ended
      <4>q. QED BY <1>0, <2>2, <2>3, <2>5, <3>1, <4>1, NothingPaired
    <3>q. QED BY <3>2, <3>3
  <2>7. CASE Logs(r)
    <3>1. Capture /\ Ended(r) BY <2>1, <2>7 DEF Logs, Turn, Ended
    <3>2. rows' = Append(rows, Row(r)) BY <1>9, <2>7 DEF Respond
    <3> DEFINE row == Row(r)
    <3>3. row.request = r BY DEF Row
    <3>4. rows \in Seq(Rows) BY <1>0 DEF TalkInv, Inv, Typed
    <3> HIDE DEF row
    <3>5. /\ Len(rows) \in Nat /\ DOMAIN rows = 1 .. Len(rows) /\ rows' # <<>>
          /\ Len(rows') = Len(rows) + 1 /\ DOMAIN rows' = 1 .. Len(rows) + 1
          /\ rows'[Len(rows) + 1] = row /\ \A i \in DOMAIN rows : rows'[i] = rows[i]
      <4>1. rows' = Append(rows, row) BY <3>2 DEF row
      <4>q. QED BY <3>4, <4>1
    <3>6. ASSUME Undisturbed'
          PROVE  /\ \A k \in DOMAIN rows' :
                       k \in DOMAIN completions' /\ completions'[k] = rows'[k].request
                 /\ Len(completions') = Len(rows')
                 /\ \A k \in DOMAIN requests' : ~Ended(k)'
      <4>1. Undisturbed BY <2>5, <3>6
      <4>2. Len(completions) = Len(rows) + 1 /\ completions[Len(rows) + 1] = r
        BY <1>0, <3>1, <4>1 DEF Paired
      <4>3. \A k \in DOMAIN requests : Ended(k) => k = r
        <5>1. \A k \in DOMAIN requests : Ended(k) => k \in InFlight BY DEF Ended, InFlight
        <5>q. QED BY <1>0, <3>1, <4>1, <5>1, OneUnderWay
      <4>4. \A k \in DOMAIN rows : k \in DOMAIN completions /\ completions[k] = rows[k].request
        BY <1>0, <4>1 DEF Paired
      <4>5. Len(rows) + 1 \in DOMAIN completions BY <1>2, <3>5, <4>2
      <4>q. QED BY <2>2, <2>3, <2>4, <3>3, <3>5, <4>2, <4>3, <4>4, <4>5
    <3>q. QED BY <1>0, <2>3, <3>1, <3>5, <3>6 DEF Paired
  <2>q. QED BY <2>6, <2>7
<1>10. CASE Tick \/ Quiet \/ UNCHANGED vars
  <2>1. UNCHANGED <<requests, rows, troubles, give_ups>>
    BY <1>10 DEF Tick, Quiet, vars, recorderVars, clientVars, countVars
  <2>2. Completed = {} BY <2>1 DEF Completed, Counted
  <2>3. \A k \in DOMAIN requests' : Ended(k)' <=> Ended(k) BY <2>1 DEF Ended, Turn
  <2>4. Undisturbed' => Undisturbed BY <2>1 DEF Undisturbed
  <2>q. QED BY <1>0, <1>3, <2>1, <2>2, <2>3, <2>4, NothingPaired
<1>q. QED BY <1>6, <1>7, <1>8, <1>9, <1>10 DEF ProxyStep, Next

\* The proxy behaves beside the scraper as it does alone.
THEOREM ProxyAlone == PairSpec => Spec
<1>1. PairInit => Init BY DEF PairInit
<1>2. [PairNext]_pairVars => [Next]_vars
  BY DEF PairNext, ProxyStep, EngineRow, pairVars
<1>q. QED BY <1>1, <1>2, PTL DEF PairSpec, Spec

\* In a session of one conversation without errors a turn is loaded with the token
\* counts of its own request, up to the first row that has merged or skipped
\* completions: trace_loader.py:66-105.
THEOREM PairedRight == ASSUME IsFiniteSet(Agents) PROVE PairSpec => []PairedUntilMerge
<1>1. PairInit => PairInv
  <2> SUFFICES ASSUME PairInit PROVE PairInv OBVIOUS
  <2>1. TalkInv BY InitInv, InitTalks DEF PairInit, TalkInv
  <2>2. Paired BY DEF PairInit, Init, Paired, Ended
  <2>q. QED BY <2>1, <2>2 DEF PairInv
<1>2. PairInv /\ [PairNext]_pairVars => PairInv'
  <2> SUFFICES ASSUME PairInv, [PairNext]_pairVars PROVE PairInv' OBVIOUS
  <2>1. CASE ProxyStep
    <3>1. TalkInv' BY <2>1, TalkKeeps DEF ProxyStep, PairInv
    <3>q. QED BY <2>1, <3>1, ProxyPairs DEF PairInv
  <2>2. CASE UNCHANGED <<vars, completions>>
    <3>1. TalkInv' BY <2>2, TalkKeeps DEF PairInv
    <3>2. UNCHANGED <<requests, rows, troubles, give_ups, completions>>
      BY <2>2 DEF vars, recorderVars, countVars
    <3>3. \A k \in DOMAIN requests' : Ended(k)' <=> Ended(k) BY <3>2 DEF Ended, Turn
    <3>4. Undisturbed' => Undisturbed BY <3>2 DEF Undisturbed
    <3>5. Paired' BY <3>2, <3>3, <3>4, NothingPaired DEF PairInv
    <3>q. QED BY <3>1, <3>5 DEF PairInv
  <2>q. QED BY <2>1, <2>2 DEF PairNext, EngineRow, pairVars
<1>3. PairInv => PairedUntilMerge
  <2> SUFFICES ASSUME PairInv, Undisturbed, NEW k \in TurnIndices,
                      \A j \in 1 .. k : engine_rows[j].lo = j - 1 /\ engine_rows[j].hi = j
               PROVE  SameRequest(k)
    BY DEF PairedUntilMerge, Undisturbed
  <2>1. k \in DOMAIN rows BY DEF TurnIndices, Partner
  <2>2. completions[k] = rows[k].request BY <2>1 DEF PairInv, Paired
  <2>3. k \in 1 .. k BY <2>1 DEF PairInv, TalkInv, Inv, Typed
  <2>4. engine_rows[k].lo = k - 1 /\ engine_rows[k].hi = k BY <2>3
  <2>5. LoadedTurns[k] = [engine |-> engine_rows[k], trace |-> rows[k]]
    BY DEF LoadedTurns, Partner
  <2>q. QED BY <2>2, <2>3, <2>4, <2>5 DEF SameRequest
<1>q. QED BY <1>1, <1>2, <1>3, PTL DEF PairSpec

\* ... and with nobody giving up, every piece of it is new in one row only.
THEOREM FreshBesideScraper ==
    ASSUME NEW m, Agents = {m}, MaxGiveUps = 0
    PROVE  PairSpec => []OnlyFreshMessagesNew
<1>1. Spec => []OnlyFreshMessagesNew BY FreshOnce
<1>q. QED BY <1>1, ProxyAlone, PTL
=============================================================================
