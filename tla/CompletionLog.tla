--------------------------- MODULE CompletionLog ---------------------------
(***************************************************************************)
(* What a metrics log promises, whatever the way it is produced: an engine *)
(* finishes requests 1, 2, 3, ... and the log records some of them, always  *)
(* in the order of completion, never one that has not finished and never    *)
(* one twice.  A record may cover several consecutive requests (the row's   *)
(* n), and requests may be skipped for good.                                *)
(***************************************************************************)
EXTENDS Integers, Sequences

VARIABLES
    finished,   \* the number of requests the engine has finished
    logged      \* the records: each covers the requests lo + 1 .. hi

Init == finished = 0 /\ logged = <<>>

Finish == finished' = finished + 1 /\ UNCHANGED logged

\* One more record, for requests that are all later than any logged one.
Log(lo, hi) ==
    /\ lo < hi /\ hi <= finished
    /\ \A i \in DOMAIN logged : logged[i].hi <= lo
    /\ logged' = Append(logged, [lo |-> lo, hi |-> hi])
    /\ UNCHANGED finished

Next == Finish \/ \E lo, hi \in 0 .. finished : Log(lo, hi)

Spec == Init /\ [][Next]_<<finished, logged>>
=============================================================================
