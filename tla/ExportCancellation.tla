------------------------- MODULE ExportCancellation -------------------------
(***************************************************************************)
(* Streaming exports that can be cancelled: the registry of                  *)
(* lib/cancellation/operation-registry.ts, streamingExport of                *)
(* lib/export/streaming-export.ts and the POST handler of                    *)
(* app/api/export/route.ts that joins them.                                  *)
(*                                                                           *)
(* The client may choose the operation's id.  A client that goes away aborts *)
(* the request's signal and cancels the response stream, in either order.    *)
(* An export yields while it fetches a batch and while it sleeps before a    *)
(* retry; writing to the stream is synchronous.                              *)
(***************************************************************************)
EXTENDS Naturals, FiniteSets

CONSTANTS
    Ids,            \* operation ids
    MaxExports,     \* exports requested
    Batches,        \* batches of records in an export
    FetchRetries,     \* ExportConfig.maxRetries
    SameId          \* {TRUE, FALSE} or one of them: may an id be used again?

ASSUME ExportBoundsAssumption ==
    /\ MaxExports \in Nat /\ Batches \in Nat /\ FetchRetries \in Nat
    /\ SameId \subseteq BOOLEAN /\ Ids # {}

VARIABLES
    sameId,     \* fixed for a behaviour
    entry,      \* operations: [Ids -> the export registered under the id, or 0]
    op,         \* [Exports -> the record, its controller and its worker]
    (* history *)
    stopped,    \* exports whose cancel() was answered 200
    cutShort    \* exports whose fetcher threw an AbortError of its own

exportVars == <<sameId, entry, op, stopped, cutShort>>

Exports == 1..MaxExports

\* aborted: the controller's signal.  timer: cleanupTimer is running.  written:
\* batches enqueued.  gone: the response stream was cancelled.  left: the
\* request's signal was aborted.
Op == [pc : {"unused", "fetching", "sleeping", "ended"},
       id : Ids, status : {"running", "completed", "cancelled", "failed"},
       aborted : BOOLEAN, timer : BOOLEAN, tries : 0..FetchRetries,
       written : 0..Batches, gone : BOOLEAN, left : BOOLEAN]
NoOp == [pc |-> "unused", id |-> CHOOSE i \in Ids : TRUE, status |-> "running",
         aborted |-> FALSE, timer |-> FALSE, tries |-> 0, written |-> 0,
         gone |-> FALSE, left |-> FALSE]

ExportTypeOK ==
    /\ sameId \in SameId
    /\ entry \in [Ids -> 0..MaxExports]
    /\ op \in [Exports -> Op]
    /\ stopped \subseteq Exports /\ cutShort \subseteq Exports

ExportInit ==
    /\ sameId \in SameId
    /\ entry = [i \in Ids |-> 0]
    /\ op = [x \in Exports |-> NoOp]
    /\ stopped = {} /\ cutShort = {}

------------------------------------------------------------------------------
(* The registry                                                              *)

\* register: whatever the id had is replaced.  The signal may be aborted already.
Register(x, i) ==
    /\ op[x].pc = "unused" /\ \A y \in Exports : y < x => op[y].pc # "unused"
    /\ sameId \/ \A y \in Exports : op[y].pc # "unused" => op[y].id # i
    /\ entry' = [entry EXCEPT ![i] = x]
    /\ \E left \in BOOLEAN :
        op' = [op EXCEPT ![x] =
            [pc |-> "fetching", id |-> i, status |-> IF left THEN "cancelled" ELSE "running",
             aborted |-> left, timer |-> FALSE, tries |-> 0, written |-> 0, gone |-> FALSE,
             left |-> left]]
    /\ UNCHANGED <<sameId, stopped, cutShort>>

Cancelled(o) == [o EXCEPT !.aborted = TRUE, !.status = "cancelled", !.timer = TRUE]

\* cancel by an actor who may: 409 unless running; abort, record, scheduleCleanup.
CancelOperation(i) ==
    LET x == entry[i]
    IN /\ x # 0 /\ op[x].status = "running"
       /\ op' = [op EXCEPT ![x] = Cancelled(op[x])]
       /\ stopped' = stopped \cup {x}
       /\ UNCHANGED <<sameId, entry, cutShort>>

\* The abort listener of register.
Left(o) == IF o.status = "running"
           THEN [o EXCEPT !.left = TRUE, !.aborted = TRUE, !.status = "cancelled"]
           ELSE [o EXCEPT !.left = TRUE]
SignalAborts(x) ==
    /\ op[x].pc # "unused" /\ ~op[x].left
    /\ op' = [op EXCEPT ![x] = Left(op[x])]
    /\ UNCHANGED <<sameId, entry, stopped, cutShort>>

StreamCancelled(x) ==
    /\ op[x].pc # "unused" /\ ~op[x].gone
    /\ op' = [op EXCEPT ![x].gone = TRUE]
    /\ UNCHANGED <<sameId, entry, stopped, cutShort>>

\* scheduleCleanup's timer deletes the id, whoever has it now.
Cleanup(x) ==
    /\ op[x].timer
    /\ op' = [op EXCEPT ![x].timer = FALSE]
    /\ entry' = [entry EXCEPT ![op[x].id] = 0]
    /\ UNCHANGED <<sameId, stopped, cutShort>>

\* complete and fail: the record that the id has now, whatever its status.
Recorded(ops, i, status) ==
    IF entry[i] = 0 THEN ops
    ELSE [ops EXCEPT ![entry[i]].status = status, ![entry[i]].timer = TRUE]

------------------------------------------------------------------------------
(* The export                                                                *)

CompletedAnyway(x, result) ==   \* mutant: metadata.cancelled is not looked at
    IF result = "error" THEN "failed" ELSE "completed"
\* The status the handler reports for a result, or "" for none; closing a stream
\* that was cancelled throws, and the catch reports a failure.
Outcome(x, result) ==
    IF op[x].gone \/ result = "error" THEN "failed"
    ELSE IF result = "ok" THEN "completed" ELSE ""

Ends(x, result) ==
    LET ended == [op EXCEPT ![x].pc = "ended"]
    IN op' = IF Outcome(x, result) = "" THEN ended
             ELSE Recorded(ended, op[x].id, Outcome(x, result))

\* A batch arrives after an abort, or the loop sees the signal before fetching.
FetchAborted(x) ==
    /\ op[x].pc = "fetching" /\ op[x].aborted
    /\ Ends(x, "cancelled")
    /\ UNCHANGED <<sameId, entry, stopped, cutShort>>

BlindBatch(x) ==    \* mutant: the signal is not looked at after the fetch
    op[x].pc = "fetching" /\ op[x].written < Batches
BatchArrives(x) == op[x].pc = "fetching" /\ ~op[x].aborted /\ op[x].written < Batches

\* A batch is written, if the stream still takes it.
FetchBatch(x) ==
    /\ BatchArrives(x)
    /\ IF op[x].gone THEN Ends(x, "error")
       ELSE op' = [op EXCEPT ![x].written = @ + 1, ![x].tries = 0]
    /\ UNCHANGED <<sameId, entry, stopped, cutShort>>

FetchEnd(x) ==
    /\ op[x].pc = "fetching" /\ ~op[x].aborted
    /\ op[x].written = Batches
    /\ Ends(x, "ok")
    /\ UNCHANGED <<sameId, entry, stopped, cutShort>>

FetchFails(x) ==
    /\ op[x].pc = "fetching" /\ ~op[x].aborted
    /\ IF op[x].tries < FetchRetries
       THEN op' = [op EXCEPT ![x].pc = "sleeping"]
       ELSE Ends(x, "error")
    /\ UNCHANGED <<sameId, entry, stopped, cutShort>>

\* An error named AbortError is taken for an abort whoever threw it: no retry, and
\* an empty batch, with which the export ends as with the last one.
FetchGivesUp(x) ==
    /\ op[x].pc = "fetching" /\ ~op[x].aborted
    /\ Ends(x, "ok")
    /\ cutShort' = cutShort \cup {x}
    /\ UNCHANGED <<sameId, entry, stopped>>

RetryUnlessAborted(x) ==    \* mutant: the abort clears the timer and resolves nothing
    /\ op[x].pc = "sleeping" /\ ~op[x].aborted
    /\ op' = [op EXCEPT ![x].pc = "fetching", ![x].tries = @ + 1]
    /\ UNCHANGED <<sameId, entry, stopped, cutShort>>

\* The delay is over, or cut short by the abort.
RetryFetch(x) ==
    /\ op[x].pc = "sleeping"
    /\ op' = [op EXCEPT ![x].pc = "fetching", ![x].tries = @ + 1]
    /\ UNCHANGED <<sameId, entry, stopped, cutShort>>

ExportSteps(x) ==
    \/ FetchAborted(x) \/ FetchBatch(x) \/ FetchEnd(x)
    \/ FetchFails(x) \/ FetchGivesUp(x) \/ RetryFetch(x)

ExportNext ==
    \/ \E i \in Ids : CancelOperation(i) \/ \E x \in Exports : Register(x, i)
    \/ \E x \in Exports :
        SignalAborts(x) \/ StreamCancelled(x) \/ Cleanup(x) \/ ExportSteps(x)

ExportSpec == ExportInit /\ [][ExportNext]_exportVars

------------------------------------------------------------------------------
(* Properties                                                                *)

Live(x) == op[x].pc \in {"fetching", "sleeping"}

\* An export that reports completed was not cancelled by cancel() and wrote all its
\* batches, if ids are not used again; unless its fetcher threw an AbortError although
\* nobody had aborted it, which ends an export as if there were no more records.
CompletedIsWhole ==
    ~sameId => \A x \in Exports :
        op[x].status = "completed" =>
            /\ op[x].written = Batches \/ x \in cutShort
            /\ x \notin stopped

\* After an abort nothing more is written, and what cancel() has cancelled stays
\* cancelled while the client reads the stream to its end.
StoppedStaysStopped ==
    [][\A x \in Exports :
        /\ op[x].aborted => op'[x].written = op[x].written
        /\ ~sameId /\ x \in stopped /\ ~op[x].gone => op'[x].status = "cancelled"]_exportVars

\* "Provides safe cancellation" (operation-registry.ts:49): an export whose cancel()
\* was answered 200 ends, in the middle of a fetch or of a sleep, if fetches come
\* back and timers fire.
CancelEnds == \A x \in Exports : x \in stopped ~> op[x].pc = "ended"
==============================================================================
