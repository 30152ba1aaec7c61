----------------------------- MODULE OutputCapture -----------------------------
(***************************************************************************)
(* One output stream of an invocation, from the pipe to the published      *)
(* artifact: the reader thread (_StreamWorker) hands every chunk to a      *)
(* helper process (_CaptureSink) that writes it to a staging file and      *)
(* acknowledges it; cleanup revokes the capture and takes stock of it      *)
(* (_capture_result) while reader and helper may still be running; the     *)
(* adapter publishes the stock (providers/codex_cli/evidence.py).          *)
(*                                                                         *)
(* The bytes of the stream are numbered 1, 2, 3, ...  A file is the        *)
(* sequence of the bytes written to it.                                    *)
(***************************************************************************)
EXTENDS Naturals, Sequences

CONSTANTS
    Chunk,      \* _READ_SIZE: the bytes of a read, and of one write to the helper
    Kept,       \* _DIAGNOSTIC_TAIL_BYTES: how many of the last bytes are kept
    MaxChunks   \* bound of exploration: the chunks of the stream

ASSUME SizesAssumption ==
    /\ Chunk \in Nat \ {0} /\ Kept \in Nat /\ MaxChunks \in Nat
    /\ Chunk <= Kept

VARIABLES
    observed,   \* observed_bytes; the tail buffer follows from it
    prefix,     \* capture_prefix_bytes: acknowledged by the helper
    reader,     \* where _StreamWorker._run is
    flags,      \* the worker's fields that other threads read or write
    sink,       \* _CaptureSink: its two descriptors; history: missed, the reader found the
                \* one of the acknowledgement closed
    helper,     \* the helper process
    staging,    \* the staging file
    stage,      \* where the thread of run() and then of the adapter is
    stock,      \* the _CaptureResult
    published   \* the artifact in the attempt's directory

worker == <<observed, prefix, reader, flags>>
capture == <<sink, helper, staging>>
vars == <<worker, capture, stage, stock, published>>

Bytes(first, last) == [i \in 1 .. (last + 1 - first) |-> first + i - 1]
MaxBytes == Chunk * MaxChunks

NothingTaken == [complete |-> FALSE, stable |-> FALSE, prefix |-> 0, observed |-> 0,
                 forced |-> FALSE]
NotPublished == [kind |-> "none", content |-> <<>>, truncated |-> FALSE, late |-> FALSE]

-----------------------------------------------------------------------------
(* _StreamWorker._run *)

Reader(next) == reader' = next /\ UNCHANGED <<stage, stock, published>>

\* The loop goes on unless it was cancelled.
LoopsTo == IF flags.cancelled THEN "ending" ELSE "reading"

\* A read that was under way when the worker was cancelled still delivers.
Observe ==
    /\ reader = "reading" /\ observed < MaxBytes
    /\ observed' = observed + Chunk
    /\ Reader("observed")
    /\ UNCHANGED <<prefix, flags, capture>>

\* End of file, a cancelled worker, or an error of the pipe.
StreamEnds ==
    /\ reader = "reading"
    /\ \E error \in BOOLEAN : flags' = [flags EXCEPT !.failed = error]
    /\ Reader("ending")
    /\ UNCHANGED <<observed, prefix, capture>>

\* The chunk is claimed for the helper unless the capture was revoked.
Claim ==
    /\ reader = "observed"
    /\ flags' = [flags EXCEPT !.active = ~flags.revoked]
    /\ Reader(IF flags.revoked THEN "ending" ELSE "sending")
    /\ UNCHANGED <<observed, prefix, capture>>

Send ==
    /\ reader = "sending" /\ sink.input /\ helper.exit = "none"
    /\ helper' = [helper EXCEPT !.todo = Bytes(observed - Chunk + 1, observed), !.ack = FALSE]
    /\ Reader("awaiting")
    /\ UNCHANGED <<observed, prefix, flags, sink, staging>>

\* A read of the acknowledgement that has begun outlasts the closing of its descriptor.
Acknowledged ==
    /\ reader = "awaiting" /\ helper.ack
    /\ prefix' = prefix + Chunk
    /\ Reader("stored")
    /\ UNCHANGED <<observed, flags, capture>>

Release ==
    /\ reader = "stored"
    /\ flags' = [flags EXCEPT !.active = FALSE]
    /\ Reader(LoopsTo)
    /\ UNCHANGED <<observed, prefix, capture>>

\* The descriptor is closed, or the helper is gone.
WriteFails ==
    /\ \/ reader = "sending" /\ (~sink.input \/ helper.exit # "none")
       \/ reader = "awaiting" /\ ~helper.ack /\ helper.exit # "none"
    /\ flags' = [flags EXCEPT !.active = FALSE, !.failed = TRUE]
    /\ Reader("ending")
    /\ UNCHANGED <<observed, prefix, capture>>

\* abort() closes the descriptor of the acknowledgement at the end of its budget.  Only a
\* reader that stalled between handing over a chunk and waiting for it finds it closed.
AcknowledgementMissed ==
    /\ reader = "awaiting" /\ ~sink.ack
    /\ flags' = [flags EXCEPT !.active = FALSE, !.failed = TRUE]
    /\ sink' = [sink EXCEPT !.missed = TRUE]
    /\ Reader("ending")
    /\ UNCHANGED <<observed, prefix, helper, staging>>

\* The finally clause: nobody else may use the capture from here on.
TakeBack ==
    /\ reader = "ending"
    /\ flags' = [flags EXCEPT !.revoked = TRUE, !.active = TRUE, !.output = FALSE]
    /\ Reader(IF flags.output THEN "closing" ELSE "done")
    /\ sink' = IF flags.output THEN [sink EXCEPT !.input = FALSE] ELSE sink
    /\ UNCHANGED <<observed, prefix, helper, staging>>

CloseSink ==
    /\ reader = "closing" /\ helper.exit # "none"
    /\ flags' = [flags EXCEPT !.failed = @ \/ (helper.exit = "bad" /\ ~sink.aborted)]
    /\ sink' = [sink EXCEPT !.ack = FALSE]
    /\ Reader("done")
    /\ UNCHANGED <<observed, prefix, helper, staging>>

\* close() gives up on the helper after CLEANUP_SECONDS.
CloseGivesUp ==
    /\ reader = "closing" /\ helper.exit = "none"
    /\ flags' = [flags EXCEPT !.failed = TRUE]
    /\ sink' = [sink EXCEPT !.input = FALSE, !.ack = FALSE, !.aborted = TRUE]
    /\ Reader("done")
    /\ UNCHANGED <<observed, prefix, helper, staging>>

WorkerStep ==
    \/ Observe \/ StreamEnds \/ Claim \/ Send \/ Acknowledged \/ Release
    \/ WriteFails \/ AcknowledgementMissed \/ TakeBack \/ CloseSink \/ CloseGivesUp

-----------------------------------------------------------------------------
(* The helper process.  It may be stuck at any point and for any time, also   *)
(* after it was killed, and it may die at any point.                          *)

Helper == helper.exit = "none" /\ UNCHANGED <<worker, sink, stage, stock, published>>

HelperWrites ==
    /\ Helper /\ helper.todo # <<>>
    /\ staging' = Append(staging, Head(helper.todo))
    /\ helper' = [helper EXCEPT !.todo = Tail(@)]

HelperAcknowledges ==
    /\ Helper /\ helper.todo = <<>> /\ reader = "awaiting" /\ ~helper.ack
    /\ helper' = [helper EXCEPT !.ack = TRUE]
    /\ UNCHANGED staging

HelperEnds ==
    /\ Helper /\ helper.todo = <<>> /\ ~sink.input
    /\ helper' = [helper EXCEPT !.exit = "good"]
    /\ UNCHANGED staging

HelperDies ==
    /\ Helper
    /\ helper' = [helper EXCEPT !.exit = "bad"]
    /\ UNCHANGED staging

HelperStep == HelperWrites \/ HelperAcknowledges \/ HelperEnds \/ HelperDies

-----------------------------------------------------------------------------
(* Cleanup of the capture, on the thread of run() *)

Thread(next) == stage' = next /\ UNCHANGED <<observed, prefix, reader, helper, staging, published>>

\* No cleanup is needed, or the reader was done when its time to drain was over ...
Settle ==
    /\ stage = "running" /\ reader = "done"
    /\ \E cleanup \in BOOLEAN : Thread(IF cleanup THEN "cancel" ELSE "count")
    /\ UNCHANGED <<flags, sink, stock>>

\* ... or it was not: request_capture_abort.
RequestAbort ==
    /\ stage = "running" /\ reader # "done"
    /\ flags' = [flags EXCEPT !.revoked = TRUE]
    /\ sink' = [sink EXCEPT !.input = FALSE, !.aborted = TRUE]
    /\ stock' = [stock EXCEPT !.forced = TRUE]
    /\ Thread("wait")

\* abort() waits for the helper's end as long as the budget allows.  It has nothing to
\* do if the helper had stopped before.
AbortReturns ==
    /\ stage = "wait"
    /\ \E kept \in BOOLEAN :
          /\ kept => helper.exit # "none"
          /\ sink' = [sink EXCEPT !.ack = @ /\ kept]
    /\ Thread("cancel")
    /\ UNCHANGED <<flags, stock>>

Cancel ==
    /\ stage = "cancel"
    /\ flags' = [flags EXCEPT !.cancelled = TRUE, !.revoked = TRUE]
    /\ sink' = IF flags.revoked /\ helper.exit # "none" THEN sink
               ELSE [sink EXCEPT !.input = FALSE, !.ack = FALSE, !.aborted = TRUE]
    /\ Thread("idle")
    /\ UNCHANGED stock

\* close_capture_if_idle.  An operation that is under way keeps the capture.
CloseIfIdle ==
    /\ stage = "idle"
    /\ IF flags.output /\ ~flags.active
       THEN /\ flags' = [flags EXCEPT !.output = FALSE,
                             !.failed = @ \/ helper.exit = "none"
                                          \/ (helper.exit = "bad" /\ ~sink.aborted)]
            /\ sink' = [sink EXCEPT !.input = FALSE, !.ack = FALSE]
       ELSE UNCHANGED <<flags, sink>>
    /\ Thread("count")
    /\ UNCHANGED stock

-----------------------------------------------------------------------------
(* _capture_result: three looks at a worker that may still run *)

\* Mutant: a revoked capture counts as closed.
BugStable == reader = "done" \/ flags.revoked

Stable == reader = "done" \/ (flags.revoked /\ ~flags.active /\ helper.exit # "none")
DurablePrefix == IF Stable THEN Len(staging) ELSE prefix

Complete == Stable /\ ~flags.failed /\ ~stock.forced /\ DurablePrefix = observed

Take(next, s) == stock' = s /\ Thread(next) /\ UNCHANGED <<flags, sink>>

CountObserved == stage = "count" /\ Take("measure", [stock EXCEPT !.observed = observed])
Measure == stage = "measure" /\ Take("judge", [stock EXCEPT !.prefix = DurablePrefix])
Judge == stage = "judge" /\ Take("publish", [stock EXCEPT !.complete = Complete, !.stable = Stable])

\* run() raises: the adapter knows nothing of the capture (adapter.py:323).
TakeNothing == stage = "running" /\ Take("publish", NothingTaken)

-----------------------------------------------------------------------------
(* evidence.py *)

Publish(kind, content, late) ==
    /\ published' = [kind |-> kind, content |-> content, truncated |-> ~stock.complete,
                     late |-> late]
    /\ stage' = "over"
    /\ UNCHANGED <<worker, capture, stock>>

TailStart == IF stock.observed > Kept THEN stock.observed - Kept ELSE 0
ObservedTail == Bytes(TailStart + 1, stock.observed)

\* What is missing after the first n bytes, if the tail has it all.
Covered(n) == TailStart <= n /\ n <= stock.observed
\* Mutant: the whole kept tail is appended.
BugMissing(n) == ObservedTail

Missing(n) == SubSeq(ObservedTail, n - TailStart + 1, Len(ObservedTail))

\* _complete_stable_capture: one chunk at most is appended to the staging file itself.
Complement ==
    /\ stage = "publish" /\ ~stock.complete /\ stock.stable /\ Covered(Len(staging))
    /\ staging' = staging \o Missing(Len(staging))
    /\ stage' = "promote"
    /\ UNCHANGED <<worker, sink, helper, stock, published>>

\* _promote_capture renames the staging file.
Promote ==
    /\ stage = "promote" \/ (stage = "publish" /\ stock.complete)
    /\ Publish("promoted", staging, FALSE)

\* The staging file of a writer that may be alive is copied as far as it was vouched for.
Copy ==
    /\ stage = "publish" /\ ~stock.complete /\ ~stock.stable
    /\ Covered(stock.prefix)
    /\ Publish("copied", SubSeq(staging, 1, stock.prefix) \o Missing(stock.prefix), FALSE)

\* The deadline passes during the copy, or bytes are missing: only the tail is left.
FallBack ==
    /\ stage = "publish" /\ ~stock.complete
    /\ \E late \in BOOLEAN :
          /\ IF stock.stable THEN ~late /\ ~Covered(Len(staging))
             ELSE late \/ ~Covered(stock.prefix)
          /\ Publish("fallback", ObservedTail, late)

-----------------------------------------------------------------------------

Init ==
    /\ observed = 0 /\ prefix = 0 /\ reader = "reading"
    /\ flags = [output |-> TRUE, active |-> FALSE, revoked |-> FALSE, cancelled |-> FALSE,
                failed |-> FALSE]
    /\ sink = [input |-> TRUE, ack |-> TRUE, aborted |-> FALSE, missed |-> FALSE]
    /\ helper = [exit |-> "none", todo |-> <<>>, ack |-> FALSE]
    /\ staging = <<>>
    /\ stage = "running" /\ stock = NothingTaken /\ published = NotPublished

Next ==
    \/ WorkerStep \/ HelperStep
    \/ Settle \/ RequestAbort \/ AbortReturns \/ Cancel \/ CloseIfIdle
    \/ CountObserved \/ Measure \/ Judge \/ TakeNothing
    \/ Complement \/ Promote \/ Copy \/ FallBack

Spec == Init /\ [][Next]_vars

-----------------------------------------------------------------------------
(* Properties *)

Contents == {Bytes(1, n) : n \in 0 .. MaxBytes}

\* The fields have their types, and the staging file is a gapless prefix of the stream.
TypeOK ==
    /\ observed \in 0 .. MaxBytes /\ prefix \in 0 .. MaxBytes
    /\ reader \in {"reading", "observed", "sending", "awaiting", "stored", "ending", "closing", "done"}
    /\ flags \in [output: BOOLEAN, active: BOOLEAN, revoked: BOOLEAN, cancelled: BOOLEAN,
                   failed: BOOLEAN]
    /\ sink \in [input: BOOLEAN, ack: BOOLEAN, aborted: BOOLEAN, missed: BOOLEAN]
    /\ helper.exit \in {"none", "good", "bad"} /\ helper.ack \in BOOLEAN
    /\ ~sink.missed => staging \in Contents
    /\ stage \in {"running", "wait", "cancel", "idle", "count", "measure", "judge", "publish",
                  "promote", "over"}
    /\ stock \in [complete: BOOLEAN, stable: BOOLEAN, prefix: 0 .. MaxBytes,
                   observed: 0 .. MaxBytes, forced: BOOLEAN]
    /\ published.kind \in {"none", "promoted", "copied", "fallback"}

\* A staging file becomes the artifact by a rename, so a writer that is still alive would
\* write into published evidence.  Nobody does, although helpers and readers may outlive
\* the run, unless the reader missed an acknowledgement: it ends then, and capture_stable
\* takes its end for that of its helper (process.py:793).
PublishedIsImmutable ==
    [][published.kind = "promoted" /\ ~sink.missed => UNCHANGED staging]_vars

\* What is published as the stream is the stream: what was counted as observed, from the
\* first byte on, in order, nothing twice and nothing left out at the seam between the
\* helper's file and the kept tail.
PublishedIsObserved ==
    published.kind \in {"promoted", "copied"} /\ ~sink.missed
    => published.content = Bytes(1, IF published.truncated THEN stock.observed ELSE observed)

\* An artifact that is not marked as truncated has all that was ever read of the pipe.
CompleteIsEverything ==
    published.kind # "none" /\ ~published.truncated
    => reader = "done" /\ published.content = Bytes(1, observed)

\* The beginning of the stream is only given up when the time for copying runs out.
OnlyLatenessLosesThePrefix == published.kind = "fallback" => published.late

\* The evidence of a stream says of itself what it is, whatever died, stalled or was cut off.
PublishedIsFaithful == PublishedIsObserved /\ CompleteIsEverything /\ OnlyLatenessLosesThePrefix
=============================================================================
