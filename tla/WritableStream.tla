--------------------------- MODULE WritableStream ---------------------------
(***************************************************************************)
(* A WritableStream with its default controller, its writers and its       *)
(* underlying sink (whatwg/streams/writable.js).  JavaScript runs to       *)
(* completion, so a call of the API or a reaction to a sink promise is one *)
(* action; size(), which the user supplies, runs other calls in the middle *)
(* of a write.  (So can listeners of the event that zero dispatches when a *)
(* promise is rejected without a handler: assumed not to use the stream.)  *)
(*                                                                         *)
(* The slots of the stream, of its controller and of its current writer    *)
(* are the fields of one record, and the abstract operations of the source *)
(* are functions from such records to records.                             *)
(*                                                                         *)
(* The objects kept for pending promises are made with the keys `_resolve',*)
(* `_reject', `_reason' and `_wasAlreadyErroring' (lines 196-201, 219-222, *)
(* 590-593) and read with the private symbols kResolve, kReject, kReason   *)
(* and kWasAlreadyErroring, so reading them gives undefined and calling    *)
(* what was read throws.  The field keysMatch is FALSE in this code; where *)
(* it is TRUE the record behaves as the same code with the keys agreeing,  *)
(* so that what lies behind the exceptions is checked, too.                *)
(***************************************************************************)
EXTENDS Naturals, Sequences, FiniteSets, SequencesExt

CONSTANTS
    Chunks,             \* what is written, each at most once (a bound)
    Sizes,              \* the finite sizes size() returns
    HighWaterMark,
    RequestKeysMatch,   \* the values of keysMatch that are looked at
    CloseRequest,       \* the promise of writer.close()
    AbortRequest,       \* the promise of abort()
    None                \* undefined

ASSUME WritableStreamAssumption ==
    /\ Sizes \subseteq Nat
    /\ HighWaterMark \in Nat
    /\ RequestKeysMatch \subseteq BOOLEAN
    /\ None \notin Chunks \cup {CloseRequest, AbortRequest}
    /\ CloseRequest \notin Chunks \cup {AbortRequest}
    /\ AbortRequest \notin Chunks

VARIABLE stream

Promises == Chunks \cup {CloseRequest, AbortRequest}
PromiseStates == {"none", "pending", "fulfilled", "rejected", "thrown"}
SinkCalls == {"start", "write", "close", "abort"}
\* The calls of assert() that the model evaluates, by what they demand.
Assertions == {"closed promise pending", "ready promise", "close requested", "close is last",
               "nothing in flight", "no stored error", "erroring", "not finished"}

(* The slots.  A chunk stands for its write request, too; the promises of a   *)
(* writer are kept for the current one (a released one's are rejected).       *)
Slots == [
    keysMatch : BOOLEAN,
    state : {"writable", "erroring", "errored", "closed"},
    storedError : BOOLEAN,          \* not undefined
    writer : BOOLEAN,               \* locked to a writer, whose promises are
    ready : {"pending", "fulfilled", "rejected"},
    closed : {"pending", "fulfilled", "rejected"},
    backpressure : BOOLEAN,
    started : BOOLEAN,
    queue : Seq([value : Chunks \cup {CloseRequest}, size : Nat]),
    writeRequests : Seq(Chunks),
    inFlightWriteRequest : Chunks \cup {None},
    closeRequest : BOOLEAN,
    inFlightCloseRequest : BOOLEAN,
    pendingAbortRequest : {"none", "made", "madeWhileErroring"},
    promise : [Promises -> PromiseStates],
    sinkCalls : SUBSET SinkCalls,   \* the calls of the sink that have not settled
    sinkLog : Seq(Promises),        \* history: its write, close and abort calls
    accepted : Seq(Chunks),         \* history: the writes that were not refused
    sizing : Chunks \cup {None},    \* write() is in size(),
    sizingWriter : BOOLEAN,         \* and its writer has not been released
    failed : SUBSET Assertions]     \* history: those that failed

TypeOK == stream \in Slots

(* The constructor has returned: start() was called and has not settled.      *)
NewStream(keysMatch) ==
    [   keysMatch |-> keysMatch, state |-> "writable", storedError |-> FALSE,
        writer |-> FALSE, ready |-> "rejected", closed |-> "rejected",
        backpressure |-> HighWaterMark = 0, started |-> FALSE,
        queue |-> <<>>, writeRequests |-> <<>>, inFlightWriteRequest |-> None,
        closeRequest |-> FALSE, inFlightCloseRequest |-> FALSE,
        pendingAbortRequest |-> "none",
        promise |-> [p \in Promises |-> "none"],
        sinkCalls |-> {"start"}, sinkLog |-> <<>>, accepted |-> <<>>,
        sizing |-> None, sizingWriter |-> FALSE, failed |-> {}]

Init == \E keysMatch \in RequestKeysMatch : stream = NewStream(keysMatch)

-----------------------------------------------------------------------------
(* Queries.                                                                   *)

QueueTotalSize(s) == FoldLeft(LAMBDA total, pair : total + pair.size, 0, s.queue)

GetBackpressure(s) == HighWaterMark <= QueueTotalSize(s)

CloseQueuedOrInFlight(s) == s.closeRequest \/ s.inFlightCloseRequest

HasOperationMarkedInFlight(s) ==
    s.inFlightWriteRequest # None \/ s.inFlightCloseRequest

Asserted(s, name, condition) ==
    IF condition THEN s ELSE [s EXCEPT !.failed = @ \cup {name}]

-----------------------------------------------------------------------------
(* The promises of the writer, if there is one.                               *)

InitialReadyPromise(s) ==
    CASE s.state \in {"erroring", "errored"} -> "rejected"
      [] s.state = "writable" /\ s.backpressure /\ ~CloseQueuedOrInFlight(s) -> "pending"
      [] OTHER -> "fulfilled"

InitialClosedPromise(s) ==
    CASE s.state = "errored" -> "rejected"
      [] s.state = "closed" -> "fulfilled"
      [] OTHER -> "pending"

\* The assertion fails when the promise was settled before.
ClosedPromiseReject(s) ==
    IF s.writer
    THEN [Asserted(s, "closed promise pending", s.closed = "pending")
             EXCEPT !.closed = "rejected"]
    ELSE s

ClosedPromiseResolve(s) ==
    IF s.writer
    THEN [Asserted(s, "closed promise pending", s.closed = "pending")
             EXCEPT !.closed = "fulfilled"]
    ELSE s

ReadyPromiseReset(s) ==
    [Asserted(s, "ready promise", s.ready # "pending") EXCEPT !.ready = "pending"]

ReadyPromiseResolve(s) ==
    [Asserted(s, "ready promise", s.ready = "pending") EXCEPT !.ready = "fulfilled"]

EnsureReadyPromiseRejected(s) == [s EXCEPT !.ready = "rejected"]

EnsureClosedPromiseRejected(s) == [s EXCEPT !.closed = "rejected"]

-----------------------------------------------------------------------------
(* Requests.                                                                  *)

AddWriteRequest(s, chunk) ==
    [s EXCEPT !.writeRequests = Append(@, chunk), !.promise[chunk] = "pending",
              !.accepted = Append(@, chunk)]

MarkFirstWriteRequestInFlight(s) ==
    [s EXCEPT !.inFlightWriteRequest = Head(s.writeRequests), !.writeRequests = Tail(@)]

MarkCloseRequestInFlight(s) ==
    [Asserted(s, "close requested", s.closeRequest)
        EXCEPT !.closeRequest = FALSE, !.inFlightCloseRequest = TRUE]

-----------------------------------------------------------------------------
(* Erroring.                                                                  *)

\* A mutant: the close request is dropped and its promise left pending.
DropCloseRequest(s) ==
    ClosedPromiseReject([s EXCEPT !.closeRequest = FALSE])

\* The close request's reject comes first, and throws when its key is missing.
\* The assertion that the writer's closed promise is pending comes last.
RejectCloseAndClosedPromiseIfNeeded(s) ==
    IF s.closeRequest /\ ~s.keysMatch THEN s
    ELSE ClosedPromiseReject(
            [s EXCEPT !.promise[CloseRequest] = IF s.closeRequest THEN "rejected" ELSE @,
                      !.closeRequest = FALSE])

\* The queue is reset, the write requests are rejected, and the sink's abort()
\* is called for an abort() that came before any other error.
FinishErroring(s) ==
    LET errored == [Asserted(s, "nothing in flight", ~HasOperationMarkedInFlight(s))
                       EXCEPT !.state = "errored", !.queue = <<>>]
        rejected == [errored EXCEPT
            !.writeRequests = <<>>,
            !.promise = [p \in Promises |->
                IF Contains(s.writeRequests, p) THEN "rejected" ELSE @[p]],
            !.pendingAbortRequest = "none"]
        threw == s.writeRequests # <<>> /\ ~s.keysMatch
    IN  CASE threw -> errored
          [] ~threw /\ s.pendingAbortRequest = "none" ->
                RejectCloseAndClosedPromiseIfNeeded(rejected)
          [] ~threw /\ s.pendingAbortRequest = "madeWhileErroring" /\ s.keysMatch ->
                RejectCloseAndClosedPromiseIfNeeded(
                    [rejected EXCEPT !.promise[AbortRequest] = "rejected"])
          [] OTHER ->
                [rejected EXCEPT !.sinkCalls = @ \cup {"abort"},
                                 !.sinkLog = Append(@, AbortRequest)]

\* FinishErroring ended with an exception, which its callers let through.
ErroringThrew(s) ==
    s.state = "errored" /\ (s.writeRequests # <<>> \/ s.closeRequest)

\* A mutant: what is in flight is not waited for.
StartErroringAtOnce(s) ==
    FinishErroring([s EXCEPT !.state = "erroring",
                             !.storedError = TRUE,
                             !.ready = "rejected"])

\* A mutant: finishing is always left to a reaction.
StartErroringOnly(s) ==
    [s EXCEPT !.state = "erroring", !.storedError = TRUE, !.ready = "rejected"]

StartErroring(s) ==
    LET erroring == EnsureReadyPromiseRejected(
            [Asserted(s, "no stored error", ~s.storedError)
                EXCEPT !.state = "erroring", !.storedError = TRUE])
    IN  IF s.started /\ ~HasOperationMarkedInFlight(s)
        THEN FinishErroring(erroring) ELSE erroring

DealWithRejection(s) ==
    IF s.state = "writable" THEN StartErroring(s)
    ELSE FinishErroring(Asserted(s, "erroring", s.state = "erroring"))

-----------------------------------------------------------------------------
(* The queue.                                                                 *)

\* A mutant: a writer's ready promise is not replaced.
UpdateSignalOnly(s) == [s EXCEPT !.backpressure = GetBackpressure(s)]

UpdateBackpressure(s) ==
    LET backpressure == GetBackpressure(s)
        updated == [s EXCEPT !.backpressure = backpressure]
    IN  CASE ~s.writer \/ backpressure = s.backpressure -> updated
          [] s.writer /\ backpressure /\ ~s.backpressure -> ReadyPromiseReset(updated)
          [] s.writer /\ ~backpressure /\ s.backpressure -> ReadyPromiseResolve(updated)

ProcessClose(s) ==
    [Asserted(MarkCloseRequestInFlight(s), "close is last", Len(s.queue) = 1)
        EXCEPT !.queue = Tail(@),
               !.sinkCalls = @ \cup {"close"},
               !.sinkLog = Append(@, CloseRequest)]

\* A mutant: the chunk leaves the queue when the sink gets it.
ProcessWriteDequeues(s) ==
    [MarkFirstWriteRequestInFlight(s)
        EXCEPT !.queue = Tail(@),
               !.sinkCalls = @ \cup {"write"},
               !.sinkLog = Append(@, Head(s.queue).value)]

\* A mutant: of the writes that wait, the last is handed to the sink.
ProcessWriteLast(s) ==
    [s EXCEPT !.inFlightWriteRequest = Last(s.writeRequests),
              !.writeRequests = Front(@),
              !.sinkCalls = @ \cup {"write"},
              !.sinkLog = Append(@, Last(s.writeRequests))]

\* The chunk stays in the queue until the sink's write() settles.
ProcessWrite(s) ==
    [MarkFirstWriteRequestInFlight(s)
        EXCEPT !.sinkCalls = @ \cup {"write"},
               !.sinkLog = Append(@, Head(s.queue).value)]

AdvanceQueueIfNeeded(s) ==
    LET idle == s.started /\ s.inFlightWriteRequest = None
        waits == idle /\ s.state = "writable" /\ s.queue # <<>>
    IN  CASE idle /\ s.state = "erroring" -> FinishErroring(s)
          [] waits /\ Head(s.queue).value = CloseRequest -> ProcessClose(s)
          [] waits /\ Head(s.queue).value # CloseRequest -> ProcessWrite(s)
          [] OTHER -> s

EnqueueValueWithSize(s, value, size) ==
    [s EXCEPT !.queue = Append(@, [value |-> value, size |-> size])]

ControllerClose(s) == AdvanceQueueIfNeeded(EnqueueValueWithSize(s, CloseRequest, 0))

-----------------------------------------------------------------------------
(* Writers, abort and write: what the program and the pipes call.             *)

AcquireWriter(s) ==
    [s EXCEPT !.writer = TRUE,
              !.ready = InitialReadyPromise(s),
              !.closed = InitialClosedPromise(s)]

ReleaseWriter(s) ==
    [EnsureClosedPromiseRejected(EnsureReadyPromiseRejected(s))
        EXCEPT !.writer = FALSE, !.sizingWriter = FALSE]

\* A second abort() shares the promise of the first.
AbortStream(s) ==
    LET requested(how) == [s EXCEPT !.pendingAbortRequest = how,
                                    !.promise[AbortRequest] = "pending"]
        first == s.pendingAbortRequest = "none"
    IN  CASE first /\ s.state = "erroring" -> requested("madeWhileErroring")
          [] first /\ s.state = "writable" -> StartErroring(requested("made"))
          [] OTHER -> s

CloseStream(s) ==
    LET requested == [s EXCEPT !.closeRequest = TRUE, !.promise[CloseRequest] = "pending"]
    IN  ControllerClose(IF s.backpressure /\ s.state = "writable"
                        THEN ReadyPromiseResolve(requested) ELSE requested)

ErrorIfNeeded(s) == IF s.state = "writable" THEN StartErroring(s) ELSE s

Sizing(s, chunk) == [s EXCEPT !.sizing = chunk, !.sizingWriter = TRUE]

\* The rest of write(), once size() has returned `size', in Sizes or not a
\* finite and non-negative number.
WriteSized(s, size) ==
    LET chunk == s.sizing
        returned == [s EXCEPT !.sizing = None, !.sizingWriter = FALSE]
        refused == \/ ~s.sizingWriter
                   \/ s.state # "writable"
                   \/ CloseQueuedOrInFlight(s)
        requested == AddWriteRequest(returned, chunk)
    IN  CASE refused -> [returned EXCEPT !.promise[chunk] = "rejected"]
          [] ~refused /\ size \notin Sizes -> StartErroring(requested)
          [] OTHER -> AdvanceQueueIfNeeded(UpdateBackpressure(
                          EnqueueValueWithSize(requested, chunk, size)))

\* The same once size() has thrown: that errors the stream, and the write goes on
\* with size 1.
SizeThrew(s) ==
    LET errored == ErrorIfNeeded(s)
    IN  IF s.state = "writable" /\ ErroringThrew(errored)
        THEN [errored EXCEPT !.sizing = None,
                             !.sizingWriter = FALSE,
                             !.promise[s.sizing] = "thrown"]
        ELSE WriteSized(errored, 1)

-----------------------------------------------------------------------------
(* The reactions to the promises of the sink.  Where a key is missing the     *)
(* reaction throws before it changes anything.                                *)

Settled(s, call) == [s EXCEPT !.sinkCalls = @ \ {call}]

MarkStarted(s) ==
    [Asserted(Settled(s, "start"), "not finished", s.state \in {"writable", "erroring"})
        EXCEPT !.started = TRUE]

FinishStart(s) == AdvanceQueueIfNeeded(MarkStarted(s))

FailStart(s) == DealWithRejection(MarkStarted(s))

FinishInFlightWrite(s) ==
    LET finished == [Settled(s, "write") EXCEPT
            !.promise[s.inFlightWriteRequest] = "fulfilled",
            !.inFlightWriteRequest = None,
            !.queue = Tail(@)]
        updated == IF finished.state = "writable" /\ ~CloseQueuedOrInFlight(finished)
                   THEN UpdateBackpressure(finished) ELSE finished
    IN  IF s.keysMatch THEN AdvanceQueueIfNeeded(updated) ELSE Settled(s, "write")

FinishInFlightWriteWithError(s) ==
    IF s.keysMatch
    THEN DealWithRejection([Settled(s, "write") EXCEPT
            !.promise[s.inFlightWriteRequest] = "rejected",
            !.inFlightWriteRequest = None])
    ELSE Settled(s, "write")

\* An error that came while close() was in flight came too late.
FinishInFlightClose(s) ==
    LET aborted == s.pendingAbortRequest # "none"
        finished == [Settled(s, "close") EXCEPT
            !.promise[CloseRequest] = "fulfilled",
            !.promise[AbortRequest] = IF aborted THEN "fulfilled" ELSE @,
            !.inFlightCloseRequest = FALSE,
            !.storedError = FALSE,
            !.pendingAbortRequest = "none",
            !.state = "closed"]
    IN  IF s.keysMatch THEN ClosedPromiseResolve(finished) ELSE Settled(s, "close")

FinishInFlightCloseWithError(s) ==
    LET aborted == s.pendingAbortRequest # "none"
    IN  IF s.keysMatch
        THEN DealWithRejection([Settled(s, "close") EXCEPT
                !.promise[CloseRequest] = "rejected",
                !.promise[AbortRequest] = IF aborted THEN "rejected" ELSE @,
                !.inFlightCloseRequest = FALSE,
                !.pendingAbortRequest = "none"])
        ELSE Settled(s, "close")

FinishAbort(s, outcome) ==
    IF s.keysMatch
    THEN RejectCloseAndClosedPromiseIfNeeded(
            [Settled(s, "abort") EXCEPT !.promise[AbortRequest] = outcome])
    ELSE Settled(s, "abort")

-----------------------------------------------------------------------------
(* The program's calls.  A call that only returns a settled promise is left   *)
(* out.                                                                       *)

GetWriter ==
    /\ ~stream.writer
    /\ stream' = AcquireWriter(stream)

ReleaseLock ==
    /\ stream.writer
    /\ stream' = ReleaseWriter(stream)

\* writer.abort(), or abort() of an unlocked stream.
Abort ==
    /\ AbortStream(stream) # stream
    /\ stream' = AbortStream(stream)

Close ==
    /\ stream.writer
    /\ ~CloseQueuedOrInFlight(stream)
    /\ stream.state \in {"writable", "erroring"}
    /\ stream' = CloseStream(stream)

\* controller.error()
ControllerError ==
    /\ stream.state = "writable"
    /\ stream' = StartErroring(stream)

\* write() calls size(), which may make any other call before it returns;
\* write() itself is not nested (a bound).
Write(chunk) ==
    /\ stream.writer
    /\ stream.sizing = None
    /\ stream.promise[chunk] = "none"
    /\ stream' = Sizing(stream, chunk)

SizeReturns ==
    /\ stream.sizing # None
    /\ \E size \in Sizes \cup {None} : stream' = WriteSized(stream, size)

SizeThrows ==
    /\ stream.sizing # None
    /\ stream' = SizeThrew(stream)

-----------------------------------------------------------------------------
(* The sink's promises settle: no JavaScript is on the stack.                 *)

Reaction(call) == stream.sizing = None /\ call \in stream.sinkCalls

StartSettles ==
    /\ Reaction("start")
    /\ stream' \in {FinishStart(stream), FailStart(stream)}

WriteSettles ==
    /\ Reaction("write")
    /\ stream' \in {FinishInFlightWrite(stream), FinishInFlightWriteWithError(stream)}

CloseSettles ==
    /\ Reaction("close")
    /\ stream' \in {FinishInFlightClose(stream), FinishInFlightCloseWithError(stream)}

AbortSettles ==
    /\ Reaction("abort")
    /\ \E outcome \in {"fulfilled", "rejected"} : stream' = FinishAbort(stream, outcome)

-----------------------------------------------------------------------------

SinkSettles ==
    \/ StartSettles
    \/ WriteSettles
    \/ CloseSettles
    \/ AbortSettles

Next ==
    \/ GetWriter
    \/ ReleaseLock
    \/ Abort
    \/ Close
    \/ ControllerError
    \/ \E chunk \in Chunks : Write(chunk)
    \/ SizeReturns
    \/ SizeThrows
    \/ SinkSettles

(* size() returns, and the sink's promises settle: without that no stream     *)
(* can promise progress.  Nothing obliges the program to make a call.         *)
Fairness ==
    /\ WF_stream(SizeReturns \/ SizeThrows)
    /\ WF_stream(SinkSettles)

SafeSpec == Init /\ [][Next]_stream

Spec == SafeSpec /\ Fairness

-----------------------------------------------------------------------------
(* Correctness.                                                               *)

Values(queue) == [i \in DOMAIN queue |-> queue[i].value]

\* While the stream is writable the controller's queue and the stream's
\* requests are two views of one sequence: the write in flight, the writes
\* that wait, the close that waits.  A promise is thus settled for the chunk
\* the sink got, although the two are kept and advanced apart.
QueueMatchesRequests ==
    stream.state = "writable" =>
        Values(stream.queue) =
            (IF stream.inFlightWriteRequest = None THEN <<>>
             ELSE <<stream.inFlightWriteRequest>>)
            \o stream.writeRequests
            \o (IF stream.closeRequest THEN <<CloseRequest>> ELSE <<>>)

\* The writer's ready promise tells the truth about the queue, whichever
\* writer it is and whatever calls size() made: pending exactly when the
\* queue has reached the high water mark, until a close is requested.
ReadyTellsBackpressure ==
    stream.writer /\ stream.state = "writable" /\ ~CloseQueuedOrInFlight(stream) =>
        (stream.ready = "pending") = GetBackpressure(stream)

\* The sink is called as the program's author is told: one call at a time, each
\* chunk once and in the order of the writes that were accepted, none of which is
\* passed over, and close() or abort() once, as the last call.
SinkProtocol ==
    /\ Cardinality(stream.sinkCalls) <= 1
    /\ \A i \in DOMAIN stream.sinkLog :
          stream.sinkLog[i] \in {CloseRequest, AbortRequest} =>
              /\ i = Len(stream.sinkLog)
              /\ "write" \notin stream.sinkCalls
    /\ \A i, j \in DOMAIN stream.sinkLog :
          stream.sinkLog[i] = stream.sinkLog[j] => i = j
    /\ \A i \in DOMAIN stream.sinkLog : stream.sinkLog[i] \in Chunks =>
          i \in DOMAIN stream.accepted /\ stream.sinkLog[i] = stream.accepted[i]

\* Where the keys agree nothing is forgotten: what will settle a pending promise
\* still holds it, and the stream is "erroring" only while there is something
\* whose end will finish it: start(), a write or a close in flight.
NothingForgotten ==
    stream.keysMatch =>
    /\ \A chunk \in Chunks : stream.promise[chunk] = "pending" =>
          \/ Contains(stream.writeRequests, chunk)
          \/ stream.inFlightWriteRequest = chunk
    /\ stream.promise[CloseRequest] = "pending" => CloseQueuedOrInFlight(stream)
    /\ stream.promise[AbortRequest] = "pending" =>
          \/ stream.pendingAbortRequest # "none"
          \/ "abort" \in stream.sinkCalls
    /\ stream.state = "erroring" =>
          ~stream.started \/ HasOperationMarkedInFlight(stream)

\* Every assertion of writable.js holds whenever it is evaluated, whatever size()
\* and the sink do.  With the keys made to agree there is one exception: a
\* writer acquired while the sink's abort() runs has a rejected closed promise,
\* and the assertion that it is pending fails when abort() settles.
AssertionsHold ==
    stream.failed \subseteq (IF stream.keysMatch THEN {"closed promise pending"} ELSE {})

\* Every promise that write(), close() and abort() returned settles, where the
\* keys agree.
RequestsSettle ==
    \A p \in Promises :
        stream.keysMatch /\ stream.promise[p] = "pending" ~> stream.promise[p] # "pending"

\* Once the sink's abort() has run, the closed promise of the writer is no
\* longer pending (the comment at lines 671-672).
ClosedRejectedAfterAbort ==
    /\ stream.writer
    /\ Contains(stream.sinkLog, AbortRequest)
    /\ "abort" \notin stream.sinkCalls
    => stream.closed = "rejected"
=============================================================================
