------------------------ MODULE TransformStreamProofs ------------------------
(***************************************************************************)
(* Proofs about TransformStream.                                           *)
(*                                                                         *)
(* What is proved of a readable and of a writable stream is used for the   *)
(* two sides, as RP and WP.  TransformInvariant ties them: which promise   *)
(* of the sink is unsettled as the writable side says; that the algorithms *)
(* are cleared only once the writable side closes or fails; which side has *)
(* ended before the other; and where the promise of the last pull() is as  *)
(* backpressure says.  It is followed through the middle of an action: the *)
(* operations of TransformStream work on a record of the three variables   *)
(* and of whether an exception is passing through them.                    *)
(***************************************************************************)
EXTENDS TransformStream, TLAPS

RP == INSTANCE ReadableStreamProofs WITH
        stream <- readable, Chunks <- Chunks \cup Outputs,
        HighWaterMark <- ReadableHighWaterMark
WP == INSTANCE WritableStreamProofs WITH
        stream <- writable, Sizes <- WritableSizes, HighWaterMark <- WritableHighWaterMark

\* The sides are streams.
LEMMA SidesAssumption ==
    RP!ReadableStreamAssumption /\ WP!WritableStreamAssumption
BY TransformStreamAssumption DEF RP!ReadableStreamAssumption, WP!WritableStreamAssumption

-----------------------------------------------------------------------------
(* The operations that R and RP, and W and WP, name are the same.             *)

LEMMA SameReadable ==
    /\ R!Slots = RP!Slots /\ R!Assertions = RP!Assertions /\ R!Reads = RP!Reads
BY DEF R!Slots, RP!Slots, R!Assertions, RP!Assertions, R!Reads, RP!Reads

LEMMA SameQueries ==
    ASSUME NEW s
    PROVE  /\ R!QueueTotalSize(s) = RP!QueueTotalSize(s)
           /\ R!CanCloseOrEnqueue(s) <=> RP!CanCloseOrEnqueue(s)
           /\ R!ShouldCallPull(s) <=> RP!ShouldCallPull(s)
           /\ R!EnqueueThrows(s) <=> RP!EnqueueThrows(s)
<1>1. R!QueueTotalSize(s) = RP!QueueTotalSize(s)
      BY DEF R!QueueTotalSize, RP!QueueTotalSize, R!FoldLeft, RP!FoldLeft,
             R!MapThenFoldSet, RP!MapThenFoldSet, R!Max, RP!Max
<1>2. R!CanCloseOrEnqueue(s) <=> RP!CanCloseOrEnqueue(s)
      BY DEF R!CanCloseOrEnqueue, RP!CanCloseOrEnqueue
<1>3. R!ShouldCallPull(s) <=> RP!ShouldCallPull(s)
      BY <1>1, <1>2 DEF R!ShouldCallPull, RP!ShouldCallPull, R!HasRoom, RP!HasRoom
<1> QED BY <1>1, <1>2, <1>3 DEF R!EnqueueThrows, RP!EnqueueThrows

LEMMA SamePull ==
    ASSUME NEW s
    PROVE  R!CallPullIfNeeded(s) = RP!CallPullIfNeeded(s)
BY SameQueries DEF R!CallPullIfNeeded, RP!CallPullIfNeeded, R!Asserted, RP!Asserted

LEMMA SameEnds ==
    ASSUME NEW s
    PROVE  /\ R!CloseStream(s) = RP!CloseStream(s)
           /\ R!ControllerError(s) = RP!ControllerError(s)
           /\ R!ControllerClose(s) = RP!ControllerClose(s)
           /\ R!Cancel(s) = RP!Cancel(s)
<1>1. ASSUME NEW t
      PROVE  R!CloseStream(t) = RP!CloseStream(t)
      BY DEF R!CloseStream, RP!CloseStream, R!ClosedPromiseResolve, RP!ClosedPromiseResolve,
             R!Asserted, RP!Asserted, R!Reads, RP!Reads, R!Contains, RP!Contains
<1>2. ASSUME NEW t
      PROVE  R!ErrorStream(t) = RP!ErrorStream(t)
      BY DEF R!ErrorStream, RP!ErrorStream, R!ClosedPromiseReject, RP!ClosedPromiseReject,
             R!Asserted, RP!Asserted, R!Reads, RP!Reads, R!Contains, RP!Contains
<1>3. R!ControllerError(s) = RP!ControllerError(s)
      BY <1>2 DEF R!ControllerError, RP!ControllerError
<1>4. R!ControllerClose(s) = RP!ControllerClose(s)
      BY <1>1 DEF R!ControllerClose, RP!ControllerClose
<1> QED BY <1>1, <1>3, <1>4 DEF R!Cancel, RP!Cancel

LEMMA SameReader ==
    ASSUME NEW s
    PROVE  /\ R!AcquireReader(s) = RP!AcquireReader(s)
           /\ R!CanRead(s) <=> RP!CanRead(s)
           /\ R!NextRead(s) = RP!NextRead(s)
           /\ R!Read(s) = RP!Read(s)
<1>1. R!NextRead(s) = RP!NextRead(s)
      BY DEF R!NextRead, RP!NextRead, R!Reads, RP!Reads
<1>2. R!AcquireReader(s) = RP!AcquireReader(s)
      BY DEF R!AcquireReader, RP!AcquireReader, R!InitialClosedPromise, RP!InitialClosedPromise
<1>3. R!CanRead(s) <=> RP!CanRead(s)
      BY DEF R!CanRead, RP!CanRead, R!Reads, RP!Reads
<1>4. ASSUME NEW i
      PROVE  R!PullSteps(s, i) = RP!PullSteps(s, i)
      BY SamePull, SameEnds DEF R!PullSteps, RP!PullSteps
<1>5. R!Read(s) = RP!Read(s)
      BY <1>1, <1>4 DEF R!Read, RP!Read
<1> QED BY <1>1, <1>2, <1>3, <1>5

LEMMA SameSource ==
    ASSUME NEW s
    PROVE  /\ \A chunk, size : R!Enqueue(s, chunk, size) = RP!Enqueue(s, chunk, size)
           /\ R!FinishStart(s) = RP!FinishStart(s) /\ R!FailStart(s) = RP!FailStart(s)
           /\ R!FinishPull(s) = RP!FinishPull(s)
           /\ \A call : R!Settled(s, call) = RP!Settled(s, call)
           /\ \A keysMatch : R!NewStream(keysMatch) = RP!NewStream(keysMatch)
<1>1. ASSUME NEW chunk, NEW size
      PROVE  R!Enqueue(s, chunk, size) = RP!Enqueue(s, chunk, size)
      BY SamePull DEF R!Enqueue, RP!Enqueue, R!EnqueueSized, RP!EnqueueSized,
         R!EnqueueToRequest, RP!EnqueueToRequest, R!FulfillReadRequest, RP!FulfillReadRequest,
         R!EnqueueThrows, RP!EnqueueThrows
<1>2. R!FinishStart(s) = RP!FinishStart(s)
      BY SamePull DEF R!FinishStart, RP!FinishStart, R!Settled, RP!Settled, R!Asserted, RP!Asserted
<1>3. R!FinishPull(s) = RP!FinishPull(s)
      BY SamePull DEF R!FinishPull, RP!FinishPull, R!Settled, RP!Settled
<1>4. R!FailStart(s) = RP!FailStart(s)
      BY SameEnds DEF R!FailStart, RP!FailStart, R!Settled, RP!Settled
<1>5. \A keysMatch : R!NewStream(keysMatch) = RP!NewStream(keysMatch)
      BY DEF R!NewStream, RP!NewStream, R!Reads, RP!Reads
<1> QED BY <1>1, <1>2, <1>3, <1>4, <1>5 DEF R!Settled, RP!Settled

LEMMA SameWritable ==
    /\ W!Slots = WP!Slots /\ W!Assertions = WP!Assertions /\ W!SinkCalls = WP!SinkCalls
    /\ W!Promises = WP!Promises
BY DEF W!Slots, WP!Slots, W!Assertions, WP!Assertions, W!SinkCalls, WP!SinkCalls,
       W!Promises, WP!Promises, W!PromiseStates, WP!PromiseStates

LEMMA SamePromises ==
    ASSUME NEW s
    PROVE  /\ \A name, condition : W!Asserted(s, name, condition) = WP!Asserted(s, name, condition)
           /\ W!ClosedPromiseReject(s) = WP!ClosedPromiseReject(s)
           /\ W!ClosedPromiseResolve(s) = WP!ClosedPromiseResolve(s)
           /\ W!ReadyPromiseReset(s) = WP!ReadyPromiseReset(s)
           /\ W!ReadyPromiseResolve(s) = WP!ReadyPromiseResolve(s)
           /\ W!CloseQueuedOrInFlight(s) <=> WP!CloseQueuedOrInFlight(s)
           /\ W!HasOperationMarkedInFlight(s) <=> WP!HasOperationMarkedInFlight(s)
           /\ \A call : W!Settled(s, call) = WP!Settled(s, call)
           /\ W!AcquireWriter(s) = WP!AcquireWriter(s)
           /\ \A chunk : W!Sizing(s, chunk) = WP!Sizing(s, chunk)
<1>1. W!CloseQueuedOrInFlight(s) <=> WP!CloseQueuedOrInFlight(s)
      BY DEF W!CloseQueuedOrInFlight, WP!CloseQueuedOrInFlight
<1>2. W!AcquireWriter(s) = WP!AcquireWriter(s)
      BY <1>1 DEF W!AcquireWriter, WP!AcquireWriter, W!InitialReadyPromise, WP!InitialReadyPromise,
         W!InitialClosedPromise, WP!InitialClosedPromise
<1>3. /\ W!ReadyPromiseReset(s) = WP!ReadyPromiseReset(s)
      /\ W!ReadyPromiseResolve(s) = WP!ReadyPromiseResolve(s)
      BY DEF W!ReadyPromiseReset, WP!ReadyPromiseReset, W!ReadyPromiseResolve,
             WP!ReadyPromiseResolve, W!Asserted, WP!Asserted
<1>4. /\ W!ClosedPromiseReject(s) = WP!ClosedPromiseReject(s)
      /\ W!ClosedPromiseResolve(s) = WP!ClosedPromiseResolve(s)
      BY DEF W!ClosedPromiseReject, WP!ClosedPromiseReject, W!ClosedPromiseResolve,
             WP!ClosedPromiseResolve, W!Asserted, WP!Asserted
<1>5. /\ W!HasOperationMarkedInFlight(s) <=> WP!HasOperationMarkedInFlight(s)
      /\ \A name, condition : W!Asserted(s, name, condition) = WP!Asserted(s, name, condition)
      /\ \A call : W!Settled(s, call) = WP!Settled(s, call)
      /\ \A chunk : W!Sizing(s, chunk) = WP!Sizing(s, chunk)
      BY DEF W!HasOperationMarkedInFlight, WP!HasOperationMarkedInFlight, W!Asserted, WP!Asserted,
             W!Settled, WP!Settled, W!Sizing, WP!Sizing
<1> QED BY <1>1, <1>2, <1>3, <1>4, <1>5

LEMMA SameErroring ==
    ASSUME NEW s
    PROVE  /\ W!RejectCloseAndClosedPromiseIfNeeded(s) = WP!RejectCloseAndClosedPromiseIfNeeded(s)
           /\ W!FinishErroring(s) = WP!FinishErroring(s)
           /\ W!StartErroring(s) = WP!StartErroring(s)
           /\ W!DealWithRejection(s) = WP!DealWithRejection(s)
           /\ W!ErrorIfNeeded(s) = WP!ErrorIfNeeded(s)
<1>1. ASSUME NEW t
      PROVE  W!RejectCloseAndClosedPromiseIfNeeded(t) = WP!RejectCloseAndClosedPromiseIfNeeded(t)
      BY SamePromises DEF W!RejectCloseAndClosedPromiseIfNeeded,
         WP!RejectCloseAndClosedPromiseIfNeeded
<1>2. ASSUME NEW t
      PROVE  W!FinishErroring(t) = WP!FinishErroring(t)
      BY <1>1, SamePromises, SameWritable DEF W!FinishErroring, WP!FinishErroring,
         W!Contains, WP!Contains
<1>3. ASSUME NEW t
      PROVE  W!StartErroring(t) = WP!StartErroring(t)
      BY <1>2, SamePromises DEF W!StartErroring, WP!StartErroring,
         W!EnsureReadyPromiseRejected, WP!EnsureReadyPromiseRejected
<1>4. W!DealWithRejection(s) = WP!DealWithRejection(s)
      BY <1>2, <1>3, SamePromises DEF W!DealWithRejection, WP!DealWithRejection
<1> QED BY <1>1, <1>2, <1>3, <1>4 DEF W!ErrorIfNeeded, WP!ErrorIfNeeded

LEMMA SameQueue ==
    ASSUME NEW s
    PROVE  /\ W!GetBackpressure(s) <=> WP!GetBackpressure(s)
           /\ W!UpdateBackpressure(s) = WP!UpdateBackpressure(s)
           /\ W!AdvanceQueueIfNeeded(s) = WP!AdvanceQueueIfNeeded(s)
           /\ \A value, size :
                 W!EnqueueValueWithSize(s, value, size) = WP!EnqueueValueWithSize(s, value, size)
<1>1. W!QueueTotalSize(s) = WP!QueueTotalSize(s)
      BY DEF W!QueueTotalSize, WP!QueueTotalSize, W!FoldLeft, WP!FoldLeft,
             W!MapThenFoldSet, WP!MapThenFoldSet, W!Max, WP!Max
<1>2. W!GetBackpressure(s) = WP!GetBackpressure(s)
      BY <1>1 DEF W!GetBackpressure, WP!GetBackpressure
<1>3. W!UpdateBackpressure(s) = WP!UpdateBackpressure(s)
      BY <1>2, SamePromises DEF W!UpdateBackpressure, WP!UpdateBackpressure
<1>4. W!ProcessClose(s) = WP!ProcessClose(s)
  <2>1. W!MarkCloseRequestInFlight(s) = WP!MarkCloseRequestInFlight(s)
        BY DEF W!MarkCloseRequestInFlight, WP!MarkCloseRequestInFlight, W!Asserted, WP!Asserted
  <2> QED BY <2>1 DEF W!ProcessClose, WP!ProcessClose, W!Asserted, WP!Asserted
<1>5. W!ProcessWrite(s) = WP!ProcessWrite(s)
      BY DEF W!ProcessWrite, WP!ProcessWrite, W!MarkFirstWriteRequestInFlight,
         WP!MarkFirstWriteRequestInFlight
<1>6. W!AdvanceQueueIfNeeded(s) = WP!AdvanceQueueIfNeeded(s)
      BY <1>4, <1>5, SameErroring DEF W!AdvanceQueueIfNeeded, WP!AdvanceQueueIfNeeded
<1> QED BY <1>2, <1>3, <1>6 DEF W!EnqueueValueWithSize, WP!EnqueueValueWithSize

LEMMA SameWriter ==
    ASSUME NEW s
    PROVE  /\ W!AbortStream(s) = WP!AbortStream(s)
           /\ W!CloseStream(s) = WP!CloseStream(s)
           /\ \A size : W!WriteSized(s, size) = WP!WriteSized(s, size)
           /\ W!SizeThrew(s) = WP!SizeThrew(s)
<1>1. W!AbortStream(s) = WP!AbortStream(s)
      BY SameErroring DEF W!AbortStream, WP!AbortStream
<1>2. W!CloseStream(s) = WP!CloseStream(s)
      BY SamePromises, SameQueue DEF W!CloseStream, WP!CloseStream,
         W!ControllerClose, WP!ControllerClose
<1>3. ASSUME NEW t, NEW size
      PROVE  W!WriteSized(t, size) = WP!WriteSized(t, size)
      BY SamePromises, SameErroring, SameQueue DEF W!WriteSized, WP!WriteSized,
         W!AddWriteRequest, WP!AddWriteRequest
<1>4. W!SizeThrew(s) = WP!SizeThrew(s)
  <2> DEFINE a == W!ErrorIfNeeded(s)
             b == WP!ErrorIfNeeded(s)
             w == W!WriteSized(a, 1)
             v == WP!WriteSized(a, 1)
  <2>1. a = b /\ w = v
        BY <1>3, SameErroring
  <2>2. W!SizeThrew(s) = IF s.state = "writable" /\ a.state = "errored"
                            /\ (a.writeRequests # <<>> \/ a.closeRequest)
                         THEN [a EXCEPT !.sizing = None, !.sizingWriter = FALSE,
                                        !.promise[s.sizing] = "thrown"]
                         ELSE w
    <3> HIDE DEF w
    <3> QED BY DEF W!SizeThrew, W!ErroringThrew, w
  <2>3. WP!SizeThrew(s) = IF s.state = "writable" /\ b.state = "errored"
                             /\ (b.writeRequests # <<>> \/ b.closeRequest)
                          THEN [b EXCEPT !.sizing = None, !.sizingWriter = FALSE,
                                         !.promise[s.sizing] = "thrown"]
                          ELSE WP!WriteSized(b, 1)
        BY DEF WP!SizeThrew, WP!ErroringThrew
  <2> HIDE DEF a, b, w, v
  <2>4. WP!SizeThrew(s) = IF s.state = "writable" /\ a.state = "errored"
                             /\ (a.writeRequests # <<>> \/ a.closeRequest)
                          THEN [a EXCEPT !.sizing = None, !.sizingWriter = FALSE,
                                         !.promise[s.sizing] = "thrown"]
                          ELSE v
        BY <2>1, <2>3 DEF v
  <2> QED BY <2>1, <2>2, <2>4
<1> QED BY <1>1, <1>2, <1>3, <1>4

LEMMA SameSink ==
    ASSUME NEW s
    PROVE  /\ W!FinishStart(s) = WP!FinishStart(s) /\ W!FailStart(s) = WP!FailStart(s)
           /\ W!FinishInFlightWrite(s) = WP!FinishInFlightWrite(s)
           /\ W!FinishInFlightWriteWithError(s) = WP!FinishInFlightWriteWithError(s)
           /\ W!FinishInFlightClose(s) = WP!FinishInFlightClose(s)
           /\ W!FinishInFlightCloseWithError(s) = WP!FinishInFlightCloseWithError(s)
           /\ \A outcome : W!FinishAbort(s, outcome) = WP!FinishAbort(s, outcome)
           /\ \A keysMatch : W!NewStream(keysMatch) = WP!NewStream(keysMatch)
           /\ W!AssertionsHold <=> WP!AssertionsHold
<1>1. W!FinishStart(s) = WP!FinishStart(s) /\ W!FailStart(s) = WP!FailStart(s)
  <2>1. W!MarkStarted(s) = WP!MarkStarted(s)
        BY SamePromises DEF W!MarkStarted, WP!MarkStarted
  <2> QED BY <2>1, SameErroring, SameQueue DEF W!FinishStart, WP!FinishStart, W!FailStart, WP!FailStart
<1>2. W!FinishInFlightWrite(s) = WP!FinishInFlightWrite(s)
      BY SamePromises, SameQueue DEF W!FinishInFlightWrite, WP!FinishInFlightWrite
<1>3. W!FinishInFlightWriteWithError(s) = WP!FinishInFlightWriteWithError(s)
      BY SamePromises, SameErroring DEF W!FinishInFlightWriteWithError, WP!FinishInFlightWriteWithError
<1>4. W!FinishInFlightClose(s) = WP!FinishInFlightClose(s)
      BY SamePromises DEF W!FinishInFlightClose, WP!FinishInFlightClose
<1>5. W!FinishInFlightCloseWithError(s) = WP!FinishInFlightCloseWithError(s)
      BY SamePromises, SameErroring DEF W!FinishInFlightCloseWithError, WP!FinishInFlightCloseWithError
<1>6. \A outcome : W!FinishAbort(s, outcome) = WP!FinishAbort(s, outcome)
      BY SamePromises, SameErroring DEF W!FinishAbort, WP!FinishAbort
<1>7. \A keysMatch : W!NewStream(keysMatch) = WP!NewStream(keysMatch)
      BY SameWritable DEF W!NewStream, WP!NewStream
<1>8. W!AssertionsHold <=> WP!AssertionsHold
      BY DEF W!AssertionsHold, WP!AssertionsHold
<1> QED BY <1>1, <1>2, <1>3, <1>4, <1>5, <1>6, <1>7, <1>8

-----------------------------------------------------------------------------
(* The readable side: what an operation leaves and what it asks of pull().    *)

Open(s) == RP!CanCloseOrEnqueue(s)

Needs(s) == RP!ShouldCallPull(s)

\* r is s after an operation that ends it, and after one that does not.
Ended(s, r) == RP!Becomes(s, r) /\ RP!Silent(s, r) /\ ~Open(r) /\ RP!Waits(r)

Carries(s, r) == RP!Becomes(s, r) /\ RP!Beside(s, r)

LEMMA ReadableFails ==
    ASSUME NEW s, RP!Sound(s), RP!Waits(s)
    PROVE  LET r == R!ControllerError(s)
           IN  Ended(s, r) /\ r.cancelled = s.cancelled
<1> USE SidesAssumption
<1>1. s \in RP!Slots
      BY DEF RP!Sound
<1>2. LET r == RP!ControllerError(s)
      IN  /\ RP!Silent(s, r) /\ ~RP!CanCloseOrEnqueue(r) /\ RP!Waits(r)
          /\ r.cancelled = s.cancelled
      BY <1>1, RP!ErrorSilent
<1>3. RP!Becomes(s, RP!ControllerError(s))
      BY RP!ControllerErrorSound
<1> QED BY <1>2, <1>3, SameEnds DEF Ended, Open

LEMMA ReadableCancels ==
    ASSUME NEW s, RP!Sound(s), s.state = "readable"
    PROVE  Ended(s, R!Cancel(s))
<1> USE SidesAssumption
<1>1. s \in RP!Slots
      BY DEF RP!Sound
<1>2. LET r == RP!Cancel(s)
      IN  RP!Silent(s, r) /\ ~RP!CanCloseOrEnqueue(r) /\ RP!Waits(r)
      BY <1>1, RP!CancelSilent
<1>3. RP!Becomes(s, RP!Cancel(s))
      BY RP!CancelSound
<1> QED BY <1>2, <1>3, SameEnds DEF Ended, Open

LEMMA ReadableCloses ==
    ASSUME NEW s, RP!Sound(s), RP!Waits(s), Open(s)
    PROVE  LET r == R!ControllerClose(s)
           IN  Ended(s, r) /\ r.cancelled = s.cancelled /\ r.state # "errored"
<1> USE SidesAssumption
<1>1. s \in RP!Slots /\ s.state = "readable"
      BY DEF RP!Sound, Open, RP!CanCloseOrEnqueue
<1>2. LET r == RP!ControllerClose(s)
      IN  /\ RP!Silent(s, r) /\ ~RP!CanCloseOrEnqueue(r) /\ RP!Waits(r)
          /\ r.cancelled = s.cancelled /\ r.state # "errored"
      BY <1>1, RP!ControllerCloseSilent
<1>3. RP!Becomes(s, RP!ControllerClose(s))
      BY <1>1, RP!ControllerCloseSound
<1> QED BY <1>2, <1>3, SameEnds DEF Ended, Open

\* The chunk has been counted as offered, which nothing depends on.
Offered(s, chunk) == [s EXCEPT !.offered = @ \cup {chunk}]

LEMMA ReadableEnqueues ==
    ASSUME NEW s, RP!Sound(s), RP!Waits(s), Open(s),
           NEW chunk \in Chunks \cup Outputs
    PROVE  /\ Ended(s, R!ControllerError(Offered(s, chunk)))
           /\ \A size \in Nat :
                 LET r == R!Enqueue(Offered(s, chunk), chunk, size)
                 IN  /\ Carries(s, r)
                     /\ R!EnqueueThrows(s) => r.sourceCalls = s.sourceCalls
                     /\ ~R!EnqueueThrows(s) => RP!Asks(s, r)
<1> USE SidesAssumption
<1> DEFINE o == Offered(s, chunk)
<1>1. s \in RP!Slots /\ s.state = "readable"
      BY DEF RP!Sound, Open, RP!CanCloseOrEnqueue
<1>2. RP!Alike(s, o)
      BY <1>1, RP!HistoriesAlike DEF Offered
<1> HIDE DEF o
<1>3. /\ RP!Sound(o) /\ RP!GoesOn(s, o) /\ RP!Beside(s, o) /\ RP!Silent(s, o)
      /\ RP!EnqueueThrows(o) <=> RP!EnqueueThrows(s)
      BY <1>2, RP!AlikeKeeps
<1>4. RP!Waits(o) /\ o.state = "readable" /\ o \in RP!Slots
      BY <1>1, <1>2, <1>3 DEF RP!Beside, RP!Alike
<1>5. Ended(s, R!ControllerError(o))
  <2>1. Ended(o, R!ControllerError(o))
        BY <1>3, <1>4, ReadableFails
  <2> QED BY <1>3, <2>1 DEF Ended, RP!GoesOn, RP!Becomes, RP!Silent
<1>6. ASSUME NEW size \in Nat
      PROVE  LET r == R!Enqueue(o, chunk, size)
             IN  /\ Carries(s, r)
                 /\ R!EnqueueThrows(s) => r.sourceCalls = s.sourceCalls
                 /\ ~R!EnqueueThrows(s) => RP!Asks(s, r)
  <2> DEFINE r == RP!Enqueue(o, chunk, size)
  <2>1. RP!GoesOn(o, r)
        BY <1>3, <1>4, RP!EnqueueSound
  <2>2. /\ RP!EnqueueThrows(o) => r.sourceCalls = o.sourceCalls
        /\ ~RP!EnqueueThrows(o) => RP!Asks(o, r)
        /\ RP!Waits(r) /\ r.cancelled = o.cancelled
        BY <1>4, RP!EnqueueAsks
  <2> HIDE DEF r
  <2>3. Carries(s, r)
        BY <1>2, <1>3, <2>1, <2>2
        DEF Carries, RP!GoesOn, RP!Becomes, RP!Beside, RP!CanCloseOrEnqueue, RP!Alike
  <2>4. ~RP!EnqueueThrows(o) => RP!Asks(s, r)
        BY <1>3, <2>2 DEF RP!Asks, RP!Silent
  <2> QED BY <1>3, <2>2, <2>3, <2>4, SameSource, SameQueries DEF r, RP!Silent
<1> QED BY <1>5, <1>6 DEF o

LEMMA ReadableRead ==
    ASSUME NEW s, RP!Sound(s), RP!Waits(s), R!CanRead(s)
    PROVE  LET r == R!Read(s)
           IN  /\ Carries(s, r)
               /\ ~Open(s) => RP!Silent(s, r)
               /\ Open(s) => RP!Asks(s, r) /\ (Needs(s) => Needs(r))
<1> USE SidesAssumption
<1>1. s \in RP!Slots /\ RP!CanRead(s)
      BY SameReader DEF RP!Sound
<1>2. RP!Becomes(s, RP!Read(s))
      BY <1>1, RP!NextReadMade, RP!ReadSound
<1>3. LET r == RP!Read(s)
      IN  /\ RP!Beside(s, r)
          /\ ~RP!CanCloseOrEnqueue(s) => RP!Silent(s, r)
          /\ RP!CanCloseOrEnqueue(s) =>
                 RP!Asks(s, r) /\ (RP!ShouldCallPull(s) => RP!ShouldCallPull(r))
      BY <1>1, RP!ReadAsks
<1> QED BY <1>2, <1>3, SameReader DEF Carries, Open, Needs

\* start() has settled.
LEMMA ReadableStarts ==
    ASSUME NEW s, RP!Sound(s), RP!Waits(s), "start" \in s.sourceCalls
    PROVE  LET d == R!Settled(s, "start")
               r == R!FinishStart(s)
               f == R!FailStart(s)
           IN  /\ d.sourceCalls = s.sourceCalls \ {"start"} /\ d.pulling = s.pulling
               /\ Carries(s, r) /\ RP!Asks(d, r)
               /\ RP!Becomes(s, f) /\ RP!Silent(d, f) /\ ~Open(f) /\ RP!Waits(f)
<1> USE SidesAssumption
<1>1. s \in RP!Slots
      BY DEF RP!Sound
<1>2. LET d == RP!Settled(s, "start")
      IN  d.sourceCalls = s.sourceCalls \ {"start"} /\ d.pulling = s.pulling
      BY <1>1, RP!SettledFields
<1>3. LET r == RP!FinishStart(s)
      IN  RP!Asks(RP!Settled(s, "start"), r) /\ RP!Beside(s, r)
      BY RP!FinishStartAsks
<1>4. LET f == RP!FailStart(s)
      IN  /\ RP!Silent(RP!Settled(s, "start"), f) /\ ~RP!CanCloseOrEnqueue(f) /\ RP!Waits(f)
          /\ f.cancelled = s.cancelled
      BY RP!FailStartSilent
<1>5. RP!Becomes(s, RP!FinishStart(s)) /\ RP!Becomes(s, RP!FailStart(s))
      BY RP!FinishStartSound, RP!FailedCallSound DEF RP!GoesOn
<1> QED BY <1>2, <1>3, <1>4, <1>5, SameSource DEF Carries, Open

\* pull() has settled.
LEMMA ReadablePulled ==
    ASSUME NEW s, RP!Sound(s), RP!Waits(s)
    PROVE  LET d == R!Settled(s, "pull")
               r == R!FinishPull(s)
           IN  /\ RP!GoesOn(s, d) /\ RP!Waits(d) /\ d.cancelled = s.cancelled
               /\ d.sourceCalls = s.sourceCalls \ {"pull"}
               /\ Carries(s, r)
               /\ r.sourceCalls = IF r.pulling THEN d.sourceCalls \cup {"pull"}
                                  ELSE d.sourceCalls
               /\ r.pulling <=> s.pullAgain /\ Needs(s)
               /\ Needs(r) <=> Needs(s)
<1> USE SidesAssumption
<1>1. s \in RP!Slots
      BY DEF RP!Sound
<1>2. LET d == RP!Settled(s, "pull")
      IN  /\ d.readRequests = s.readRequests /\ d.queue = s.queue /\ d.cancelled = s.cancelled
          /\ d.sourceCalls = s.sourceCalls \ {"pull"}
      BY <1>1, RP!SettledFields
<1>3. RP!GoesOn(s, RP!Settled(s, "pull"))
      BY RP!SettledSound
<1>4. LET d == RP!Settled(s, "pull")
          r == RP!FinishPull(s)
      IN  /\ r.sourceCalls = IF r.pulling THEN d.sourceCalls \cup {"pull"} ELSE d.sourceCalls
          /\ r.pulling <=> s.pullAgain /\ RP!ShouldCallPull(s)
          /\ RP!ShouldCallPull(r) <=> RP!ShouldCallPull(s)
          /\ RP!Beside(s, r)
      BY RP!FinishPullAsks
<1>5. RP!Becomes(s, RP!FinishPull(s))
      BY RP!FinishPullSound DEF RP!GoesOn
<1>6. RP!Waits(RP!Settled(s, "pull"))
      BY <1>2 DEF RP!Waits
<1> QED BY <1>2, <1>3, <1>4, <1>5, <1>6, SameSource DEF Carries, Needs

\* What the history variables say is forgotten at the end of an action.
Rested(s) == [s EXCEPT !.owing = FALSE, !.idle = FALSE]

LEMMA ReadableRests ==
    ASSUME NEW s, RP!Sound(s)
    PROVE  RP!Alike(s, Rested(s)) /\ RP!Sound(Rested(s)) /\ (Needs(Rested(s)) <=> Needs(s))
<1> USE SidesAssumption
<1>1. s \in RP!Slots
      BY DEF RP!Sound
<1>2. RP!Alike(s, Rested(s))
      BY <1>1, RP!HistoriesAlike DEF Rested
<1>3. RP!Sound(Rested(s)) /\ (RP!ShouldCallPull(Rested(s)) <=> RP!ShouldCallPull(s))
      BY <1>2, RP!AlikeKeeps
<1> QED BY <1>2, <1>3 DEF Needs

-----------------------------------------------------------------------------
(* The writable side: which method of the sink an operation calls.            *)

Works(s) == WP!WritableInvariant(s) /\ WP!Told(s) /\ s.writer

LEMMA WorksFacts ==
    ASSUME NEW s, Works(s)
    PROVE  /\ s \in W!Slots
           /\ "write" \in s.sinkCalls =>
                 /\ s.inFlightWriteRequest \in Chunks
                 /\ ~s.inFlightCloseRequest
                 /\ s.state \in {"writable", "erroring"}
           /\ "close" \in s.sinkCalls => s.inFlightCloseRequest
<1>1. s \in WP!Slots /\ WP!CallsMarked(s)
      BY DEF Works, WP!WritableInvariant, WP!Loose
<1>2. s.inFlightWriteRequest \in Chunks \cup {None}
      BY <1>1, SidesAssumption, WP!SlotsFacts
<1> QED BY <1>1, <1>2, SameWritable DEF WP!CallsMarked, WP!InFlight

\* size() is the last thing that ends a writable side and no call of its sink.
LEMMA WritableWrites ==
    ASSUME NEW s, Works(s), NEW chunk \in Chunks, s.promise[chunk] = "none"
    PROVE  LET a == W!Sizing(s, chunk)
           IN  \A w \in {W!WriteSized(a, size) : size \in WritableSizes \cup {None}}
                        \cup {W!SizeThrew(a)} :
                  /\ Works(w) /\ WP!Goes(s, w)
                  /\ WP!Ends(s, w) \/ (s.state = "writable" /\ w.state # "writable")
<1> USE SidesAssumption
<1> DEFINE a == WP!Sizing(s, chunk)
<1>1. s \in WP!Slots /\ chunk # None
      BY SidesAssumption, WP!Constants DEF Works, WP!WritableInvariant, WP!Loose
<1>2. WP!Kin(s, a) /\ a.sizing = chunk
      BY <1>1, WP!SizingKin
<1>3. WP!WritableInvariant(a)
      BY WP!SizingStep DEF Works
<1>4. WP!Told(a)
  <2>1. WP!SameTold(s, a)
        BY <1>1 DEF WP!SameTold, WP!Sizing, WP!Slots
  <2> QED BY <2>1, WP!SameToldStep DEF Works
<1> HIDE DEF a
<1>5. ASSUME NEW w, WP!WritableInvariant(w), WP!Told(w), WP!Goes(a, w),
             WP!Ends(a, w) \/ (a.state = "writable" /\ w.state # "writable")
      PROVE  /\ Works(w) /\ WP!Goes(s, w)
             /\ WP!Ends(s, w) \/ (s.state = "writable" /\ w.state # "writable")
  <2>1. WP!Goes(s, w) /\ (WP!Ends(a, w) => WP!Ends(s, w)) /\ a.state = s.state
        BY <1>2, <1>5, WP!KinGoes DEF WP!Kin
  <2> QED BY <1>5, <2>1 DEF Works, WP!Goes
<1>6. ASSUME NEW size
      PROVE  LET w == WP!WriteSized(a, size)
             IN  /\ WP!WritableInvariant(w) /\ WP!Told(w) /\ WP!Goes(a, w)
                 /\ WP!Ends(a, w) \/ (a.state = "writable" /\ w.state # "writable")
      BY <1>1, <1>2, <1>3, <1>4, WP!WriteSizedStep, WP!WriteSizedTold, WP!WriteSizedGoes
<1>7. LET w == WP!SizeThrew(a)
      IN  /\ WP!WritableInvariant(w) /\ WP!Told(w) /\ WP!Goes(a, w)
          /\ WP!Ends(a, w) \/ (a.state = "writable" /\ w.state # "writable")
      BY <1>1, <1>2, <1>3, <1>4, WP!SizeThrewStep, WP!SizeThrewTold, WP!SizeThrewGoes
<1>8. /\ W!Sizing(s, chunk) = a
      /\ \A size : W!WriteSized(a, size) = WP!WriteSized(a, size)
      /\ W!SizeThrew(a) = WP!SizeThrew(a)
      BY SamePromises, SameWriter DEF a
<1> QED BY <1>5, <1>6, <1>7, <1>8

LEMMA WritableCloses ==
    ASSUME NEW s, Works(s), ~W!CloseQueuedOrInFlight(s), s.state \in {"writable", "erroring"}
    PROVE  LET t == W!CloseStream(s)
           IN  Works(t) /\ WP!Goes(s, t) /\ WP!Ends(s, t)
<1> USE SidesAssumption
<1>1. ~WP!CloseQueuedOrInFlight(s)
      BY SamePromises
<1>2. WP!WritableInvariant(WP!CloseStream(s))
      BY <1>1, WP!CloseStep DEF Works
<1>3. WP!Told(WP!CloseStream(s))
      BY <1>1, WP!CloseTold DEF Works
<1>4. WP!Goes(s, WP!CloseStream(s)) /\ WP!Ends(s, WP!CloseStream(s))
      BY <1>1, WP!CloseGoes DEF Works
<1> QED BY <1>2, <1>3, <1>4, SameWriter DEF Works, WP!Goes

LEMMA WritableAborts ==
    ASSUME NEW s, Works(s)
    PROVE  LET t == W!AbortStream(s)
           IN  Works(t) /\ WP!Goes(s, t) /\ WP!Ends(s, t)
<1> USE SidesAssumption
<1>1. WP!WritableInvariant(WP!AbortStream(s)) /\ s \in WP!Slots
      BY WP!AbortStep DEF Works, WP!WritableInvariant, WP!Loose
<1>2. WP!Told(WP!AbortStream(s))
      BY <1>1, WP!AbortTold DEF Works
<1>3. WP!Goes(s, WP!AbortStream(s)) /\ WP!Ends(s, WP!AbortStream(s))
      BY WP!AbortGoes DEF Works
<1> QED BY <1>1, <1>2, <1>3, SameWriter DEF Works, WP!Goes

LEMMA WritableErrors ==
    ASSUME NEW s, Works(s)
    PROVE  LET t == W!ErrorIfNeeded(s)
           IN  /\ Works(t) /\ WP!Goes(s, t) /\ t.state # "writable"
               /\ s.state # "writable" => t = s
<1> USE SidesAssumption
<1>1. s \in WP!Slots
      BY DEF Works, WP!WritableInvariant, WP!Loose
<1>2. WP!WritableInvariant(WP!ErrorIfNeeded(s))
      BY WP!ErrorStep DEF Works, WP!ErrorIfNeeded
<1>3. WP!Told(WP!ErrorIfNeeded(s))
  <2>1. s.state = "writable" => WP!Told(WP!StartErroring(s))
        BY <1>1, WP!StartErroringTold DEF Works, WP!Told
  <2> QED BY <2>1 DEF Works, WP!ErrorIfNeeded
<1>4. WP!Goes(s, WP!ErrorIfNeeded(s)) /\ WP!ErrorIfNeeded(s).state # "writable"
      BY WP!ErrorIfNeededGoes DEF Works
<1>5. s.state # "writable" => WP!ErrorIfNeeded(s) = s
      BY DEF WP!ErrorIfNeeded
<1> QED BY <1>2, <1>3, <1>4, <1>5, SameErroring DEF Works, WP!Goes

\* What settling a promise of the sink leaves of a side.
LEMMA WritableSettles ==
    ASSUME NEW s, Works(s), NEW call
    PROVE  LET d == W!Settled(s, call)
           IN  /\ d \in W!Slots
               /\ d.keysMatch = s.keysMatch /\ d.writer = s.writer /\ d.state = s.state
               /\ d.sinkCalls = s.sinkCalls \ {call}
               /\ d.inFlightCloseRequest = s.inFlightCloseRequest
               /\ d.pendingAbortRequest = s.pendingAbortRequest
<1> USE SidesAssumption
<1>1. s \in WP!Slots
      BY DEF Works, WP!WritableInvariant, WP!Loose
<1>2. LET d == WP!Settled(s, call)
      IN  /\ d.keysMatch = s.keysMatch /\ d.writer = s.writer /\ d.state = s.state
          /\ d.sinkCalls = s.sinkCalls \ {call}
          /\ d.inFlightCloseRequest = s.inFlightCloseRequest
          /\ d.pendingAbortRequest = s.pendingAbortRequest
      BY <1>1, WP!SettledKin
<1>3. WP!Settled(s, call) \in WP!Slots
      BY <1>1, WP!SettledEffect
<1> QED BY <1>2, <1>3, SamePromises, SameWritable

LEMMA WriterStays ==
    ASSUME NEW s, Works(s)
    PROVE  \A call : WP!Settled(s, call).writer
<1>1. s \in WP!Slots /\ s.writer
      BY DEF Works, WP!WritableInvariant, WP!Loose
<1> QED BY <1>1 DEF WP!Settled, WP!Slots

LEMMA WritableStarts ==
    ASSUME NEW s, Works(s), "start" \in s.sinkCalls
    PROVE  LET d == W!Settled(s, "start")
               t == W!FinishStart(s)
               u == W!FailStart(s)
           IN  /\ Works(t) /\ WP!Goes(d, t) /\ WP!Ends(d, t) /\ "start" \notin t.sinkCalls
               /\ Works(u) /\ WP!Goes(d, u) /\ u.state # "writable" /\ "start" \notin u.sinkCalls
<1> USE SidesAssumption
<1>1. WP!WritableInvariant(WP!FinishStart(s)) /\ WP!WritableInvariant(WP!FailStart(s))
      BY WP!StartStep DEF Works
<1>2. WP!Told(WP!FinishStart(s)) /\ WP!Told(WP!FailStart(s))
      BY WP!StartTold DEF Works
<1>3. LET d == WP!Settled(s, "start")
          t == WP!FinishStart(s)
          u == WP!FailStart(s)
      IN  /\ WP!Goes(d, t) /\ WP!Ends(d, t) /\ "start" \notin t.sinkCalls
          /\ WP!Goes(d, u) /\ u.state # "writable" /\ "start" \notin u.sinkCalls
      BY WP!StartGoes DEF Works
<1>4. WP!Settled(s, "start").writer
      BY WriterStays DEF Works
<1> QED BY <1>1, <1>2, <1>3, <1>4, SameSink, SamePromises DEF Works, WP!Goes

LEMMA WritableWritten ==
    ASSUME NEW s, Works(s), "write" \in s.sinkCalls
    PROVE  LET d == W!Settled(s, "write")
               t == W!FinishInFlightWrite(s)
               u == W!FinishInFlightWriteWithError(s)
           IN  /\ Works(t) /\ WP!Goes(d, t) /\ WP!Ends(d, t)
               /\ Works(u) /\ WP!Goes(d, u) /\ (s.state # "writable" => WP!Ends(d, u))
<1> USE SidesAssumption
<1>1. /\ WP!WritableInvariant(WP!FinishInFlightWrite(s))
      /\ WP!WritableInvariant(WP!FinishInFlightWriteWithError(s))
      BY WP!WriteStep DEF Works
<1>2. WP!Told(WP!FinishInFlightWrite(s)) /\ WP!Told(WP!FinishInFlightWriteWithError(s))
      BY WP!WriteEndsTold DEF Works
<1>3. LET d == WP!Settled(s, "write")
          t == WP!FinishInFlightWrite(s)
          u == WP!FinishInFlightWriteWithError(s)
      IN  /\ WP!Goes(d, t) /\ WP!Ends(d, t)
          /\ WP!Goes(d, u) /\ (s.state # "writable" => WP!Ends(d, u))
      BY WP!WriteEndsGoes DEF Works
<1>4. WP!Settled(s, "write").writer
      BY WriterStays DEF Works
<1> QED BY <1>1, <1>2, <1>3, <1>4, SameSink, SamePromises DEF Works, WP!Goes

LEMMA WritableClosed ==
    ASSUME NEW s, Works(s), "close" \in s.sinkCalls
    PROVE  LET d == W!Settled(s, "close")
               t == W!FinishInFlightClose(s)
               u == W!FinishInFlightCloseWithError(s)
           IN  Works(t) /\ WP!Goes(d, t) /\ Works(u) /\ WP!Goes(d, u)
<1> USE SidesAssumption
<1>1. /\ WP!WritableInvariant(WP!FinishInFlightClose(s))
      /\ WP!WritableInvariant(WP!FinishInFlightCloseWithError(s))
      BY WP!CloseEndsStep DEF Works
<1>2. WP!Told(WP!FinishInFlightClose(s)) /\ WP!Told(WP!FinishInFlightCloseWithError(s))
      BY WP!CloseEndsTold DEF Works
<1>3. LET d == WP!Settled(s, "close")
      IN  WP!Goes(d, WP!FinishInFlightClose(s)) /\ WP!Goes(d, WP!FinishInFlightCloseWithError(s))
      BY WP!CloseEndsGoes DEF Works
<1>4. WP!Settled(s, "close").writer
      BY WriterStays DEF Works
<1> QED BY <1>1, <1>2, <1>3, <1>4, SameSink, SamePromises DEF Works, WP!Goes

LEMMA WritableAborted ==
    ASSUME NEW s, Works(s), "abort" \in s.sinkCalls
    PROVE  LET d == W!Settled(s, "abort")
               t == W!FinishAbort(s, "fulfilled")
           IN  Works(t) /\ WP!Kin(d, t)
<1> USE SidesAssumption
<1> DEFINE outcome == "fulfilled"
<1>1. outcome \in {"fulfilled", "rejected"}
      OBVIOUS
<1> HIDE DEF outcome
<1>2. WP!WritableInvariant(WP!FinishAbort(s, outcome))
      BY <1>1, WP!AbortEndsStep DEF Works
<1>3. WP!Told(WP!FinishAbort(s, outcome))
      BY <1>1, WP!AbortEndsTold DEF Works
<1>4. WP!Kin(WP!Settled(s, "abort"), WP!FinishAbort(s, outcome))
      BY <1>1, WP!AbortEndsGoes DEF Works
<1>5. WP!Settled(s, "abort").writer
      BY WriterStays DEF Works
<1> QED BY <1>2, <1>3, <1>4, <1>5, SameSink, SamePromises DEF Works, WP!Kin, outcome

-----------------------------------------------------------------------------
(* States, those in the middle of an action too.                              *)

States == [readable : R!Slots, writable : W!Slots, transform : TransformSlots, threw : BOOLEAN]

\* The assertions that may fail.
Excused(t) ==
    IF t.transform.transformer = "default" /\ t.readable.keysMatch THEN {}
    ELSE {"enqueue", "pull"}

\* Each side is as its own invariants say, and no other assertion has failed.
Sides(t) ==
    /\ t \in States
    /\ RP!Sound(t.readable) /\ RP!Waits(t.readable) /\ t.readable.reader
    /\ Works(t.writable)
    /\ t.readable.keysMatch = t.writable.keysMatch
    /\ t.transform.failed \subseteq Excused(t)

\* What the controller's operations leave of the transform stream's own slots: a
\* write that waits may go on.
Leaves(x, y) ==
    /\ y.transformer = x.transformer /\ y.close = x.close /\ y.abort = x.abort
    /\ y.sizeFailed = x.sizeFailed
    /\ y.write = x.write \/ (x.write = "waits" /\ y.write = "unblocked")

LEMMA StateFields ==
    ASSUME NEW t \in States
    PROVE  /\ t.readable \in R!Slots /\ t.writable \in W!Slots
           /\ t.transform \in TransformSlots /\ t.threw \in BOOLEAN
           /\ \A r \in R!Slots :
                 LET u == [t EXCEPT !.readable = r]
                 IN  /\ u \in States /\ u.readable = r /\ u.writable = t.writable
                     /\ u.transform = t.transform /\ u.threw = t.threw
           /\ \A w \in W!Slots :
                 LET u == [t EXCEPT !.writable = w]
                 IN  /\ u \in States /\ u.readable = t.readable /\ u.writable = w
                     /\ u.transform = t.transform /\ u.threw = t.threw
           /\ \A x \in TransformSlots :
                 LET u == [t EXCEPT !.transform = x]
                 IN  /\ u \in States /\ u.readable = t.readable /\ u.writable = t.writable
                     /\ u.transform = x /\ u.threw = t.threw
           /\ \A b \in BOOLEAN :
                 LET u == [t EXCEPT !.threw = b]
                 IN  /\ u \in States /\ u.readable = t.readable /\ u.writable = t.writable
                     /\ u.transform = t.transform /\ u.threw = b
BY DEF States

LEMMA SetFacts ==
    ASSUME NEW t \in States, NEW b \in BOOLEAN
    PROVE  LET u == SetBackpressure(t, b)
           IN  /\ u \in States
               /\ u.readable = t.readable /\ u.writable = t.writable /\ u.threw = t.threw
               /\ u.transform.backpressure = b
               /\ u.transform.algorithms = t.transform.algorithms
               /\ u.transform.failed = t.transform.failed
               /\ Leaves(t.transform, u.transform) /\ u.transform.write # "waits"
               /\ u.transform.pull =
                     IF t.transform.pull = "pending" THEN "resolved" ELSE t.transform.pull
<1> DEFINE x == t.transform
           y == [[[x EXCEPT !.backpressure = b]
                    EXCEPT !.write = IF @ = "waits" THEN "unblocked" ELSE @]
                    EXCEPT !.pull = IF @ = "pending" THEN "resolved" ELSE @]
           u == [t EXCEPT !.transform = y]
<1>1. x \in TransformSlots
      BY StateFields
<1>2. SetBackpressure(t, b) = u
      BY DEF SetBackpressure, States, TransformSlots
<1>3. /\ y \in TransformSlots /\ y.backpressure = b /\ y.algorithms = x.algorithms
      /\ y.failed = x.failed /\ Leaves(x, y) /\ y.write # "waits"
      /\ y.pull = IF x.pull = "pending" THEN "resolved" ELSE x.pull
  <2> HIDE DEF x
  <2> QED BY <1>1 DEF TransformSlots, Leaves
<1> HIDE DEF y
<1>4. /\ u \in States /\ u.readable = t.readable /\ u.writable = t.writable
      /\ u.transform = y /\ u.threw = t.threw
      BY <1>3, StateFields
<1> HIDE DEF u
<1> QED BY <1>2, <1>3, <1>4

LEMMA AssertedFacts ==
    ASSUME NEW t \in States, NEW name \in Assertions, NEW condition \in BOOLEAN
    PROVE  LET u == Asserted(t, name, condition)
           IN  /\ condition => u = t
               /\ ~condition =>
                     /\ u \in States
                     /\ u.readable = t.readable /\ u.writable = t.writable /\ u.threw
                     /\ u.transform.failed = t.transform.failed \cup {name}
                     /\ u.transform.backpressure = t.transform.backpressure
                     /\ u.transform.algorithms = t.transform.algorithms
                     /\ u.transform.pull = t.transform.pull
                     /\ u.transform.write = t.transform.write
                     /\ Leaves(t.transform, u.transform)
<1>1. CASE condition
      BY <1>1 DEF Asserted
<1>2. CASE ~condition
  <2> DEFINE x == t.transform
             failed == x.failed \cup {name}
             y == [x EXCEPT !.failed = failed]
             v == [t EXCEPT !.transform = y]
             u == [v EXCEPT !.threw = TRUE]
  <2>1. x \in TransformSlots
        BY StateFields
  <2>2. Asserted(t, name, condition) = u
        BY <1>2 DEF Asserted, States, TransformSlots
  <2>3. failed \in SUBSET Assertions
    <3> HIDE DEF x
    <3> QED BY <2>1 DEF TransformSlots
  <2> HIDE DEF failed
  <2>4. /\ y \in TransformSlots /\ y.failed = failed /\ y.backpressure = x.backpressure
        /\ y.algorithms = x.algorithms /\ y.pull = x.pull /\ y.write = x.write
        /\ Leaves(x, y)
    <3> HIDE DEF x
    <3> QED BY <2>1, <2>3 DEF TransformSlots, Leaves
  <2> HIDE DEF y
  <2>5. /\ v \in States /\ v.readable = t.readable /\ v.writable = t.writable
        /\ v.transform = y
        BY <2>4, StateFields
  <2> HIDE DEF v
  <2>6. /\ u \in States /\ u.readable = v.readable /\ u.writable = v.writable
        /\ u.transform = v.transform /\ u.threw = TRUE
        BY <2>5, StateFields
  <2> HIDE DEF u
  <2>7. u.transform.failed = t.transform.failed \cup {name}
        BY <2>4, <2>5, <2>6 DEF failed
  <2> QED BY <1>2, <2>2, <2>4, <2>5, <2>6, <2>7
<1> QED BY <1>1, <1>2

\* pullAlgorithm, called as it expects and otherwise.
LEMMA PullFacts ==
    ASSUME NEW t \in States
    PROVE  LET u == SourcePull(t)
           IN  /\ u \in States
               /\ u.readable = t.readable /\ u.writable = t.writable
               /\ u.transform.algorithms = t.transform.algorithms
               /\ ~u.transform.backpressure
               /\ Leaves(t.transform, u.transform)
               /\ t.transform.backpressure =>
                     /\ u.threw = t.threw /\ u.transform.failed = t.transform.failed
                     /\ u.transform.pull = "pending"
               /\ u.transform.failed \subseteq t.transform.failed \cup {"pull"}
<1>1. CASE t.transform.backpressure
  <2> DEFINE s == SetBackpressure(t, FALSE)
             x == s.transform
             y == [x EXCEPT !.pull = "pending"]
             u == [s EXCEPT !.transform = y]
  <2>1. /\ s \in States
        /\ s.readable = t.readable /\ s.writable = t.writable /\ s.threw = t.threw
        /\ x.backpressure = FALSE /\ x.algorithms = t.transform.algorithms
        /\ x.failed = t.transform.failed /\ Leaves(t.transform, x)
        BY SetFacts
  <2> HIDE DEF s
  <2>2. SourcePull(t) = u
        BY <1>1, <2>1 DEF SourcePull, States, s
  <2>3. x \in TransformSlots
        BY <2>1, StateFields
  <2>4. /\ y \in TransformSlots /\ y.pull = "pending" /\ y.backpressure = x.backpressure
        /\ y.algorithms = x.algorithms /\ y.failed = x.failed
        /\ y.sizeFailed = x.sizeFailed /\ y.write = x.write
        /\ y.transformer = x.transformer /\ y.close = x.close /\ y.abort = x.abort
    <3> HIDE DEF x
    <3> QED BY <2>3 DEF TransformSlots
  <2> HIDE DEF x, y
  <2>5. /\ u \in States /\ u.readable = s.readable /\ u.writable = s.writable
        /\ u.transform = y /\ u.threw = s.threw
        BY <2>1, <2>4, StateFields
  <2> HIDE DEF u
  <2>6. Leaves(t.transform, u.transform)
        BY <2>1, <2>4, <2>5 DEF Leaves
  <2> QED BY <2>1, <2>2, <2>4, <2>5, <2>6
<1>2. CASE ~t.transform.backpressure
  <2> DEFINE name == "pull"
             condition == FALSE
             u == Asserted(t, name, condition)
  <2>1. SourcePull(t) = u
        BY <1>2 DEF SourcePull
  <2>2. name \in Assertions /\ condition \in BOOLEAN
        BY DEF Assertions
  <2> HIDE DEF name, condition
  <2>3. ~condition =>
           /\ u \in States
           /\ u.readable = t.readable /\ u.writable = t.writable
           /\ u.transform.failed = t.transform.failed \cup {name}
           /\ u.transform.backpressure = t.transform.backpressure
           /\ u.transform.algorithms = t.transform.algorithms
           /\ Leaves(t.transform, u.transform)
        BY <2>2, AssertedFacts
  <2> HIDE DEF u
  <2> QED BY <1>2, <2>1, <2>3 DEF name, condition
<1>3. t.transform.backpressure \in BOOLEAN
      BY StateFields DEF TransformSlots
<1> QED BY <1>1, <1>2

-----------------------------------------------------------------------------
(* The operations that touch one side.                                        *)

\* The readable side has become r and was pulled, as the transform stream expects
\* where the keys agree, or it was not.
LEMMA WithReadableFacts ==
    ASSUME NEW t, Sides(t), NEW r, RP!Becomes(t.readable, r), RP!Waits(r),
           t.readable.keysMatch /\ "pull" \in r.sourceCalls \ t.readable.sourceCalls =>
               t.transform.backpressure
    PROVE  LET u == WithReadable(t, r)
           IN  /\ Sides(u) /\ u.readable = r /\ u.writable = t.writable
               /\ u.transform.algorithms = t.transform.algorithms
               /\ Leaves(t.transform, u.transform)
               /\ "pull" \in r.sourceCalls \ t.readable.sourceCalls =>
                     /\ ~u.transform.backpressure
                     /\ t.transform.backpressure =>
                           u.transform.pull = "pending" /\ u.threw = t.threw
               /\ "pull" \notin r.sourceCalls \ t.readable.sourceCalls =>
                     u.transform = t.transform /\ u.threw = t.threw
<1> DEFINE c == [t EXCEPT !.readable = r]
           new == "pull" \in r.sourceCalls \ t.readable.sourceCalls
           u == WithReadable(t, r)
<1>1. t \in States /\ r \in R!Slots
      BY SameReadable DEF Sides, RP!Becomes, RP!Sound
<1>2. /\ c \in States /\ c.readable = r /\ c.writable = t.writable
      /\ c.transform = t.transform /\ c.threw = t.threw
      BY <1>1, StateFields
<1>3. u = IF new THEN SourcePull(c) ELSE c
      BY DEF WithReadable
<1> HIDE DEF u, c
<1>4. Sides(c)
      BY <1>2 DEF Sides, RP!Becomes, Excused
<1>5. CASE ~new
      BY <1>2, <1>3, <1>4, <1>5 DEF u, Leaves
<1>6. CASE new
  <2> DEFINE v == SourcePull(c)
  <2>1. /\ v \in States /\ v.readable = c.readable /\ v.writable = c.writable
        /\ v.transform.algorithms = c.transform.algorithms
        /\ ~v.transform.backpressure
        /\ Leaves(c.transform, v.transform)
        /\ c.transform.backpressure =>
              /\ v.threw = c.threw /\ v.transform.failed = c.transform.failed
              /\ v.transform.pull = "pending"
        /\ v.transform.failed \subseteq c.transform.failed \cup {"pull"}
        BY <1>2, PullFacts
  <2> HIDE DEF v
  <2>2. Excused(v) = Excused(c)
        BY <2>1 DEF Excused, Leaves
  <2>3. v.transform.failed \subseteq Excused(v)
    <3>1. CASE c.transform.backpressure
          BY <1>4, <2>1, <2>2, <3>1 DEF Sides
    <3>2. CASE ~c.transform.backpressure
      <4>1. ~c.readable.keysMatch
            BY <1>2, <1>6, <3>2 DEF RP!Becomes
      <4>2. Excused(c) = {"enqueue", "pull"}
            BY <4>1 DEF Excused
      <4> QED BY <1>4, <2>1, <2>2, <4>2 DEF Sides
    <3> QED BY <3>1, <3>2
  <2>4. Sides(v)
        BY <1>4, <2>1, <2>3 DEF Sides
  <2>5. u = v
        BY <1>3, <1>6 DEF v
  <2> QED BY <1>2, <1>6, <2>1, <2>4, <2>5 DEF u
<1> QED BY <1>5, <1>6

\* The writable side begins to error, and the write that waits goes on.
LEMMA UnblockFacts ==
    ASSUME NEW t, Sides(t)
    PROVE  LET u == ErrorWritableAndUnblockWrite(t)
           IN  /\ Sides(u) /\ u.readable = t.readable /\ u.threw = t.threw
               /\ WP!Goes(t.writable, u.writable) /\ u.writable.state # "writable"
               /\ Leaves(t.transform, u.transform)
               /\ ~u.transform.backpressure
               /\ u.transform.pull = "none" <=> t.transform.pull = "none"
<1> DEFINE x == t.transform
           y == [x EXCEPT !.algorithms = FALSE]
           w == W!ErrorIfNeeded(t.writable)
           a == [t EXCEPT !.transform = y]
           b == [a EXCEPT !.writable = w]
           u == ErrorWritableAndUnblockWrite(t)
<1>1. t \in States /\ t.writable \in W!Slots /\ x \in TransformSlots
      BY StateFields DEF Sides
<1>2. /\ y \in TransformSlots /\ y.algorithms = FALSE /\ y.failed = x.failed
      /\ y.sizeFailed = x.sizeFailed
      /\ y.backpressure = x.backpressure /\ y.pull = x.pull /\ y.write = x.write
      /\ y.transformer = x.transformer /\ y.close = x.close /\ y.abort = x.abort
  <2> HIDE DEF x
  <2> QED BY <1>1 DEF TransformSlots
<1>3. /\ Works(w) /\ WP!Goes(t.writable, w) /\ w.state # "writable"
      BY WritableErrors DEF Sides
<1>4. w \in W!Slots
      BY <1>3, WorksFacts
<1>5. u = IF x.backpressure THEN SetBackpressure(b, FALSE) ELSE b
  <2>1. [t EXCEPT !.transform.algorithms = FALSE, !.writable = W!ErrorIfNeeded(@)] = b
        BY <1>1 DEF States, TransformSlots
  <2> HIDE DEF b
  <2> QED BY <2>1 DEF ErrorWritableAndUnblockWrite
<1> HIDE DEF y, w
<1>6. a \in States /\ a.readable = t.readable /\ a.transform = y /\ a.threw = t.threw
      BY <1>1, <1>2, StateFields
<1> HIDE DEF a
<1>7. /\ b \in States /\ b.readable = a.readable /\ b.writable = w
      /\ b.transform = a.transform /\ b.threw = a.threw
      BY <1>4, <1>6, StateFields
<1> HIDE DEF b
<1>8. Sides(b)
  <2>1. Excused(b) = Excused(t)
        BY <1>2, <1>6, <1>7 DEF Excused
  <2>2. w.keysMatch = t.writable.keysMatch
        BY <1>3 DEF WP!Goes
  <2> QED BY <1>2, <1>3, <1>6, <1>7, <2>1, <2>2 DEF Sides
<1>9. CASE x.backpressure
  <2> DEFINE off == FALSE
             v == SetBackpressure(b, off)
  <2>1. off \in BOOLEAN
        OBVIOUS
  <2> HIDE DEF off
  <2>2. /\ v \in States
        /\ v.readable = b.readable /\ v.writable = b.writable /\ v.threw = b.threw
        /\ v.transform.backpressure = off
        /\ v.transform.failed = b.transform.failed
        /\ Leaves(b.transform, v.transform)
        /\ v.transform.pull =
              IF b.transform.pull = "pending" THEN "resolved" ELSE b.transform.pull
        BY <1>7, <2>1, SetFacts
  <2> HIDE DEF v
  <2>3. Sides(v)
        BY <1>8, <2>2 DEF Sides, Excused, Leaves
  <2>4. u = v
        BY <1>5, <1>9 DEF v, off
  <2>5. Leaves(t.transform, v.transform)
        BY <1>2, <1>6, <1>7, <2>2 DEF Leaves
  <2>6. v.transform.pull = "none" <=> t.transform.pull = "none"
        BY <1>2, <1>6, <1>7, <2>2
  <2> HIDE DEF u
  <2>7. /\ Sides(u) /\ u.readable = t.readable /\ u.threw = t.threw
        /\ WP!Goes(t.writable, u.writable) /\ u.writable.state # "writable"
        /\ Leaves(t.transform, u.transform)
        /\ ~u.transform.backpressure
        /\ u.transform.pull = "none" <=> t.transform.pull = "none"
        BY <1>3, <1>6, <1>7, <2>2, <2>3, <2>4, <2>5, <2>6 DEF off
  <2> QED BY <2>7 DEF u
<1>10. CASE ~x.backpressure
  <2>1. u = b
        BY <1>5, <1>10
  <2>2. Leaves(t.transform, b.transform)
        BY <1>2, <1>6, <1>7 DEF Leaves
  <2> HIDE DEF u
  <2>3. /\ Sides(u) /\ u.readable = t.readable /\ u.threw = t.threw
        /\ WP!Goes(t.writable, u.writable) /\ u.writable.state # "writable"
        /\ Leaves(t.transform, u.transform)
        /\ ~u.transform.backpressure
        /\ u.transform.pull = "none" <=> t.transform.pull = "none"
        BY <1>2, <1>3, <1>6, <1>7, <1>8, <1>10, <2>1, <2>2
  <2> QED BY <2>3 DEF u
<1> QED BY <1>9, <1>10

\* Where the keys differ and reads wait, the exception comes before the writable side
\* is reached.
LEMMA TransformErrorFacts ==
    ASSUME NEW t, Sides(t)
    PROVE  LET u == TransformError(t)
           IN  /\ Sides(u) /\ Ended(t.readable, u.readable)
               /\ u.readable.cancelled = t.readable.cancelled
               /\ Leaves(t.transform, u.transform)
               /\ u.transform.pull = "none" <=> t.transform.pull = "none"
               /\ \/ u.writable = t.writable /\ u.transform = t.transform
                  \/ WP!Goes(t.writable, u.writable) /\ u.writable.state # "writable"
               /\ t.readable.keysMatch =>
                     /\ u.threw = t.threw /\ u.writable.state # "writable"
                     /\ ~u.transform.backpressure
<1> DEFINE r == R!ControllerError(t.readable)
           e == [t EXCEPT !.readable = r]
           f == [e EXCEPT !.threw = TRUE]
           v == ErrorWritableAndUnblockWrite(e)
           throws == t.readable.state = "readable" /\ R!EnqueueThrows(t.readable)
           u == TransformError(t)
<1>1. Ended(t.readable, r) /\ r.cancelled = t.readable.cancelled
      BY ReadableFails DEF Sides
<1>2. t \in States /\ r \in R!Slots
      BY <1>1, SameReadable DEF Sides, Ended, RP!Becomes, RP!Sound
<1>3. u = IF throws THEN f ELSE v
      BY DEF TransformError
<1> HIDE DEF r
<1>4. /\ e \in States /\ e.readable = r /\ e.writable = t.writable
      /\ e.transform = t.transform /\ e.threw = t.threw
      BY <1>2, StateFields
<1> HIDE DEF e
<1>5. Sides(e)
      BY <1>1, <1>4 DEF Sides, Ended, RP!Becomes, Excused
<1>6. CASE throws
  <2>1. /\ f \in States /\ f.readable = e.readable /\ f.writable = e.writable
        /\ f.transform = e.transform
        BY <1>4, StateFields
  <2> HIDE DEF f
  <2>2. Sides(f)
        BY <1>5, <2>1 DEF Sides, Excused
  <2>3. ~t.readable.keysMatch
        BY <1>6 DEF R!EnqueueThrows
  <2>4. u = f
        BY <1>3, <1>6
  <2>5. Leaves(t.transform, f.transform)
        BY <1>4, <2>1 DEF Leaves
  <2> HIDE DEF u
  <2> QED BY <1>1, <1>4, <2>1, <2>2, <2>3, <2>4, <2>5 DEF u
<1>7. CASE ~throws
  <2>1. /\ Sides(v) /\ v.readable = e.readable /\ v.threw = e.threw
        /\ WP!Goes(e.writable, v.writable) /\ v.writable.state # "writable"
        /\ Leaves(e.transform, v.transform)
        /\ ~v.transform.backpressure
        /\ v.transform.pull = "none" <=> e.transform.pull = "none"
        BY <1>5, UnblockFacts
  <2> HIDE DEF v
  <2>2. u = v
        BY <1>3, <1>7
  <2> HIDE DEF u
  <2> QED BY <1>1, <1>4, <2>1, <2>2 DEF u
<1> QED BY <1>6, <1>7

-----------------------------------------------------------------------------
(* What is known of pull().                                                   *)

\* The promise of the last pull() is unsettled, or its reaction has not run, exactly
\* while the readable side is pulling.  While that side can be used it waits exactly
\* while there is no backpressure; and no request for more is lost: without a pull()
\* nothing more is needed, and if more is needed at its end it will be asked for.
PullsLoose(t) ==
    t.readable.keysMatch =>
    /\ t.readable.pulling <=> t.transform.pull # "none"
    /\ t.readable.pulling <=> "pull" \in t.readable.sourceCalls
    /\ Open(t.readable) =>
       /\ t.transform.pull # "pending" <=> t.transform.backpressure
       /\ t.transform.pull = "none" => ~Needs(t.readable)
       /\ t.transform.pull = "resolved" /\ Needs(t.readable) => t.readable.pullAgain

\* And the pull() that waits is needed.
PullsKnown(t) ==
    /\ PullsLoose(t)
    /\ t.readable.keysMatch /\ Open(t.readable) /\ t.transform.pull = "pending" =>
          Needs(t.readable)

LEMMA LeavesTrans ==
    ASSUME NEW x, NEW y, NEW z, Leaves(x, y), Leaves(y, z)
    PROVE  Leaves(x, z)
BY DEF Leaves

\* The readable side has asked for more if it needs it: d stands for the side before,
\* but for the call of start().
LEMMA PullsAsked ==
    ASSUME NEW t, Sides(t), PullsKnown(t), NEW r, Carries(t.readable, r),
           NEW d, d.pulling = t.readable.pulling,
           d.sourceCalls \in {t.readable.sourceCalls, t.readable.sourceCalls \ {"start"}},
           RP!Asks(d, r)
    PROVE  LET u == WithReadable(t, r)
           IN  /\ Sides(u) /\ u.readable = r /\ u.writable = t.writable
               /\ u.transform.algorithms = t.transform.algorithms
               /\ Leaves(t.transform, u.transform)
               /\ PullsLoose(u)
               /\ t.readable.keysMatch => u.threw = t.threw
               /\ u.transform = t.transform \/ ~u.transform.backpressure
               /\ t.readable.keysMatch /\ (Needs(t.readable) => Needs(r)) => PullsKnown(u)
<1> DEFINE s == t.readable
           x == t.transform
           new == "pull" \in r.sourceCalls \ s.sourceCalls
           u == WithReadable(t, r)
<1>1. RP!Becomes(s, r) /\ RP!Waits(r) /\ (Open(r) => Open(s))
      BY DEF Carries, RP!Beside, Open
<1>2. Needs(r) => Open(r)
      BY DEF Needs, Open, RP!ShouldCallPull
<1>3. ASSUME s.keysMatch
      PROVE  /\ s.pulling <=> x.pull # "none"
             /\ new <=> r.pulling /\ ~s.pulling
             /\ s.pulling => r.pulling
             /\ "pull" \in r.sourceCalls <=> r.pulling
             /\ new => Needs(r)
             /\ Needs(r) => r.pulling /\ (s.pulling => r.pullAgain)
  <2>1. /\ s.pulling <=> x.pull # "none"
        /\ s.pulling <=> "pull" \in s.sourceCalls
        BY <1>3 DEF PullsKnown, PullsLoose
  <2>2. /\ r.sourceCalls = IF r.pulling /\ ~s.pulling THEN d.sourceCalls \cup {"pull"}
                           ELSE d.sourceCalls
        /\ s.pulling => r.pulling
        /\ r.pulling /\ ~s.pulling => Needs(r)
        /\ Needs(r) => r.pulling /\ (s.pulling => r.pullAgain)
        BY DEF RP!Asks, Needs
  <2>3. "pull" \in d.sourceCalls <=> "pull" \in s.sourceCalls
        OBVIOUS
  <2> HIDE DEF s, x
  <2>4. "pull" \in r.sourceCalls <=> r.pulling
        BY <2>1, <2>2, <2>3
  <2> QED BY <2>1, <2>2, <2>4
<1>4. s.keysMatch /\ new => x.backpressure
  <2> SUFFICES ASSUME s.keysMatch, new
               PROVE  x.backpressure
      OBVIOUS
  <2>1. Open(s) /\ x.pull = "none"
        BY <1>1, <1>2, <1>3
  <2> QED BY <2>1 DEF PullsKnown, PullsLoose
<1>5. /\ Sides(u) /\ u.readable = r /\ u.writable = t.writable
      /\ u.transform.algorithms = t.transform.algorithms
      /\ Leaves(t.transform, u.transform)
      /\ new => /\ ~u.transform.backpressure
                /\ x.backpressure => u.transform.pull = "pending" /\ u.threw = t.threw
      /\ ~new => u.transform = t.transform /\ u.threw = t.threw
      BY <1>1, <1>4, WithReadableFacts
<1> HIDE DEF u
<1>6. r.keysMatch = s.keysMatch
      BY <1>1 DEF RP!Becomes
<1>7. PullsLoose(u)
  <2> SUFFICES ASSUME s.keysMatch
               PROVE  PullsLoose(u)
      BY <1>5, <1>6 DEF PullsLoose
  <2>1. CASE new
    <3>1. u.transform.pull = "pending" /\ ~u.transform.backpressure
          BY <1>4, <1>5, <2>1
    <3> QED BY <1>3, <1>5, <2>1, <3>1 DEF PullsLoose
  <2>2. CASE ~new
    <3>1. u.transform = x
          BY <1>5, <2>2
    <3>2. r.pulling <=> s.pulling
          BY <1>3, <2>2
    <3>3. Open(s) =>
             /\ x.pull # "pending" <=> x.backpressure
             /\ x.pull = "none" => ~Needs(s)
             /\ x.pull = "resolved" /\ Needs(s) => s.pullAgain
          BY DEF PullsKnown, PullsLoose
    <3> HIDE DEF x, s, new
    <3> QED BY <1>1, <1>3, <1>5, <3>1, <3>2, <3>3 DEF PullsLoose
  <2> QED BY <2>1, <2>2
<1>8. s.keysMatch => u.threw = t.threw
      BY <1>4, <1>5
<1>9. u.transform = t.transform \/ ~u.transform.backpressure
      BY <1>5
<1>10. ASSUME s.keysMatch, Needs(s) => Needs(r)
       PROVE  PullsKnown(u)
  <2>1. Open(s) /\ x.pull = "pending" => Needs(s)
        BY <1>10 DEF PullsKnown
  <2>2. Open(r) /\ u.transform.pull = "pending" => Needs(r)
        BY <1>1, <1>3, <1>5, <1>10, <2>1
  <2> QED BY <1>5, <1>7, <2>2 DEF PullsKnown
<1> QED BY <1>5, <1>7, <1>8, <1>9, <1>10 DEF u

\* Nothing more is asked for once the readable side cannot be used.
LEMMA PullsSilent ==
    ASSUME NEW t, NEW u, PullsKnown(t), RP!Silent(t.readable, u.readable), ~Open(u.readable),
           u.readable.keysMatch = t.readable.keysMatch,
           u.transform.pull = "none" <=> t.transform.pull = "none"
    PROVE  PullsKnown(u)
BY DEF PullsKnown, PullsLoose, RP!Silent

-----------------------------------------------------------------------------
(* What the sides know of each other.                                         *)

\* start() has settled for both or for neither.
StartsTogether(t) ==
    "start" \in t.readable.sourceCalls <=> "start" \in t.writable.sinkCalls

\* A promise of the sink is unsettled, or its reaction has not run, when the writable
\* side waits for it.
CallsRun(t) ==
    /\ t.transform.write # "none" <=> "write" \in t.writable.sinkCalls
    /\ t.transform.close # "none" <=> "close" \in t.writable.sinkCalls
    /\ t.transform.abort # "none" => "abort" \in t.writable.sinkCalls

\* The algorithms are kept while the writable side may call the sink's write() or
\* close().
Kept(t) ==
    t.writable.state = "writable" /\ ~t.writable.inFlightCloseRequest => t.transform.algorithms

\* Where the keys agree a side ends with the other, but the readable one only once the
\* sink's write(), close() or abort() says so, and not with a size() that failed.
EndsKnown(t) ==
    t.readable.keysMatch =>
    /\ t.readable.state = "errored" \/ t.readable.cancelled => t.writable.state # "writable"
    /\ t.writable.state \in {"errored", "closed"} =>
          ~Open(t.readable) \/ t.transform.sizeFailed
    /\ t.writable.state = "erroring" =>
          \/ ~Open(t.readable) \/ t.transform.sizeFailed
          \/ t.writable.pendingAbortRequest = "made"
    /\ t.transform.write = "rejected" /\ t.writable.state = "writable" => ~Open(t.readable)
    /\ t.transform.close \in {"fulfilled", "rejected"} => ~Open(t.readable)

\* Both sides have ended.
Over(t) == ~Open(t.readable) /\ t.writable.state # "writable"

\* u is t after something the controller, the source or the program did.
Moves(t, u) ==
    /\ Sides(u)
    /\ u.readable.keysMatch = t.readable.keysMatch
    /\ "start" \in u.readable.sourceCalls <=> "start" \in t.readable.sourceCalls
    /\ Leaves(t.transform, u.transform)
    /\ \/ u.writable = t.writable /\ u.transform.algorithms = t.transform.algorithms
       \/ WP!Goes(t.writable, u.writable) /\ u.writable.state # "writable"
    /\ t.readable.keysMatch =>
          \/ Over(u)
          \/ u.writable = t.writable /\ RP!Beside(t.readable, u.readable)

LEMMA MovesKeeps ==
    ASSUME NEW t, NEW u, Moves(t, u)
    PROVE  /\ StartsTogether(t) => StartsTogether(u)
           /\ CallsRun(t) => CallsRun(u)
           /\ Kept(t) => Kept(u)
           /\ EndsKnown(t) \/ (t.readable.keysMatch => Over(u)) => EndsKnown(u)
<1>1. /\ "start" \in u.writable.sinkCalls <=> "start" \in t.writable.sinkCalls
      /\ "write" \in u.writable.sinkCalls <=> "write" \in t.writable.sinkCalls
      /\ "close" \in u.writable.sinkCalls <=> "close" \in t.writable.sinkCalls
      /\ "abort" \in t.writable.sinkCalls => "abort" \in u.writable.sinkCalls
  <2>1. CASE u.writable = t.writable
        BY <2>1
  <2>2. CASE WP!Goes(t.writable, u.writable) /\ u.writable.state # "writable"
    <3>1. /\ t.writable.sinkCalls \subseteq u.writable.sinkCalls
          /\ u.writable.sinkCalls \ t.writable.sinkCalls \subseteq {"abort"}
          BY <2>2 DEF WP!Goes
    <3> QED BY <3>1
  <2> QED BY <2>1, <2>2 DEF Moves
<1>2. StartsTogether(t) => StartsTogether(u)
      BY <1>1 DEF Moves, StartsTogether
<1>3. CallsRun(t) => CallsRun(u)
      BY <1>1 DEF Moves, CallsRun, Leaves
<1>4. Kept(t) => Kept(u)
      BY DEF Moves, Kept
<1>5. ASSUME t.readable.keysMatch => Over(u)
      PROVE  EndsKnown(u)
      BY <1>5 DEF Moves, Over, EndsKnown
<1>6. ASSUME EndsKnown(t), t.readable.keysMatch, ~Over(u)
      PROVE  EndsKnown(u)
      BY <1>6 DEF Moves, EndsKnown, RP!Beside, Open, Leaves
<1> QED BY <1>2, <1>3, <1>4, <1>5, <1>6

\* The readable side has been ended, or an exception passes where the keys differ, and
\* then the writable side is.
LEMMA UnblockMoves ==
    ASSUME NEW t, Sides(t), NEW e, Sides(e), e.writable = t.writable,
           e.readable.keysMatch = t.readable.keysMatch,
           "start" \in e.readable.sourceCalls <=> "start" \in t.readable.sourceCalls,
           Leaves(t.transform, e.transform),
           t.readable.keysMatch => ~Open(e.readable)
    PROVE  LET u == ErrorWritableAndUnblockWrite(e)
           IN  Moves(t, u) /\ (t.readable.keysMatch => Over(u))
<1> DEFINE u == ErrorWritableAndUnblockWrite(e)
<1>1. /\ Sides(u) /\ u.readable = e.readable
      /\ WP!Goes(e.writable, u.writable) /\ u.writable.state # "writable"
      /\ Leaves(e.transform, u.transform)
      BY UnblockFacts
<1> HIDE DEF u
<1>2. Leaves(t.transform, u.transform)
      BY <1>1, LeavesTrans
<1>3. t.readable.keysMatch => Over(u)
      BY <1>1 DEF Over
<1>4. Moves(t, u)
      BY <1>1, <1>2, <1>3 DEF Moves
<1> QED BY <1>3, <1>4 DEF u

\* So it is with a TransformError() that ends both sides.
LEMMA TransformErrorMoves ==
    ASSUME NEW t, Sides(t)
    PROVE  LET u == TransformError(t)
           IN  /\ Moves(t, u) /\ (t.readable.keysMatch => Over(u))
               /\ PullsKnown(t) => PullsKnown(u)
               /\ t.readable.keysMatch => ~u.transform.backpressure
<1> DEFINE u == TransformError(t)
<1>1. /\ Sides(u) /\ Ended(t.readable, u.readable)
      /\ u.readable.cancelled = t.readable.cancelled
      /\ Leaves(t.transform, u.transform)
      /\ u.transform.pull = "none" <=> t.transform.pull = "none"
      /\ \/ u.writable = t.writable /\ u.transform = t.transform
         \/ WP!Goes(t.writable, u.writable) /\ u.writable.state # "writable"
      /\ t.readable.keysMatch =>
            /\ u.threw = t.threw /\ u.writable.state # "writable"
            /\ ~u.transform.backpressure
      BY TransformErrorFacts
<1> HIDE DEF u
<1>2. /\ u.readable.keysMatch = t.readable.keysMatch
      /\ u.readable.sourceCalls = t.readable.sourceCalls
      /\ ~Open(u.readable)
      BY <1>1 DEF Ended, RP!Becomes, RP!Silent
<1>3. t.readable.keysMatch => Over(u)
      BY <1>1, <1>2 DEF Over
<1>4. Moves(t, u)
      BY <1>1, <1>2, <1>3 DEF Moves
<1>5. PullsKnown(t) => PullsKnown(u)
  <2> SUFFICES ASSUME PullsKnown(t)
               PROVE  PullsKnown(u)
      OBVIOUS
  <2>1. RP!Silent(t.readable, u.readable)
        BY <1>1 DEF Ended
  <2> QED BY <1>1, <1>2, <2>1, PullsSilent
<1> QED BY <1>1, <1>3, <1>4, <1>5 DEF u

\* The readable side is ended by its user or its controller, and then the writable one.
LEMMA EndedMoves ==
    ASSUME NEW t, Sides(t), NEW r, Ended(t.readable, r)
    PROVE  LET u == ErrorWritableAndUnblockWrite([t EXCEPT !.readable = r])
           IN  /\ Moves(t, u) /\ (t.readable.keysMatch => Over(u))
               /\ PullsKnown(t) => PullsKnown(u)
               /\ ~u.transform.backpressure
<1> DEFINE e == [t EXCEPT !.readable = r]
           u == ErrorWritableAndUnblockWrite(e)
<1>1. t \in States /\ r \in R!Slots
      BY SameReadable DEF Sides, Ended, RP!Becomes, RP!Sound
<1>2. /\ e \in States /\ e.readable = r /\ e.writable = t.writable
      /\ e.transform = t.transform /\ e.threw = t.threw
      BY <1>1, StateFields
<1> HIDE DEF e
<1>3. /\ RP!Sound(r) /\ r.keysMatch = t.readable.keysMatch /\ r.reader = t.readable.reader
      /\ r.sourceCalls = t.readable.sourceCalls /\ ~Open(r) /\ RP!Waits(r)
      /\ RP!Silent(t.readable, r)
      BY DEF Ended, RP!Becomes, RP!Silent
<1>4. Sides(e)
      BY <1>2, <1>3 DEF Sides, Excused
<1>5. /\ u.readable = e.readable
      /\ ~u.transform.backpressure
      /\ u.transform.pull = "none" <=> e.transform.pull = "none"
      BY <1>4, UnblockFacts
<1>6. Leaves(t.transform, e.transform)
      BY <1>2 DEF Leaves
<1>7. Moves(t, u) /\ (t.readable.keysMatch => Over(u))
      BY <1>2, <1>3, <1>4, <1>6, UnblockMoves
<1> HIDE DEF u
<1>8. PullsKnown(t) => PullsKnown(u)
      BY <1>2, <1>3, <1>5, PullsSilent
<1> QED BY <1>5, <1>7, <1>8 DEF u, e

-----------------------------------------------------------------------------
(* The controller.                                                            *)

LEMMA ThrowMoves ==
    ASSUME NEW t, NEW v, Moves(t, v)
    PROVE  LET u == [v EXCEPT !.threw = TRUE]
           IN  /\ Moves(t, u) /\ u.threw
               /\ u.readable = v.readable /\ u.writable = v.writable
               /\ u.transform = v.transform
               /\ Over(v) => Over(u)
               /\ PullsKnown(v) => PullsKnown(u)
<1> DEFINE u == [v EXCEPT !.threw = TRUE]
<1>1. v \in States
      BY DEF Moves, Sides
<1>2. /\ u \in States /\ u.readable = v.readable /\ u.writable = v.writable
      /\ u.transform = v.transform /\ u.threw = TRUE
      BY <1>1, StateFields
<1> HIDE DEF u
<1>3. Sides(u)
      BY <1>2 DEF Moves, Sides, Excused
<1>4. Moves(t, u)
      BY <1>2, <1>3 DEF Moves, Over
<1>5. (Over(v) => Over(u)) /\ (PullsKnown(v) => PullsKnown(u))
      BY <1>2 DEF Over, PullsKnown, PullsLoose
<1> QED BY <1>2, <1>4, <1>5 DEF u

\* What a call of the controller's enqueue() needs.
MayEnqueue(t, chunk) ==
    /\ Sides(t) /\ PullsKnown(t) /\ Open(t.readable) /\ ~t.threw
    /\ chunk \in Chunks \cup Outputs
    /\ t.transform.transformer = "default" /\ t.readable.keysMatch =>
          ~t.transform.backpressure

\* What it comes to: with the default transformer an exception has ended both sides.
Enqueued(t, u) ==
    /\ Moves(t, u) /\ PullsKnown(u)
    /\ t.transform.transformer = "default" /\ t.readable.keysMatch /\ u.threw => Over(u)

\* size() throws or gives no size.
LEMMA EnqueueUnsized ==
    ASSUME NEW t, NEW chunk, MayEnqueue(t, chunk), NEW size, size \notin Sizes
    PROVE  Enqueued(t, Enqueue(t, chunk, size))
<1> DEFINE r == R!ControllerError(Offered(t.readable, chunk))
           v == ErrorWritableAndUnblockWrite([t EXCEPT !.readable = r])
           u == [v EXCEPT !.threw = TRUE]
<1>1. Ended(t.readable, r)
      BY ReadableEnqueues DEF MayEnqueue, Sides
<1>2. Enqueue(t, chunk, size) = u
      BY DEF Enqueue, Offered
<1> HIDE DEF r
<1>3. Moves(t, v) /\ (t.readable.keysMatch => Over(v)) /\ PullsKnown(v)
      BY <1>1, EndedMoves DEF MayEnqueue
<1> HIDE DEF v
<1> QED BY <1>2, <1>3, ThrowMoves DEF Enqueued

\* Where the keys differ: fulfilling the request throws, or the pull() that follows does.
LEMMA EnqueueThrew ==
    ASSUME NEW t, NEW chunk, MayEnqueue(t, chunk), ~t.readable.keysMatch,
           NEW e, Sides(e), e.readable.keysMatch = t.readable.keysMatch,
           e.writable = t.writable, Leaves(t.transform, e.transform),
           "start" \in e.readable.sourceCalls <=> "start" \in t.readable.sourceCalls
    PROVE  Enqueued(t, [ErrorWritableAndUnblockWrite(e) EXCEPT !.threw = TRUE])
<1> DEFINE v == ErrorWritableAndUnblockWrite(e)
           u == [v EXCEPT !.threw = TRUE]
<1>1. Moves(t, v)
      BY UnblockMoves DEF MayEnqueue
<1> HIDE DEF v
<1>2. Moves(t, u)
      BY <1>1, ThrowMoves
<1>3. PullsKnown(u)
      BY <1>2 DEF Moves, PullsKnown, PullsLoose
<1> QED BY <1>2, <1>3 DEF Enqueued, v

\* The chunk is in, and the transform stream compares its idea of backpressure with
\* the readable side's.
LEMMA EnqueueCompares ==
    ASSUME NEW t, NEW chunk, MayEnqueue(t, chunk),
           NEW e, Sides(e), Carries(t.readable, e.readable), e.writable = t.writable,
           "start" \in e.readable.sourceCalls <=> "start" \in t.readable.sourceCalls,
           e.transform.algorithms = t.transform.algorithms,
           Leaves(t.transform, e.transform), PullsLoose(e), ~e.threw,
           e.transform = t.transform \/ ~e.transform.backpressure
    PROVE  /\ e.transform.backpressure <=> ~Needs(e.readable) => Enqueued(t, e)
           /\ ~e.transform.backpressure /\ ~Needs(e.readable) =>
                 Enqueued(t, SetBackpressure(e, TRUE))
           /\ e.transform.backpressure /\ Needs(e.readable) =>
                 Enqueued(t, Asserted(e, "enqueue", FALSE))
<1>1. /\ e \in States /\ e.readable.keysMatch = t.readable.keysMatch
      /\ RP!Beside(t.readable, e.readable)
      BY DEF Sides, Carries, RP!Becomes
<1>2. ASSUME e.transform.backpressure <=> ~Needs(e.readable)
      PROVE  Enqueued(t, e)
  <2>1. PullsKnown(e)
        BY <1>2 DEF PullsKnown, PullsLoose
  <2>2. Moves(t, e)
        BY <1>1 DEF Moves
  <2> QED BY <2>1, <2>2 DEF Enqueued
<1>3. ASSUME ~e.transform.backpressure, ~Needs(e.readable)
      PROVE  Enqueued(t, SetBackpressure(e, TRUE))
  <2> DEFINE on == TRUE
             u == SetBackpressure(e, on)
  <2>1. on \in BOOLEAN
        OBVIOUS
  <2> HIDE DEF on
  <2>2. /\ u \in States
        /\ u.readable = e.readable /\ u.writable = e.writable /\ u.threw = e.threw
        /\ u.transform.backpressure = on
        /\ u.transform.algorithms = e.transform.algorithms
        /\ u.transform.failed = e.transform.failed
        /\ Leaves(e.transform, u.transform)
        /\ u.transform.pull =
              IF e.transform.pull = "pending" THEN "resolved" ELSE e.transform.pull
        BY <1>1, <2>1, SetFacts
  <2> HIDE DEF u
  <2>3. Leaves(t.transform, u.transform)
        BY <2>2, LeavesTrans
  <2>4. Sides(u)
        BY <2>2 DEF Sides, Excused, Leaves
  <2>5. Moves(t, u)
        BY <1>1, <2>2, <2>3, <2>4 DEF Moves
  <2>6. on
        BY DEF on
  <2>7. PullsKnown(u)
        BY <1>3, <2>2, <2>6 DEF PullsKnown, PullsLoose
  <2> QED BY <2>2, <2>5, <2>7 DEF Enqueued, u, on
<1>4. ASSUME e.transform.backpressure, Needs(e.readable)
      PROVE  Enqueued(t, Asserted(e, "enqueue", FALSE))
  <2> DEFINE name == "enqueue"
             condition == FALSE
             u == Asserted(e, name, condition)
  <2>1. name \in Assertions /\ condition \in BOOLEAN
        BY DEF Assertions
  <2>2. ~condition
        OBVIOUS
  <2>3. ~(t.transform.transformer = "default" /\ t.readable.keysMatch)
        BY <1>4 DEF MayEnqueue
  <2>4. Excused(t) = {"enqueue", "pull"} /\ name \in Excused(t)
        BY <2>3 DEF Excused
  <2> HIDE DEF name, condition
  <2>5. /\ u \in States
        /\ u.readable = e.readable /\ u.writable = e.writable
        /\ u.transform.failed = e.transform.failed \cup {name}
        /\ u.transform.backpressure = e.transform.backpressure
        /\ u.transform.algorithms = e.transform.algorithms
        /\ u.transform.pull = e.transform.pull
        /\ Leaves(e.transform, u.transform)
        BY <1>1, <2>1, <2>2, AssertedFacts
  <2> HIDE DEF u
  <2>6. Leaves(t.transform, u.transform)
        BY <2>5, LeavesTrans
  <2>7. Excused(u) = Excused(t) /\ Excused(e) = Excused(t)
        BY <1>1, <2>5, <2>6 DEF Excused, Leaves
  <2>8. Sides(u)
        BY <2>4, <2>5, <2>7 DEF Sides
  <2>9. Moves(t, u)
        BY <1>1, <2>5, <2>6, <2>8 DEF Moves
  <2>10. PullsKnown(u)
        BY <1>4, <2>5 DEF PullsKnown, PullsLoose
  <2> QED BY <2>3, <2>9, <2>10 DEF Enqueued, u, name, condition
<1> QED BY <1>2, <1>3, <1>4

LEMMA EnqueueSized ==
    ASSUME NEW t, NEW chunk, MayEnqueue(t, chunk), NEW size \in Sizes
    PROVE  Enqueued(t, Enqueue(t, chunk, size))
<1> DEFINE s == t.readable
           r == R!Enqueue(Offered(s, chunk), chunk, size)
           e == WithReadable(t, r)
           v == [ErrorWritableAndUnblockWrite(e) EXCEPT !.threw = TRUE]
           bp == R!HasBackpressure(e.readable)
           a == Asserted(e, "enqueue", bp)
           threw == R!EnqueueThrows(s) \/ e.threw
<1>1. Enqueue(t, chunk, size) =
          IF threw THEN v
          ELSE IF bp = e.transform.backpressure THEN e
          ELSE IF a.threw THEN a ELSE SetBackpressure(a, TRUE)
  <2> HIDE DEF r
  <2> QED BY DEF Enqueue, Offered, r
<1>2. size \in Nat
      BY TransformStreamAssumption
<1>3. /\ Carries(s, r)
      /\ R!EnqueueThrows(s) => r.sourceCalls = s.sourceCalls
      /\ ~R!EnqueueThrows(s) => RP!Asks(s, r)
      BY <1>2, ReadableEnqueues DEF MayEnqueue, Sides
<1> HIDE DEF r, v, a, e, bp
<1>4. R!EnqueueThrows(s) => ~s.keysMatch
      BY DEF R!EnqueueThrows
<1>5. /\ Sides(t) /\ PullsKnown(t)
      BY DEF MayEnqueue
<1>6. RP!Becomes(s, r) /\ RP!Waits(r)
      BY <1>3 DEF Carries, RP!Beside
<1>7. CASE R!EnqueueThrows(s)
  <2>1. /\ Sides(e) /\ e.readable = r /\ e.writable = t.writable
        /\ Leaves(t.transform, e.transform)
        BY <1>3, <1>4, <1>5, <1>6, <1>7, WithReadableFacts DEF e
  <2>2. Enqueued(t, v)
    <3>1. e.readable.keysMatch = t.readable.keysMatch
          BY <1>6, <2>1 DEF RP!Becomes
    <3>2. "start" \in e.readable.sourceCalls <=> "start" \in t.readable.sourceCalls
          BY <1>3, <1>7, <2>1
    <3> QED BY <1>4, <1>7, <2>1, <3>1, <3>2, EnqueueThrew DEF v
  <2> QED BY <1>1, <1>7, <2>2
<1>8. CASE ~R!EnqueueThrows(s)
  <2>1. /\ Sides(e) /\ e.readable = r /\ e.writable = t.writable
        /\ e.transform.algorithms = t.transform.algorithms
        /\ Leaves(t.transform, e.transform)
        /\ PullsLoose(e)
        /\ t.readable.keysMatch => e.threw = t.threw
        /\ e.transform = t.transform \/ ~e.transform.backpressure
        BY <1>3, <1>5, <1>8, PullsAsked DEF e
  <2>2. "start" \in e.readable.sourceCalls <=> "start" \in t.readable.sourceCalls
        BY <1>3, <1>8, <2>1 DEF RP!Asks
  <2>3. e.readable.keysMatch = t.readable.keysMatch
        BY <1>6, <2>1 DEF RP!Becomes
  <2>4. CASE e.threw
    <3>1. ~t.readable.keysMatch
          BY <2>1, <2>4 DEF MayEnqueue
    <3>2. Enqueued(t, v)
          BY <2>1, <2>2, <2>3, <3>1, EnqueueThrew DEF v
    <3> QED BY <1>1, <2>4, <3>2
  <2>5. CASE ~e.threw
    <3>1. bp <=> ~Needs(e.readable)
          BY SameQueries DEF bp, Needs, R!HasBackpressure
    <3>2. bp \in BOOLEAN /\ e.transform.backpressure \in BOOLEAN /\ e \in States
          BY <2>1, StateFields DEF bp, R!HasBackpressure, Sides, TransformSlots
    <3>3. /\ e.transform.backpressure <=> ~Needs(e.readable) => Enqueued(t, e)
          /\ ~e.transform.backpressure /\ ~Needs(e.readable) =>
                Enqueued(t, SetBackpressure(e, TRUE))
          /\ e.transform.backpressure /\ Needs(e.readable) =>
                Enqueued(t, Asserted(e, "enqueue", FALSE))
          BY <1>3, <2>1, <2>2, <2>5, EnqueueCompares
    <3>4. CASE bp = e.transform.backpressure
          BY <1>1, <1>8, <2>5, <3>1, <3>3, <3>4
    <3>5. CASE bp /\ ~e.transform.backpressure
      <4>1. a = e
            BY <3>5 DEF a, Asserted
      <4> QED BY <1>1, <1>8, <2>5, <3>1, <3>3, <3>5, <4>1
    <3>6. CASE ~bp /\ e.transform.backpressure
      <4>1. a = Asserted(e, "enqueue", FALSE) /\ a.threw
        <5>1. a = Asserted(e, "enqueue", FALSE)
              BY <3>2, <3>6 DEF a, Asserted
        <5>2. [e EXCEPT !.transform.failed = @ \cup {"enqueue"}, !.threw = TRUE].threw
              BY <3>2 DEF States
        <5> QED BY <5>1, <5>2 DEF Asserted
      <4> QED BY <1>1, <1>8, <2>5, <3>1, <3>3, <3>6, <4>1
    <3> QED BY <3>2, <3>4, <3>5, <3>6
  <2> QED BY <2>4, <2>5
<1> QED BY <1>7, <1>8

\* terminate().
LEMMA TerminateMoves ==
    ASSUME NEW t, Sides(t), PullsKnown(t)
    PROVE  LET u == Terminate(t)
           IN  /\ Moves(t, u) /\ PullsKnown(u) /\ (t.readable.keysMatch => Over(u))
               /\ ~u.transform.backpressure
<1> DEFINE r == IF R!CanCloseOrEnqueue(t.readable) THEN R!ControllerClose(t.readable)
                ELSE t.readable
<1>1. Terminate(t) = ErrorWritableAndUnblockWrite([t EXCEPT !.readable = r])
  <2>1. t \in States
        BY DEF Sides
  <2> QED BY <2>1 DEF Terminate, States
<1>2. Ended(t.readable, r)
  <2>1. R!CanCloseOrEnqueue(t.readable) <=> Open(t.readable)
        BY SameQueries DEF Open
  <2>2. Open(t.readable) => Ended(t.readable, R!ControllerClose(t.readable))
        BY ReadableCloses DEF Sides
  <2>3. ~Open(t.readable) => Ended(t.readable, t.readable)
        BY DEF Ended, RP!Becomes, RP!Silent, Sides
  <2> QED BY <2>1, <2>2, <2>3
<1> HIDE DEF r
<1> QED BY <1>1, <1>2, EndedMoves

-----------------------------------------------------------------------------
(* The sink: each method runs when the writable side has just called it.      *)

LEMMA MovesCalls ==
    ASSUME NEW t, NEW u, Moves(t, u)
    PROVE  /\ "write" \in u.writable.sinkCalls <=> "write" \in t.writable.sinkCalls
           /\ "close" \in u.writable.sinkCalls <=> "close" \in t.writable.sinkCalls
           /\ "abort" \in t.writable.sinkCalls => "abort" \in u.writable.sinkCalls
           /\ "start" \in u.writable.sinkCalls <=> "start" \in t.writable.sinkCalls
           /\ t.writable.state # "writable" => u.writable.state # "writable"
<1>1. CASE u.writable = t.writable
      BY <1>1
<1>2. CASE WP!Goes(t.writable, u.writable) /\ u.writable.state # "writable"
  <2>1. /\ t.writable.sinkCalls \subseteq u.writable.sinkCalls
        /\ u.writable.sinkCalls \ t.writable.sinkCalls \subseteq {"abort"}
        BY <1>2 DEF WP!Goes
  <2> QED BY <1>2, <2>1
<1> QED BY <1>1, <1>2 DEF Moves

WriteStates == {"none", "waits", "unblocked", "transforming", "fulfilled", "rejected"}

LEMMA WriteSet ==
    ASSUME NEW t \in States, NEW x \in WriteStates
    PROVE  LET u == [t EXCEPT !.transform.write = x]
           IN  /\ u \in States
               /\ u.readable = t.readable /\ u.writable = t.writable /\ u.threw = t.threw
               /\ u.transform.write = x
               /\ u.transform.transformer = t.transform.transformer
               /\ u.transform.algorithms = t.transform.algorithms
               /\ u.transform.backpressure = t.transform.backpressure
               /\ u.transform.pull = t.transform.pull
               /\ u.transform.close = t.transform.close
               /\ u.transform.abort = t.transform.abort
               /\ u.transform.failed = t.transform.failed
               /\ u.transform.sizeFailed = t.transform.sizeFailed
<1> DEFINE y == [t.transform EXCEPT !.write = x]
           u == [t EXCEPT !.transform = y]
<1>1. t.transform \in TransformSlots
      BY StateFields
<1>2. [t EXCEPT !.transform.write = x] = u
      BY DEF States
<1>3. /\ y \in TransformSlots /\ y.write = x
      /\ y.transformer = t.transform.transformer /\ y.algorithms = t.transform.algorithms
      /\ y.backpressure = t.transform.backpressure /\ y.pull = t.transform.pull
      /\ y.close = t.transform.close /\ y.abort = t.transform.abort
      /\ y.failed = t.transform.failed /\ y.sizeFailed = t.transform.sizeFailed
  <2> DEFINE z == t.transform
  <2> HIDE DEF z
  <2>1. LET v == [z EXCEPT !.write = x]
        IN  z \in TransformSlots =>
            /\ v \in TransformSlots /\ v.write = x
            /\ v.transformer = z.transformer /\ v.algorithms = z.algorithms
            /\ v.backpressure = z.backpressure /\ v.pull = z.pull
            /\ v.close = z.close /\ v.abort = z.abort /\ v.failed = z.failed
            /\ v.sizeFailed = z.sizeFailed
        BY DEF TransformSlots, WriteStates
  <2> QED BY <1>1, <2>1 DEF z
<1> HIDE DEF y
<1>4. /\ u \in States /\ u.readable = t.readable /\ u.writable = t.writable
      /\ u.transform = y /\ u.threw = t.threw
      BY <1>3, StateFields
<1> QED BY <1>2, <1>3, <1>4

\* With the default transformer no chunk waits any longer than the backpressure.
Unblocked(t) ==
    t.readable.keysMatch /\ t.transform.transformer = "default"
    /\ t.transform.write = "unblocked" => ~t.transform.backpressure

\* A chunk that is given to the transformer has the state of the sink's promise
\* overwritten; it is rejected only once the readable side has ended.
Writes(t, u) ==
    \E e, x : /\ Moves(t, e) /\ PullsKnown(e)
              /\ x \in WriteStates \ {"none", "unblocked"}
              /\ t.readable.keysMatch /\ x = "rejected" => ~Open(e.readable)
              /\ u = [e EXCEPT !.transform.write = x]

LEMMA WritesKeeps ==
    ASSUME NEW t, NEW u, Writes(t, u), "write" \in t.writable.sinkCalls
    PROVE  /\ Sides(u) /\ PullsKnown(u) /\ Unblocked(u)
           /\ u.readable.keysMatch = t.readable.keysMatch
           /\ "start" \in u.readable.sourceCalls <=> "start" \in t.readable.sourceCalls
           /\ "start" \in u.writable.sinkCalls <=> "start" \in t.writable.sinkCalls
           /\ t.writable.state # "writable" => u.writable.state # "writable"
           /\ Kept(t) => Kept(u)
           /\ EndsKnown(t) => EndsKnown(u)
           /\ /\ t.transform.close # "none" <=> "close" \in t.writable.sinkCalls
              /\ t.transform.abort # "none" => "abort" \in t.writable.sinkCalls
              => CallsRun(u)
<1>1. PICK e, x : /\ Moves(t, e) /\ PullsKnown(e)
                  /\ x \in WriteStates \ {"none", "unblocked"}
                  /\ t.readable.keysMatch /\ x = "rejected" => ~Open(e.readable)
                  /\ u = [e EXCEPT !.transform.write = x]
      BY DEF Writes
<1>2. Sides(e) /\ e \in States /\ e.readable.keysMatch = t.readable.keysMatch
      /\ Leaves(t.transform, e.transform)
      BY <1>1 DEF Moves, Sides
<1>3. /\ u \in States
      /\ u.readable = e.readable /\ u.writable = e.writable /\ u.threw = e.threw
      /\ u.transform.write = x
      /\ u.transform.transformer = e.transform.transformer
      /\ u.transform.algorithms = e.transform.algorithms
      /\ u.transform.backpressure = e.transform.backpressure
      /\ u.transform.pull = e.transform.pull
      /\ u.transform.close = e.transform.close
      /\ u.transform.abort = e.transform.abort
      /\ u.transform.failed = e.transform.failed /\ u.transform.sizeFailed = e.transform.sizeFailed
      BY <1>1, <1>2, WriteSet
<1>4. Sides(u)
      BY <1>2, <1>3 DEF Sides, Excused
<1>5. PullsKnown(u)
      BY <1>1, <1>3 DEF PullsKnown, PullsLoose
<1>6. Unblocked(u)
      BY <1>1, <1>3 DEF Unblocked
<1>7. /\ "start" \in u.writable.sinkCalls <=> "start" \in t.writable.sinkCalls
      /\ t.writable.state # "writable" => u.writable.state # "writable"
      BY <1>1, <1>3, MovesCalls
<1>8. Kept(t) => Kept(u)
      BY <1>1, <1>3, MovesKeeps DEF Kept
<1>9. ASSUME EndsKnown(t)
      PROVE  EndsKnown(u)
  <2>1. EndsKnown(e)
        BY <1>1, <1>9, MovesKeeps
  <2> QED BY <1>1, <1>2, <1>3, <2>1 DEF EndsKnown
<1>10. ASSUME t.transform.close # "none" <=> "close" \in t.writable.sinkCalls,
              t.transform.abort # "none" => "abort" \in t.writable.sinkCalls
       PROVE  CallsRun(u)
  <2>1. /\ "write" \in e.writable.sinkCalls
        /\ "close" \in e.writable.sinkCalls <=> "close" \in t.writable.sinkCalls
        /\ "abort" \in t.writable.sinkCalls => "abort" \in e.writable.sinkCalls
        BY <1>1, MovesCalls
  <2> QED BY <1>1, <1>2, <1>3, <1>10, <2>1 DEF CallsRun, Leaves
<1>11. "start" \in u.readable.sourceCalls <=> "start" \in t.readable.sourceCalls
      BY <1>1, <1>3 DEF Moves
<1> QED BY <1>2, <1>3, <1>4, <1>5, <1>6, <1>7, <1>8, <1>9, <1>10, <1>11

LEMMA EnqueueMoves ==
    ASSUME NEW t, NEW chunk, MayEnqueue(t, chunk), NEW size
    PROVE  Enqueued(t, Enqueue(t, chunk, size))
BY EnqueueSized, EnqueueUnsized

LEMMA StaysMoves ==
    ASSUME NEW t, Sides(t)
    PROVE  Moves(t, t)
BY DEF Moves, Sides, Leaves, RP!Beside

LEMMA TransformMoves ==
    ASSUME NEW t, Sides(t), PullsKnown(t), ~t.threw, NEW chunk \in Chunks,
           t.transform.algorithms,
           t.transform.transformer = "default" /\ t.readable.keysMatch =>
               ~t.transform.backpressure
    PROVE  Writes(t, Transform(t, chunk))
<1> DEFINE size == t.transform.sizes[chunk]
           e == Enqueue(t, chunk, size)
           u == Transform(t, chunk)
           usable == R!CanCloseOrEnqueue(t.readable)
<1>1. Asserted(t, "transform", t.transform.algorithms) = t
      BY DEF Asserted
<1>2. t \in States
      BY DEF Sides
<1>3. u = IF t.transform.transformer = "user"
          THEN [t EXCEPT !.transform.write = "transforming"]
          ELSE IF ~usable THEN [t EXCEPT !.transform.write = "rejected"]
          ELSE [e EXCEPT !.transform.write = IF e.threw THEN "rejected" ELSE "fulfilled"]
  <2> HIDE DEF e, usable
  <2> QED BY <1>1 DEF Transform, e, usable
<1>4. usable <=> Open(t.readable)
      BY SameQueries DEF Open
<1> HIDE DEF u, usable
<1>5. Moves(t, t)
      BY StaysMoves
<1>6. CASE t.transform.transformer = "user"
  <2>1. u = [t EXCEPT !.transform.write = "transforming"]
        BY <1>3, <1>6
  <2>2. "transforming" \in WriteStates \ {"none", "unblocked"}
        BY DEF WriteStates
  <2> QED BY <1>5, <2>1, <2>2 DEF Writes, u
<1>7. CASE t.transform.transformer # "user" /\ ~usable
  <2>1. u = [t EXCEPT !.transform.write = "rejected"]
        BY <1>3, <1>7
  <2>2. "rejected" \in WriteStates \ {"none", "unblocked"} /\ ~Open(t.readable)
        BY <1>4, <1>7 DEF WriteStates
  <2> QED BY <1>5, <2>1, <2>2 DEF Writes, u
<1>8. CASE t.transform.transformer # "user" /\ usable
  <2>1. t.transform.transformer = "default"
        BY <1>2, <1>8, StateFields DEF TransformSlots
  <2>2. MayEnqueue(t, chunk)
        BY <1>4, <1>8 DEF MayEnqueue
  <2> HIDE DEF size
  <2>3. Enqueued(t, e)
        BY <2>2, EnqueueMoves
  <2> HIDE DEF e
  <2> DEFINE x == IF e.threw THEN "rejected" ELSE "fulfilled"
  <2>4. u = [e EXCEPT !.transform.write = x]
        BY <1>3, <1>8
  <2>5. x \in WriteStates \ {"none", "unblocked"}
        BY DEF WriteStates
  <2>6. t.readable.keysMatch /\ x = "rejected" => ~Open(e.readable)
        BY <2>1, <2>3 DEF Enqueued, Over
  <2> HIDE DEF x
  <2> QED BY <2>3, <2>4, <2>5, <2>6 DEF Writes, Enqueued, u
<1> QED BY <1>6, <1>7, <1>8

LEMMA SinkWriteMoves ==
    ASSUME NEW t, Sides(t), PullsKnown(t), ~t.threw, t.writable.state = "writable",
           "write" \in t.writable.sinkCalls, t.transform.algorithms
    PROVE  Writes(t, SinkWrite(t))
<1> DEFINE u == SinkWrite(t)
<1>1. Asserted(t, "write", t.writable.state = "writable") = t
      BY DEF Asserted
<1>2. u = IF t.transform.backpressure THEN [t EXCEPT !.transform.write = "waits"]
          ELSE Transform(t, t.writable.inFlightWriteRequest)
      BY <1>1 DEF SinkWrite
<1>3. t.writable.inFlightWriteRequest \in Chunks
      BY WorksFacts DEF Sides
<1> HIDE DEF u
<1>4. CASE t.transform.backpressure
  <2>1. u = [t EXCEPT !.transform.write = "waits"] /\ Moves(t, t)
        BY <1>2, <1>4, StaysMoves
  <2>2. "waits" \in WriteStates \ {"none", "unblocked"}
        BY DEF WriteStates
  <2> QED BY <2>1, <2>2 DEF Writes, u
<1>5. CASE ~t.transform.backpressure
  <2>1. Writes(t, Transform(t, t.writable.inFlightWriteRequest))
        BY <1>3, <1>5, TransformMoves
  <2> QED BY <1>2, <1>5, <2>1 DEF u
<1> QED BY <1>4, <1>5

\* What the sink's methods leave.
Ran(c, u) ==
    /\ Sides(u) /\ PullsKnown(u) /\ Unblocked(u) /\ CallsRun(u) /\ Kept(u)
    /\ u.readable.keysMatch = c.readable.keysMatch
    /\ "start" \in u.readable.sourceCalls <=> "start" \in c.readable.sourceCalls
    /\ "start" \in u.writable.sinkCalls <=> "start" \in c.writable.sinkCalls
    /\ c.writable.state # "writable" => u.writable.state # "writable"

LEMMA SinkCloseRuns ==
    ASSUME NEW c, Sides(c), PullsKnown(c), Unblocked(c), c.transform.algorithms, ~c.threw,
           c.writable.inFlightCloseRequest, "close" \in c.writable.sinkCalls,
           c.transform.write # "none" <=> "write" \in c.writable.sinkCalls,
           c.transform.abort # "none" => "abort" \in c.writable.sinkCalls
    PROVE  LET u == SinkClose(c)
           IN  Ran(c, u) /\ (EndsKnown(c) => EndsKnown(u))
<1> DEFINE x == c.transform
           y == [[x EXCEPT !.close = "flushing"] EXCEPT !.algorithms = FALSE]
           u == [c EXCEPT !.transform = y]
<1>1. c \in States /\ x \in TransformSlots
      BY StateFields DEF Sides
<1>2. SinkClose(c) = u
  <2>1. Asserted(c, "flush", c.transform.algorithms) = c
        BY DEF Asserted
  <2> QED BY <1>1, <2>1 DEF SinkClose, States
<1>3. /\ y \in TransformSlots /\ y.close = "flushing"
      /\ y.transformer = x.transformer /\ y.backpressure = x.backpressure
      /\ y.pull = x.pull /\ y.write = x.write /\ y.abort = x.abort /\ y.failed = x.failed
      /\ y.sizeFailed = x.sizeFailed
  <2> HIDE DEF x
  <2> QED BY <1>1 DEF TransformSlots
<1> HIDE DEF y
<1>4. /\ u \in States /\ u.readable = c.readable /\ u.writable = c.writable
      /\ u.transform = y /\ u.threw = c.threw
      BY <1>1, <1>3, StateFields
<1> HIDE DEF u
<1>5. Sides(u)
      BY <1>3, <1>4 DEF Sides, Excused
<1>6. PullsKnown(u) /\ Unblocked(u)
      BY <1>3, <1>4 DEF PullsKnown, PullsLoose, Unblocked
<1>7. CallsRun(u) /\ Kept(u)
      BY <1>3, <1>4 DEF CallsRun, Kept
<1>8. EndsKnown(c) => EndsKnown(u)
      BY <1>3, <1>4 DEF EndsKnown
<1>9. Ran(c, u)
      BY <1>4, <1>5, <1>6, <1>7 DEF Ran
<1> QED BY <1>2, <1>8, <1>9

LEMMA OverEnds ==
    ASSUME NEW u, u.readable.keysMatch => Over(u)
    PROVE  EndsKnown(u)
BY DEF Over, EndsKnown

LEMMA SinkAbortRuns ==
    ASSUME NEW c, Sides(c), PullsKnown(c), c.writable.state = "errored",
           "abort" \in c.writable.sinkCalls, c.transform.abort = "none",
           c.transform.write # "none" <=> "write" \in c.writable.sinkCalls,
           c.transform.close # "none" <=> "close" \in c.writable.sinkCalls
    PROVE  LET u == SinkAbort(c)
           IN  Ran(c, u) /\ EndsKnown(u)
<1> DEFINE e == TransformError(c)
           x == e.transform
           y == [x EXCEPT !.abort = "fulfilled"]
           f == [e EXCEPT !.transform = y]
           u == SinkAbort(c)
<1>1. /\ Moves(c, e) /\ PullsKnown(e)
      /\ c.readable.keysMatch => Over(e) /\ ~e.transform.backpressure
      BY TransformErrorMoves
<1> HIDE DEF e
<1>2. CallsRun(e) /\ Kept(e) /\ EndsKnown(e)
  <2>1. CallsRun(c) /\ Kept(c)
        BY DEF CallsRun, Kept
  <2> QED BY <1>1, <2>1, MovesKeeps
<1>3. Unblocked(e)
      BY <1>1 DEF Unblocked, Moves
<1>4. /\ "abort" \in e.writable.sinkCalls
      /\ "start" \in e.writable.sinkCalls <=> "start" \in c.writable.sinkCalls
      /\ e.writable.state # "writable"
      BY <1>1, MovesCalls
<1>5. /\ Sides(e) /\ e.readable.keysMatch = c.readable.keysMatch
      /\ "start" \in e.readable.sourceCalls <=> "start" \in c.readable.sourceCalls
      BY <1>1 DEF Moves
<1>6. Ran(c, e)
      BY <1>1, <1>2, <1>3, <1>4, <1>5 DEF Ran
<1>7. e \in States /\ x \in TransformSlots
      BY <1>5, StateFields DEF Sides
<1>8. u = IF e.threw THEN e ELSE f
  <2>1. [e EXCEPT !.transform.abort = "fulfilled"] = f
        BY <1>7 DEF States
  <2> HIDE DEF f
  <2> QED BY <2>1 DEF SinkAbort, e
<1>9. Ran(c, f) /\ EndsKnown(f)
  <2>1. /\ y \in TransformSlots /\ y.algorithms = x.algorithms
        /\ y.transformer = x.transformer /\ y.backpressure = x.backpressure
        /\ y.pull = x.pull /\ y.write = x.write /\ y.close = x.close /\ y.failed = x.failed
        /\ y.sizeFailed = x.sizeFailed
    <3> HIDE DEF x
    <3> QED BY <1>7 DEF TransformSlots
  <2> HIDE DEF y
  <2>2. /\ f \in States /\ f.readable = e.readable /\ f.writable = e.writable
        /\ f.transform = y /\ f.threw = e.threw
        BY <1>7, <2>1, StateFields
  <2> HIDE DEF f
  <2>3. Sides(f)
        BY <1>5, <2>1, <2>2 DEF Sides, Excused
  <2>4. PullsKnown(f) /\ Unblocked(f)
        BY <1>1, <1>3, <2>1, <2>2 DEF PullsKnown, PullsLoose, Unblocked
  <2>5. CallsRun(f) /\ Kept(f)
        BY <1>2, <1>4, <2>1, <2>2 DEF CallsRun, Kept
  <2>6. EndsKnown(f)
        BY <1>2, <2>1, <2>2 DEF EndsKnown
  <2> QED BY <1>4, <1>5, <2>2, <2>3, <2>4, <2>5, <2>6 DEF Ran
<1> HIDE DEF f, u
<1> QED BY <1>2, <1>6, <1>8, <1>9 DEF u

\* d is the writable side before, but for the promise that has settled; c is the state
\* with that side as it has become, before the sink's method runs.
Ready(d, c) ==
    /\ Sides(c) /\ PullsKnown(c) /\ Unblocked(c) /\ ~c.threw
    /\ WP!Goes(d, c.writable)
    /\ c.transform.write # "none" <=> "write" \in d.sinkCalls
    /\ c.transform.close # "none" <=> "close" \in d.sinkCalls
    /\ c.transform.abort # "none" => "abort" \in d.sinkCalls
    /\ d.state = "writable" /\ ~d.inFlightCloseRequest => c.transform.algorithms

Called(d, c) == c.writable.sinkCalls \ d.sinkCalls

\* The method of the sink that was called runs.
AfterSink(d, c) ==
    CASE Called(d, c) = {"write"} -> SinkWrite(c)
      [] Called(d, c) = {"close"} -> SinkClose(c)
      [] Called(d, c) = {"abort"} -> SinkAbort(c)
      [] OTHER -> c

LEMMA SinkRuns ==
    ASSUME NEW d, NEW c, Ready(d, c)
    PROVE  LET u == AfterSink(d, c)
           IN  /\ Ran(c, u)
               /\ EndsKnown(c) \/ Called(d, c) = {"abort"} => EndsKnown(u)
<1> DEFINE u == AfterSink(d, c)
           new == c.writable.sinkCalls \ d.sinkCalls
<1>1. Sides(c) /\ PullsKnown(c) /\ Unblocked(c) /\ ~c.threw
      BY DEF Ready
<1>2. /\ d.sinkCalls \subseteq c.writable.sinkCalls
      /\ \/ new = {}
         \/ new = {"write"} /\ c.writable.state = "writable"
         \/ new = {"close"} /\ c.writable.state = "writable" /\ ~d.inFlightCloseRequest
         \/ new = {"abort"} /\ c.writable.state = "errored"
      /\ d.state # "writable" => c.writable.state # "writable"
      /\ d.inFlightCloseRequest =>
            c.writable.inFlightCloseRequest \/ c.writable.state # "writable"
      /\ c.writable.inFlightCloseRequest => d.inFlightCloseRequest \/ new = {"close"}
      BY DEF Ready, WP!Goes
<1>3. Called(d, c) = new
      BY DEF Called
<1> HIDE DEF new
<1>4. \A call : call \in c.writable.sinkCalls <=> call \in d.sinkCalls \/ call \in new
      BY <1>2 DEF new
<1>5. /\ c.transform.write # "none" <=> "write" \in d.sinkCalls
      /\ c.transform.close # "none" <=> "close" \in d.sinkCalls
      /\ c.transform.abort # "none" => "abort" \in d.sinkCalls
      /\ d.state = "writable" /\ ~d.inFlightCloseRequest => c.transform.algorithms
      BY DEF Ready
<1>6. CASE new = {}
  <2>1. u = c
        BY <1>3, <1>6 DEF AfterSink
  <2>2. CallsRun(c)
        BY <1>4, <1>5, <1>6 DEF CallsRun
  <2>3. Kept(c)
        BY <1>2, <1>5, <1>6 DEF Kept
  <2> QED BY <1>1, <1>3, <1>6, <2>1, <2>2, <2>3 DEF Ran
<1>7. CASE new = {"write"} /\ c.writable.state = "writable"
  <2>1. u = SinkWrite(c)
        BY <1>3, <1>7 DEF AfterSink
  <2> HIDE DEF u
  <2>2. "write" \in c.writable.sinkCalls
        BY <1>4, <1>7
  <2>3. ~c.writable.inFlightCloseRequest
        BY <1>1, <2>2, WorksFacts DEF Sides
  <2>4. c.transform.algorithms
        BY <1>2, <1>5, <1>7, <2>3
  <2>5. Kept(c)
        BY <2>4 DEF Kept
  <2>6. Writes(c, u)
        BY <1>1, <1>7, <2>1, <2>2, <2>4, SinkWriteMoves
  <2>7. /\ c.transform.close # "none" <=> "close" \in c.writable.sinkCalls
        /\ c.transform.abort # "none" => "abort" \in c.writable.sinkCalls
        BY <1>4, <1>5, <1>7
  <2>8. /\ Sides(u) /\ PullsKnown(u) /\ Unblocked(u)
        /\ u.readable.keysMatch = c.readable.keysMatch
        /\ "start" \in u.readable.sourceCalls <=> "start" \in c.readable.sourceCalls
        /\ "start" \in u.writable.sinkCalls <=> "start" \in c.writable.sinkCalls
        /\ c.writable.state # "writable" => u.writable.state # "writable"
        /\ Kept(u) /\ CallsRun(u) /\ (EndsKnown(c) => EndsKnown(u))
        BY <2>2, <2>5, <2>6, <2>7, WritesKeeps
  <2> QED BY <1>3, <1>7, <2>8 DEF Ran, u
<1>8. CASE new = {"close"} /\ c.writable.state = "writable" /\ ~d.inFlightCloseRequest
  <2>1. u = SinkClose(c)
        BY <1>3, <1>8 DEF AfterSink
  <2> HIDE DEF u
  <2>2. "close" \in c.writable.sinkCalls
        BY <1>4, <1>8
  <2>3. c.writable.inFlightCloseRequest
        BY <1>1, <2>2, WorksFacts DEF Sides
  <2>4. c.transform.algorithms
        BY <1>2, <1>5, <1>8
  <2>5. /\ c.transform.write # "none" <=> "write" \in c.writable.sinkCalls
        /\ c.transform.abort # "none" => "abort" \in c.writable.sinkCalls
        BY <1>4, <1>5, <1>8
  <2>6. Ran(c, u) /\ (EndsKnown(c) => EndsKnown(u))
        BY <1>1, <2>1, <2>2, <2>3, <2>4, <2>5, SinkCloseRuns
  <2> QED BY <1>3, <1>8, <2>6 DEF u
<1>9. CASE new = {"abort"} /\ c.writable.state = "errored"
  <2>1. u = SinkAbort(c)
        BY <1>3, <1>9 DEF AfterSink
  <2> HIDE DEF u
  <2>2. "abort" \in c.writable.sinkCalls /\ "abort" \notin d.sinkCalls
        BY <1>4, <1>9 DEF new
  <2>3. /\ c.transform.write # "none" <=> "write" \in c.writable.sinkCalls
        /\ c.transform.close # "none" <=> "close" \in c.writable.sinkCalls
        /\ c.transform.abort = "none"
        BY <1>4, <1>5, <1>9, <2>2
  <2>4. Ran(c, u) /\ EndsKnown(u)
        BY <1>1, <1>9, <2>1, <2>2, <2>3, SinkAbortRuns
  <2> QED BY <2>4 DEF u
<1> QED BY <1>2, <1>6, <1>7, <1>8, <1>9

-----------------------------------------------------------------------------
(* The invariant.                                                             *)

Tied(t) == StartsTogether(t) /\ CallsRun(t) /\ Kept(t) /\ EndsKnown(t)

TransformInvariant(t) == Sides(t) /\ Tied(t) /\ PullsKnown(t) /\ Unblocked(t)

\* The promise of the sink's call has settled and the reaction has run: d is the writable
\* side without it, x what is left of the promises of the transform stream.
LEMMA SinkKnown ==
    ASSUME NEW t, Sides(t), EndsKnown(t), NEW d, NEW c,
           c.readable = t.readable,
           d.state = t.writable.state, d.keysMatch = t.writable.keysMatch,
           d.pendingAbortRequest = t.writable.pendingAbortRequest,
           WP!Goes(d, c.writable),
           c.transform.write \in {t.transform.write, "none"},
           c.transform.close \in {t.transform.close, "none"},
           c.transform.sizeFailed = t.transform.sizeFailed,
           \/ WP!Ends(d, c.writable) \/ t.transform.sizeFailed
           \/ t.readable.keysMatch => ~Open(t.readable)
    PROVE  EndsKnown(c) \/ Called(d, c) = {"abort"}
<1> SUFFICES ASSUME t.readable.keysMatch, Called(d, c) # {"abort"}
             PROVE  EndsKnown(c)
    BY DEF EndsKnown
<1>1. /\ t.readable.state = "errored" \/ t.readable.cancelled => t.writable.state # "writable"
      /\ t.writable.state \in {"errored", "closed"} =>
            ~Open(t.readable) \/ t.transform.sizeFailed
      /\ t.writable.state = "erroring" =>
            \/ ~Open(t.readable) \/ t.transform.sizeFailed
            \/ t.writable.pendingAbortRequest = "made"
      /\ t.transform.write = "rejected" /\ t.writable.state = "writable" => ~Open(t.readable)
      /\ t.transform.close \in {"fulfilled", "rejected"} => ~Open(t.readable)
      BY DEF EndsKnown
<1>2. d.state # "writable" => c.writable.state # "writable"
      BY DEF WP!Goes
<1>3. CASE ~Open(t.readable)
      BY <1>1, <1>2, <1>3 DEF EndsKnown
<1>4. CASE t.transform.sizeFailed
      BY <1>1, <1>2, <1>4 DEF EndsKnown
<1>5. CASE WP!Ends(d, c.writable) /\ ~t.transform.sizeFailed
  <2>1. d.keysMatch
        BY DEF Sides
  <2>2. /\ c.writable.state = "erroring" =>
              \/ c.writable.pendingAbortRequest = "made"
              \/ d.state = "erroring" /\ d.pendingAbortRequest # "made"
        /\ c.writable.state \in {"errored", "closed"} =>
              \/ c.writable.state = d.state
              \/ d.state = "erroring" /\ d.pendingAbortRequest # "made"
        BY <1>5, <2>1 DEF WP!Ends, Called
  <2>3. c.writable.state = "erroring" =>
           ~Open(t.readable) \/ c.writable.pendingAbortRequest = "made"
        BY <1>1, <1>5, <2>2
  <2>4. c.writable.state \in {"errored", "closed"} => ~Open(t.readable)
        BY <1>1, <1>5, <2>2
  <2>5. c.transform.write = "rejected" /\ c.writable.state = "writable" => ~Open(t.readable)
        BY <1>1, <1>2
  <2>6. c.transform.close \in {"fulfilled", "rejected"} => ~Open(t.readable)
        BY <1>1
  <2>7. t.readable.state = "errored" \/ t.readable.cancelled => c.writable.state # "writable"
        BY <1>1, <1>2
  <2> QED BY <2>3, <2>4, <2>5, <2>6, <2>7 DEF EndsKnown
<1> QED BY <1>3, <1>4, <1>5

\* The same for a side that has become w by a call of the program.
LEMMA WithWritableRuns ==
    ASSUME NEW t, TransformInvariant(t), ~t.threw,
           NEW w, Works(w), WP!Goes(t.writable, w),
           WP!Ends(t.writable, w) \/ t.transform.sizeFailed
    PROVE  TransformInvariant(WithWritable(t, w))
<1> DEFINE c == [t EXCEPT !.writable = w]
           d == t.writable
           u == AfterSink(d, c)
<1>1. t \in States /\ w \in W!Slots
      BY WorksFacts DEF TransformInvariant, Sides
<1>2. /\ c \in States /\ c.readable = t.readable /\ c.writable = w
      /\ c.transform = t.transform /\ c.threw = t.threw
      BY <1>1, StateFields
<1>3. WithWritable(t, w) = u
  <2> HIDE DEF c
  <2> QED BY <1>2 DEF WithWritable, AfterSink, Called, c
<1> HIDE DEF c, u
<1>4. Sides(c)
      BY <1>2 DEF TransformInvariant, Sides, Excused, WP!Goes
<1>5. Ready(d, c)
  <2>1. PullsKnown(c) /\ Unblocked(c)
        BY <1>2 DEF TransformInvariant, PullsKnown, PullsLoose, Unblocked
  <2>2. CallsRun(t) /\ Kept(t)
        BY DEF TransformInvariant, Tied
  <2> QED BY <1>2, <1>4, <2>1, <2>2 DEF Ready, CallsRun, Kept
<1>6. EndsKnown(c) \/ Called(d, c) = {"abort"}
      BY <1>2, SinkKnown DEF TransformInvariant, Tied
<1>7. Ran(c, u) /\ EndsKnown(u)
      BY <1>5, <1>6, SinkRuns DEF u
<1>8. StartsTogether(u)
  <2>1. StartsTogether(t)
        BY DEF TransformInvariant, Tied
  <2>2. w.sinkCalls \ t.writable.sinkCalls \subseteq {"write", "close", "abort"}
        /\ t.writable.sinkCalls \subseteq w.sinkCalls
        BY DEF WP!Goes
  <2>3. "start" \in w.sinkCalls <=> "start" \in t.writable.sinkCalls
        BY <2>2
  <2> QED BY <1>2, <1>7, <2>1, <2>3 DEF Ran, StartsTogether
<1> QED BY <1>3, <1>7, <1>8 DEF Ran, TransformInvariant, Tied

\* What an action leaves behind: the history variables of the readable side rest and
\* no exception is passing.
LEMMA BecomeKeeps ==
    ASSUME NEW t, TransformInvariant(t), Become(t)
    PROVE  TransformInvariant(Now)'
<1> DEFINE s == t.readable
           r == Rested(s)
           v == [readable |-> r, writable |-> t.writable, transform |-> t.transform,
                 threw |-> FALSE]
<1>1. Now' = v
      BY DEF Become, Now, Rested
<1>2. RP!Sound(s) /\ RP!Waits(s) /\ t \in States /\ s.reader
      BY DEF TransformInvariant, Sides
<1>3. RP!Alike(s, r) /\ RP!Sound(r) /\ (Needs(r) <=> Needs(s))
      BY <1>2, ReadableRests
<1> HIDE DEF r
<1>4. r \in R!Slots
      BY <1>3, SameReadable DEF RP!Sound
<1>5. /\ v \in States /\ v.readable = r /\ v.writable = t.writable
      /\ v.transform = t.transform /\ v.threw = FALSE
      BY <1>2, <1>4, StateFields DEF States
<1> HIDE DEF v
<1>6. /\ r.keysMatch = s.keysMatch /\ r.sourceCalls = s.sourceCalls
      /\ r.pulling = s.pulling /\ r.pullAgain = s.pullAgain /\ r.state = s.state
      /\ r.cancelled = s.cancelled /\ (Open(r) <=> Open(s)) /\ RP!Waits(r) /\ r.reader
      BY <1>2, <1>3 DEF RP!Alike, Open, RP!CanCloseOrEnqueue, RP!Waits
<1>7. Sides(v)
      BY <1>3, <1>5, <1>6 DEF TransformInvariant, Sides, Excused
<1>8. PullsKnown(v)
      BY <1>3, <1>5, <1>6 DEF TransformInvariant, PullsKnown, PullsLoose
<1>9. StartsTogether(v) /\ CallsRun(v) /\ Kept(v) /\ Unblocked(v)
      BY <1>5, <1>6 DEF TransformInvariant, Tied, StartsTogether, CallsRun, Kept, Unblocked
<1>10. EndsKnown(v)
      BY <1>5, <1>6 DEF TransformInvariant, Tied, EndsKnown
<1>11. TransformInvariant(v)
      BY <1>7, <1>8, <1>9, <1>10 DEF TransformInvariant, Tied
<1>12. TransformInvariant(Now')
      BY <1>1, <1>11
<1> QED BY <1>12

LEMMA NowFields ==
    ASSUME NEW t, t = Now
    PROVE  /\ t.readable = readable /\ t.writable = writable /\ t.transform = transform
           /\ t.threw = FALSE
BY DEF Now

\* Where backpressure is what it was or has ended, no write is unblocked against it.
LEMMA MovesInvariant ==
    ASSUME NEW t, TransformInvariant(t), NEW u, Moves(t, u), PullsKnown(u),
           t.transform.transformer = "user" \/ u.transform = t.transform
           \/ (t.readable.keysMatch => ~u.transform.backpressure)
    PROVE  TransformInvariant(u)
<1>1. Tied(u)
      BY MovesKeeps DEF TransformInvariant, Tied
<1>2. Unblocked(u)
      BY DEF TransformInvariant, Unblocked, Moves, Leaves
<1> QED BY <1>1, <1>2 DEF TransformInvariant, Moves

-----------------------------------------------------------------------------
(* The actions of the program.                                                *)

\* The history is marked before the writable side changes.
LEMMA FailedMarks ==
    ASSUME NEW t, TransformInvariant(t), NEW b \in BOOLEAN
    PROVE  LET u == [t EXCEPT !.transform.sizeFailed = @ \/ b]
           IN  /\ TransformInvariant(u)
               /\ u.writable = t.writable /\ u.threw = t.threw
               /\ b => u.transform.sizeFailed
<1> DEFINE x == t.transform
           y == [x EXCEPT !.sizeFailed = @ \/ b]
           u == [t EXCEPT !.transform = y]
<1>1. t \in States /\ x \in TransformSlots
      BY StateFields DEF TransformInvariant, Sides
<1>2. [t EXCEPT !.transform.sizeFailed = @ \/ b] = u
      BY <1>1 DEF States
<1>3. /\ y \in TransformSlots /\ y.sizeFailed = (x.sizeFailed \/ b)
      /\ y.transformer = x.transformer /\ y.algorithms = x.algorithms
      /\ y.backpressure = x.backpressure /\ y.pull = x.pull /\ y.write = x.write
      /\ y.close = x.close /\ y.abort = x.abort /\ y.failed = x.failed
  <2> HIDE DEF x
  <2> QED BY <1>1 DEF TransformSlots
<1> HIDE DEF y
<1>4. /\ u \in States /\ u.readable = t.readable /\ u.writable = t.writable
      /\ u.transform = y /\ u.threw = t.threw
      BY <1>1, <1>3, StateFields
<1> HIDE DEF u
<1>5. Sides(u)
      BY <1>3, <1>4 DEF TransformInvariant, Sides, Excused
<1>6. PullsKnown(u) /\ Unblocked(u)
      BY <1>3, <1>4 DEF TransformInvariant, PullsKnown, PullsLoose, Unblocked
<1>7. StartsTogether(u) /\ CallsRun(u) /\ Kept(u)
      BY <1>3, <1>4 DEF TransformInvariant, Tied, StartsTogether, CallsRun, Kept
<1>8. EndsKnown(u)
      BY <1>3, <1>4 DEF TransformInvariant, Tied, EndsKnown
<1> QED BY <1>2, <1>3, <1>4, <1>5, <1>6, <1>7, <1>8 DEF TransformInvariant, Tied

LEMMA WriteKeeps ==
    ASSUME TransformInvariant(Now), Write
    PROVE  TransformInvariant(Now)'
<1> DEFINE chunk == CHOOSE c \in Chunks : writable.promise[c] = "none"
           sizing == W!Sizing(writable, chunk)
           written == {W!WriteSized(sizing, size) : size \in WritableSizes \cup {None}}
                         \cup {W!SizeThrew(sizing)}
           failed(w) == writable.state = "writable" /\ w.state # "writable"
           t == Now
           marked(w) == [t EXCEPT !.transform.sizeFailed = @ \/ failed(w)]
<1>1. chunk \in Chunks /\ writable.promise[chunk] = "none"
      BY DEF Write
<1>2. PICK w \in written : Become(WithWritable(marked(w), w))
      BY DEF Write, Written
<1>3. t.writable = writable /\ ~t.threw
      BY NowFields
<1> HIDE DEF chunk, t
<1>4. Works(w) /\ WP!Goes(writable, w) /\ (WP!Ends(writable, w) \/ failed(w))
  <2>1. Works(writable)
        BY <1>3 DEF TransformInvariant, Sides, t
  <2> QED BY <1>1, <1>2, <2>1, WritableWrites
<1> HIDE DEF sizing, written
<1>5. /\ TransformInvariant(marked(w)) /\ marked(w).writable = writable /\ ~marked(w).threw
      /\ failed(w) => marked(w).transform.sizeFailed
  <2>1. failed(w) \in BOOLEAN /\ TransformInvariant(t)
        BY DEF t
  <2> HIDE DEF failed
  <2> QED BY <1>3, <2>1, FailedMarks
<1> HIDE DEF marked, failed
<1>6. TransformInvariant(WithWritable(marked(w), w))
      BY <1>4, <1>5, WithWritableRuns
<1> QED BY <1>2, <1>6, BecomeKeeps

LEMMA CloseKeeps ==
    ASSUME TransformInvariant(Now), Close
    PROVE  TransformInvariant(Now)'
<1> DEFINE w == W!CloseStream(writable)
           t == Now
<1>1. /\ ~W!CloseQueuedOrInFlight(writable) /\ writable.state \in {"writable", "erroring"}
      /\ Become(WithWritable(t, w))
      BY DEF Close
<1>2. t.writable = writable /\ ~t.threw
      BY NowFields
<1>3. Works(w) /\ WP!Goes(writable, w) /\ WP!Ends(writable, w)
      BY <1>1, <1>2, WritableCloses DEF TransformInvariant, Sides
<1> HIDE DEF w, t
<1>4. TransformInvariant(WithWritable(t, w))
      BY <1>2, <1>3, WithWritableRuns DEF t
<1> QED BY <1>1, <1>4, BecomeKeeps

LEMMA AbortKeeps ==
    ASSUME TransformInvariant(Now), Abort
    PROVE  TransformInvariant(Now)'
<1> DEFINE w == W!AbortStream(writable)
           t == Now
<1>1. Become(WithWritable(t, w))
      BY DEF Abort
<1>2. t.writable = writable /\ ~t.threw
      BY NowFields
<1>3. Works(w) /\ WP!Goes(writable, w) /\ WP!Ends(writable, w)
      BY <1>2, WritableAborts DEF TransformInvariant, Sides
<1> HIDE DEF w, t
<1>4. TransformInvariant(WithWritable(t, w))
      BY <1>2, <1>3, WithWritableRuns DEF t
<1> QED BY <1>1, <1>4, BecomeKeeps

LEMMA ReadKeeps ==
    ASSUME TransformInvariant(Now), Read
    PROVE  TransformInvariant(Now)'
<1> DEFINE t == Now
           s == t.readable
           r == R!Read(s)
           u == WithReadable(t, r)
<1>1. R!CanRead(s) /\ Become(u) /\ ~t.threw
      BY NowFields DEF Read
<1>2. Sides(t) /\ PullsKnown(t)
      BY DEF TransformInvariant
<1> HIDE DEF t
<1>3. /\ Carries(s, r)
      /\ ~Open(s) => RP!Silent(s, r)
      /\ Open(s) => RP!Asks(s, r) /\ (Needs(s) => Needs(r))
      BY <1>1, <1>2, ReadableRead DEF Sides
<1>4. /\ RP!Becomes(s, r) /\ RP!Beside(s, r) /\ RP!Waits(r)
      /\ r.keysMatch = s.keysMatch /\ (Open(r) => Open(s))
      BY <1>3 DEF Carries, RP!Becomes, RP!Beside, Open
<1> HIDE DEF r, u
<1>5. ASSUME /\ Sides(u) /\ u.readable = r /\ u.writable = t.writable
             /\ u.transform.algorithms = t.transform.algorithms
             /\ Leaves(t.transform, u.transform)
             /\ "start" \in r.sourceCalls <=> "start" \in s.sourceCalls
      PROVE  Moves(t, u)
      BY <1>4, <1>5 DEF Moves
<1>6. CASE Open(s)
  <2>1. /\ Sides(u) /\ u.readable = r /\ u.writable = t.writable
        /\ u.transform.algorithms = t.transform.algorithms
        /\ Leaves(t.transform, u.transform)
        /\ u.transform = t.transform \/ ~u.transform.backpressure
        /\ t.readable.keysMatch /\ (Needs(s) => Needs(r)) => PullsKnown(u)
        BY <1>2, <1>3, <1>6, PullsAsked DEF u
  <2>2. PullsKnown(u)
        BY <1>3, <1>4, <1>6, <2>1 DEF PullsKnown, PullsLoose
  <2>3. Moves(t, u)
        BY <1>3, <1>5, <1>6, <2>1 DEF RP!Asks
  <2>4. TransformInvariant(u)
        BY <2>1, <2>2, <2>3, MovesInvariant DEF t
  <2> QED BY <1>1, <2>4, BecomeKeeps
<1>7. CASE ~Open(s)
  <2>1. r.sourceCalls = s.sourceCalls
        BY <1>3, <1>7 DEF RP!Silent
  <2>2. /\ Sides(u) /\ u.readable = r /\ u.writable = t.writable
        /\ u.transform = t.transform /\ Leaves(t.transform, u.transform)
        BY <1>2, <1>4, <2>1, WithReadableFacts DEF u
  <2>3. PullsKnown(u)
        BY <1>2, <1>3, <1>4, <1>7, <2>2, PullsSilent
  <2>4. Moves(t, u)
        BY <1>5, <2>1, <2>2
  <2>5. TransformInvariant(u)
        BY <2>2, <2>3, <2>4, MovesInvariant DEF t
  <2> QED BY <1>1, <2>5, BecomeKeeps
<1> QED BY <1>6, <1>7

LEMMA CancelKeeps ==
    ASSUME TransformInvariant(Now), Cancel
    PROVE  TransformInvariant(Now)'
<1> DEFINE t == Now
           r == R!Cancel(readable)
           u == ErrorWritableAndUnblockWrite([t EXCEPT !.readable = r])
<1>1. t.readable = readable
      BY NowFields
<1>2. readable.state = "readable" /\ Become(u)
      BY <1>1 DEF Cancel, Now
<1>3. Sides(t) /\ PullsKnown(t)
      BY DEF TransformInvariant
<1> HIDE DEF t
<1>4. Ended(t.readable, r)
      BY <1>1, <1>2, <1>3, ReadableCancels DEF Sides
<1> HIDE DEF r
<1>5. Moves(t, u) /\ PullsKnown(u) /\ ~u.transform.backpressure
      BY <1>3, <1>4, EndedMoves
<1> HIDE DEF u
<1>6. TransformInvariant(u)
      BY <1>5, MovesInvariant DEF t
<1> QED BY <1>2, <1>6, BecomeKeeps

LEMMA TransformerKeeps ==
    ASSUME TransformInvariant(Now),
           TransformerEnqueues \/ TransformerErrors \/ TransformerTerminates
    PROVE  TransformInvariant(Now)'
<1> DEFINE t == Now
<1>1. t.readable = readable /\ t.transform = transform /\ ~t.threw
      BY NowFields
<1>2. Sides(t) /\ PullsKnown(t)
      BY DEF TransformInvariant
<1>3. transform.transformer = "user"
      BY DEF TransformerEnqueues, TransformerErrors, TransformerTerminates
<1>4. CASE TransformerEnqueues
  <2>1. PICK chunk \in Outputs \ readable.offered, size \in Sizes \cup {None} :
            Become(Enqueue(t, chunk, size))
        BY <1>4 DEF TransformerEnqueues
  <2>2. Open(readable)
        BY <1>4, SameQueries DEF TransformerEnqueues, Open
  <2> HIDE DEF t
  <2> DEFINE u == Enqueue(t, chunk, size)
  <2>3. MayEnqueue(t, chunk)
        BY <1>1, <1>2, <1>3, <2>2 DEF MayEnqueue
  <2>4. Moves(t, u) /\ PullsKnown(u)
        BY <2>3, EnqueueMoves DEF Enqueued
  <2> HIDE DEF u
  <2>5. TransformInvariant(u)
        BY <1>1, <1>3, <2>4, MovesInvariant DEF t
  <2> QED BY <2>1, <2>5, BecomeKeeps DEF u
<1>5. CASE TransformerErrors
  <2> DEFINE u == TransformError(t)
  <2>1. Become(u)
        BY <1>5 DEF TransformerErrors
  <2> HIDE DEF t
  <2>2. Moves(t, u) /\ PullsKnown(u)
        BY <1>2, TransformErrorMoves
  <2> HIDE DEF u
  <2>3. TransformInvariant(u)
        BY <1>1, <1>3, <2>2, MovesInvariant DEF t
  <2> QED BY <2>1, <2>3, BecomeKeeps
<1>6. CASE TransformerTerminates
  <2> DEFINE u == Terminate(t)
  <2>1. Become(u)
        BY <1>6 DEF TransformerTerminates
  <2> HIDE DEF t
  <2>2. Moves(t, u) /\ PullsKnown(u)
        BY <1>2, TerminateMoves
  <2> HIDE DEF u
  <2>3. TransformInvariant(u)
        BY <1>1, <1>3, <2>2, MovesInvariant DEF t
  <2> QED BY <2>1, <2>3, BecomeKeeps
<1> QED BY <1>4, <1>5, <1>6

-----------------------------------------------------------------------------
(* Promises settle.                                                           *)

\* The promise that start() resolves reaches the writable side first.
LEMMA StartRuns ==
    ASSUME NEW t, TransformInvariant(t), ~t.threw, "start" \in t.readable.sourceCalls,
           NEW w, Works(w), WP!Goes(W!Settled(t.writable, "start"), w), "start" \notin w.sinkCalls
    PROVE  LET f == WithWritable(t, w)
           IN  /\ Sides(f) /\ PullsKnown(f) /\ Unblocked(f) /\ CallsRun(f) /\ Kept(f)
               /\ "start" \in f.readable.sourceCalls /\ "start" \notin f.writable.sinkCalls
               /\ w.state # "writable" => f.writable.state # "writable"
               /\ WP!Ends(W!Settled(t.writable, "start"), w) => EndsKnown(f)
<1> DEFINE c == [t EXCEPT !.writable = w]
           call == "start"
           s == t.writable
           d == W!Settled(s, call)
           f == AfterSink(d, c)
<1>1. t \in States /\ w \in W!Slots /\ Works(s)
      BY WorksFacts DEF TransformInvariant, Sides
<1>2. /\ c \in States /\ c.readable = t.readable /\ c.writable = w
      /\ c.transform = t.transform /\ c.threw = t.threw
      BY <1>1, StateFields
<1>3. /\ d.keysMatch = s.keysMatch /\ d.writer = s.writer /\ d.state = s.state
      /\ d.sinkCalls = s.sinkCalls \ {call}
      /\ d.inFlightCloseRequest = s.inFlightCloseRequest
      /\ d.pendingAbortRequest = s.pendingAbortRequest
      BY <1>1, WritableSettles
<1> HIDE DEF d
<1>4. WP!Goes(d, w) /\ call \notin w.sinkCalls
      BY DEF d
<1>5. WithWritable(t, w) = f
  <2>1. w.sinkCalls \ s.sinkCalls = w.sinkCalls \ d.sinkCalls
        BY <1>3, <1>4
  <2> HIDE DEF c
  <2> QED BY <1>2, <2>1 DEF WithWritable, AfterSink, Called, c
<1> HIDE DEF c, f
<1>6. Sides(c)
      BY <1>2, <1>3, <1>4 DEF TransformInvariant, Sides, Excused, WP!Goes
<1>7. /\ "write" \in d.sinkCalls <=> "write" \in s.sinkCalls
      /\ "close" \in d.sinkCalls <=> "close" \in s.sinkCalls
      /\ "abort" \in d.sinkCalls <=> "abort" \in s.sinkCalls
      BY <1>3
<1>8. Ready(d, c)
  <2>1. PullsKnown(c) /\ Unblocked(c)
        BY <1>2 DEF TransformInvariant, PullsKnown, PullsLoose, Unblocked
  <2>2. CallsRun(t) /\ Kept(t)
        BY DEF TransformInvariant, Tied
  <2> QED BY <1>2, <1>3, <1>4, <1>6, <1>7, <2>1, <2>2 DEF Ready, CallsRun, Kept
<1>9. Ran(c, f) /\ (EndsKnown(c) \/ Called(d, c) = {"abort"} => EndsKnown(f))
      BY <1>8, SinkRuns DEF f
<1>10. WP!Ends(d, w) => EndsKnown(c) \/ Called(d, c) = {"abort"}
  <2> SUFFICES ASSUME WP!Ends(d, w)
               PROVE  EndsKnown(c) \/ Called(d, c) = {"abort"}
      OBVIOUS
  <2> QED BY <1>2, <1>3, <1>4, SinkKnown DEF TransformInvariant, Tied
<1> QED BY <1>2, <1>4, <1>5, <1>9, <1>10 DEF Ran, d

\* And then the readable side, which may be pulled.
LEMMA StartFulfilled ==
    ASSUME NEW f, Sides(f), PullsKnown(f), Unblocked(f), CallsRun(f), Kept(f), EndsKnown(f),
           "start" \in f.readable.sourceCalls, "start" \notin f.writable.sinkCalls
    PROVE  TransformInvariant(WithReadable(f, R!FinishStart(f.readable)))
<1> DEFINE s == f.readable
           d == R!Settled(s, "start")
           r == R!FinishStart(s)
           u == WithReadable(f, r)
<1>1. /\ d.sourceCalls = s.sourceCalls \ {"start"} /\ d.pulling = s.pulling
      /\ Carries(s, r) /\ RP!Asks(d, r)
      BY ReadableStarts DEF Sides
<1>2. ~Needs(s)
      BY DEF Sides, RP!Sound, Needs, RP!ShouldCallPull
<1> HIDE DEF d, r
<1>3. /\ Sides(u) /\ u.readable = r /\ u.writable = f.writable
      /\ u.transform.algorithms = f.transform.algorithms
      /\ Leaves(f.transform, u.transform)
      /\ u.transform = f.transform \/ ~u.transform.backpressure
      /\ s.keysMatch /\ (Needs(s) => Needs(r)) => PullsKnown(u)
      BY <1>1, PullsAsked
<1> HIDE DEF u
<1>4. r.keysMatch = s.keysMatch /\ RP!Beside(s, r) /\ (Open(r) => Open(s))
      BY <1>1 DEF Carries, RP!Becomes, RP!Beside, Open
<1>5. PullsKnown(u)
      BY <1>2, <1>3, <1>4 DEF PullsKnown, PullsLoose
<1>6. "start" \notin r.sourceCalls
      BY <1>1 DEF RP!Asks
<1>7. StartsTogether(u)
      BY <1>3, <1>6 DEF StartsTogether
<1>8. CallsRun(u)
      BY <1>3 DEF CallsRun, Leaves
<1>9. Kept(u)
      BY <1>3 DEF Kept
<1>10. EndsKnown(u)
      BY <1>3, <1>4 DEF EndsKnown, Leaves, RP!Beside
<1>11. Unblocked(u)
      BY <1>3, <1>4 DEF Unblocked, Leaves
<1> QED BY <1>3, <1>5, <1>7, <1>8, <1>9, <1>10, <1>11 DEF TransformInvariant, Tied, u, r

LEMMA StartRejected ==
    ASSUME NEW f, Sides(f), PullsKnown(f), Unblocked(f), CallsRun(f), Kept(f),
           f.writable.state # "writable",
           "start" \in f.readable.sourceCalls, "start" \notin f.writable.sinkCalls
    PROVE  TransformInvariant([f EXCEPT !.readable = R!FailStart(f.readable)])
<1> DEFINE s == f.readable
           d == R!Settled(s, "start")
           r == R!FailStart(s)
           u == [f EXCEPT !.readable = r]
<1>1. /\ d.sourceCalls = s.sourceCalls \ {"start"} /\ d.pulling = s.pulling
      /\ RP!Becomes(s, r) /\ RP!Silent(d, r) /\ ~Open(r) /\ RP!Waits(r)
      BY ReadableStarts DEF Sides
<1> HIDE DEF d, r
<1>2. /\ RP!Sound(r) /\ r.keysMatch = s.keysMatch /\ r.reader = s.reader /\ r \in R!Slots
      BY <1>1, SameReadable DEF RP!Becomes, RP!Sound
<1>3. /\ u \in States /\ u.readable = r /\ u.writable = f.writable
      /\ u.transform = f.transform /\ u.threw = f.threw
      BY <1>2, StateFields DEF Sides
<1> HIDE DEF u
<1>4. Sides(u)
      BY <1>1, <1>2, <1>3 DEF Sides, Excused
<1>5. r.sourceCalls = s.sourceCalls \ {"start"} /\ r.pulling = s.pulling
      BY <1>1 DEF RP!Silent
<1>6. PullsKnown(u)
      BY <1>1, <1>2, <1>3, <1>5 DEF PullsKnown, PullsLoose
<1>7. StartsTogether(u)
      BY <1>3, <1>5 DEF StartsTogether
<1>8. CallsRun(u) /\ Kept(u)
      BY <1>3 DEF CallsRun, Kept
<1>9. EndsKnown(u)
      BY <1>1, <1>3, OverEnds DEF Over
<1>10. Unblocked(u)
      BY <1>2, <1>3 DEF Unblocked
<1> QED BY <1>4, <1>6, <1>7, <1>8, <1>9, <1>10 DEF TransformInvariant, Tied, u, r

LEMMA StartSettlesKeeps ==
    ASSUME TransformInvariant(Now), StartSettles
    PROVE  TransformInvariant(Now)'
<1> DEFINE t == Now
           w == W!FinishStart(writable)
           x == W!FailStart(writable)
           f == WithWritable(t, w)
           g == WithWritable(t, x)
           u == WithReadable(f, R!FinishStart(f.readable))
           v == [g EXCEPT !.readable = R!FailStart(g.readable)]
<1>1. /\ "start" \in readable.sourceCalls
      /\ Become(u) \/ Become(v)
      BY DEF StartSettles
<1>2. t.readable = readable /\ t.writable = writable /\ ~t.threw
      BY NowFields
<1>3. "start" \in writable.sinkCalls /\ Works(writable)
      BY <1>1, <1>2 DEF TransformInvariant, Tied, StartsTogether, Sides
<1> HIDE DEF t
<1>4. LET d == W!Settled(writable, "start")
      IN  /\ Works(w) /\ WP!Goes(d, w) /\ WP!Ends(d, w) /\ "start" \notin w.sinkCalls
          /\ Works(x) /\ WP!Goes(d, x) /\ x.state # "writable" /\ "start" \notin x.sinkCalls
      BY <1>3, WritableStarts
<1> HIDE DEF w, x
<1>5. TransformInvariant(t)
      BY DEF t
<1>6. /\ Sides(f) /\ PullsKnown(f) /\ Unblocked(f) /\ CallsRun(f) /\ Kept(f) /\ EndsKnown(f)
      /\ "start" \in f.readable.sourceCalls /\ "start" \notin f.writable.sinkCalls
      BY <1>1, <1>2, <1>4, <1>5, StartRuns
<1>7. /\ Sides(g) /\ PullsKnown(g) /\ Unblocked(g) /\ CallsRun(g) /\ Kept(g)
      /\ "start" \in g.readable.sourceCalls /\ "start" \notin g.writable.sinkCalls
      /\ g.writable.state # "writable"
      BY <1>1, <1>2, <1>4, <1>5, StartRuns
<1> HIDE DEF f, g
<1>8. TransformInvariant(u)
      BY <1>6, StartFulfilled
<1>9. TransformInvariant(v)
      BY <1>7, StartRejected
<1> HIDE DEF u, v
<1> QED BY <1>1, <1>8, <1>9, BecomeKeeps

\* The reaction to the end of a pull() is another pull(), or backpressure has come to
\* stay.
LEMMA PullSettlesKeeps ==
    ASSUME TransformInvariant(Now), PullSettles
    PROVE  TransformInvariant(Now)'
<1> DEFINE t == Now
           s == t.readable
           x == t.transform
           y == [x EXCEPT !.pull = "none"]
           d == R!Settled(s, "pull")
           r == R!FinishPull(s)
           a == [t EXCEPT !.transform = y]
           p == [a EXCEPT !.readable = d]
           u == WithReadable(p, r)
<1>1. s = readable /\ x = transform /\ ~t.threw
      BY NowFields
<1>2. x.pull = "resolved" /\ Become(u)
  <2>1. [Now EXCEPT !.transform.pull = "none", !.readable = R!Settled(@, "pull")] = p
        BY DEF Now
  <2> HIDE DEF p
  <2> QED BY <1>1, <2>1 DEF PullSettles
<1>3. Sides(t) /\ PullsKnown(t) /\ Tied(t) /\ Unblocked(t)
      BY DEF TransformInvariant
<1> HIDE DEF t
<1>4. t \in States /\ x \in TransformSlots
      BY <1>3, StateFields DEF Sides
<1>5. /\ RP!GoesOn(s, d) /\ RP!Waits(d) /\ d.cancelled = s.cancelled
      /\ d.sourceCalls = s.sourceCalls \ {"pull"}
      /\ Carries(s, r)
      /\ r.sourceCalls = IF r.pulling THEN d.sourceCalls \cup {"pull"} ELSE d.sourceCalls
      /\ r.pulling <=> s.pullAgain /\ Needs(s)
      /\ Needs(r) <=> Needs(s)
      BY <1>3, ReadablePulled DEF Sides
<1>6. /\ y \in TransformSlots /\ y.pull = "none" /\ y.backpressure = x.backpressure
      /\ y.algorithms = x.algorithms /\ y.failed = x.failed
      /\ y.sizeFailed = x.sizeFailed /\ y.write = x.write
      /\ y.transformer = x.transformer /\ y.close = x.close /\ y.abort = x.abort
  <2> HIDE DEF x
  <2> QED BY <1>4 DEF TransformSlots
<1> HIDE DEF d, r, x, y
<1>7. /\ RP!Sound(d) /\ d.keysMatch = s.keysMatch /\ d.reader = s.reader /\ d \in R!Slots
      BY <1>5, SameReadable DEF RP!GoesOn, RP!Becomes, RP!Sound
<1>8. a \in States /\ a.writable = t.writable /\ a.transform = y /\ a.threw = t.threw
      BY <1>4, <1>6, StateFields
<1> HIDE DEF a
<1>9. /\ p \in States /\ p.readable = d /\ p.writable = t.writable
      /\ p.transform = y /\ p.threw = t.threw
      BY <1>7, <1>8, StateFields
<1> HIDE DEF p
<1>10. Sides(p)
      BY <1>3, <1>5, <1>6, <1>7, <1>9 DEF Sides, Excused, x
<1>11. /\ RP!Becomes(d, r) /\ RP!Waits(r) /\ r.keysMatch = s.keysMatch
       /\ (Open(r) => Open(s)) /\ RP!Beside(s, r)
      BY <1>5, <1>7 DEF Carries, RP!Becomes, RP!Beside, Open
<1>12. "pull" \in r.sourceCalls \ d.sourceCalls <=> r.pulling
      BY <1>5
<1>13. Needs(s) => Open(s)
      BY DEF Needs, Open, RP!ShouldCallPull
<1>14. s.keysMatch /\ Open(s) => x.backpressure /\ (Needs(s) => s.pullAgain)
      BY <1>2, <1>3 DEF PullsKnown, PullsLoose, x
<1>15. /\ Sides(u) /\ u.readable = r /\ u.writable = p.writable
       /\ u.transform.algorithms = p.transform.algorithms
       /\ Leaves(p.transform, u.transform)
       /\ r.pulling =>
             /\ ~u.transform.backpressure
             /\ p.transform.backpressure => u.transform.pull = "pending" /\ u.threw = p.threw
       /\ ~r.pulling => u.transform = p.transform /\ u.threw = p.threw
  <2>1. d.keysMatch /\ "pull" \in r.sourceCalls \ d.sourceCalls => y.backpressure
        BY <1>5, <1>6, <1>7, <1>12, <1>13, <1>14
  <2> QED BY <1>9, <1>10, <1>11, <1>12, <2>1, WithReadableFacts
<1> HIDE DEF u
<1>16. PullsKnown(u)
  <2> SUFFICES ASSUME s.keysMatch
               PROVE  PullsKnown(u)
      BY <1>11, <1>15 DEF PullsKnown, PullsLoose
  <2>1. "pull" \in r.sourceCalls <=> r.pulling
        BY <1>5
  <2>2. CASE r.pulling
    <3>1. Needs(s) /\ Open(s)
          BY <1>5, <1>13, <2>2
    <3>2. u.transform.pull = "pending" /\ ~u.transform.backpressure
          BY <1>6, <1>9, <1>14, <1>15, <2>2, <3>1
    <3> QED BY <1>5, <1>15, <2>1, <2>2, <3>1, <3>2 DEF PullsKnown, PullsLoose
  <2>3. CASE ~r.pulling
    <3>1. u.transform.pull = "none" /\ u.transform.backpressure = x.backpressure
          BY <1>6, <1>9, <1>15, <2>3
    <3>2. Open(r) => x.backpressure /\ ~Needs(r)
          BY <1>5, <1>11, <1>14, <2>3
    <3> QED BY <1>15, <2>1, <2>3, <3>1, <3>2 DEF PullsKnown, PullsLoose
  <2> QED BY <2>2, <2>3
<1>17. Leaves(x, u.transform)
  <2>1. Leaves(x, y)
        BY <1>6 DEF Leaves
  <2> QED BY <1>9, <1>15, <2>1, LeavesTrans
<1>18. "start" \in r.sourceCalls <=> "start" \in s.sourceCalls
      BY <1>5
<1>19. Moves(t, u)
      BY <1>6, <1>9, <1>11, <1>15, <1>17, <1>18 DEF Moves, x
<1>20. Unblocked(u)
      BY <1>3, <1>6, <1>9, <1>11, <1>15, <1>17 DEF Unblocked, Leaves, x
<1>21. TransformInvariant(u)
      BY <1>3, <1>15, <1>16, <1>19, <1>20, MovesKeeps DEF Tied, TransformInvariant
<1> QED BY <1>2, <1>21, BecomeKeeps

\* A chunk is given to the transformer, or its promise settles.
LEMMA WritesInvariant ==
    ASSUME NEW t, TransformInvariant(t), NEW u, Writes(t, u), t.transform.write # "none"
    PROVE  TransformInvariant(u)
<1>1. /\ StartsTogether(t) /\ Kept(t) /\ EndsKnown(t)
      /\ "write" \in t.writable.sinkCalls
      /\ t.transform.close # "none" <=> "close" \in t.writable.sinkCalls
      /\ t.transform.abort # "none" => "abort" \in t.writable.sinkCalls
      BY DEF TransformInvariant, Tied, CallsRun
<1>2. /\ Sides(u) /\ PullsKnown(u) /\ Unblocked(u)
      /\ "start" \in u.readable.sourceCalls <=> "start" \in t.readable.sourceCalls
      /\ "start" \in u.writable.sinkCalls <=> "start" \in t.writable.sinkCalls
      /\ Kept(u) /\ EndsKnown(u) /\ CallsRun(u)
      BY <1>1, WritesKeeps
<1>3. StartsTogether(u)
      BY <1>1, <1>2 DEF StartsTogether
<1> QED BY <1>2, <1>3 DEF TransformInvariant, Tied

LEMMA WriteUnblockedKeeps ==
    ASSUME TransformInvariant(Now), WriteUnblocked
    PROVE  TransformInvariant(Now)'
<1> DEFINE t == Now
           condition == writable.state \in {"erroring", "writable"}
           a == Asserted(t, "unblocked", condition)
           u == Transform(t, writable.inFlightWriteRequest)
           v == [a EXCEPT !.transform.write = "rejected"]
<1>1. /\ transform.write = "unblocked"
      /\ Become(IF writable.state = "writable" THEN u ELSE v)
      BY DEF WriteUnblocked
<1>2. t.writable = writable /\ t.transform = transform /\ ~t.threw
      BY NowFields
<1>3. Sides(t) /\ PullsKnown(t) /\ Tied(t) /\ Unblocked(t)
      BY DEF TransformInvariant
<1>4. "write" \in writable.sinkCalls
      BY <1>1, <1>2, <1>3 DEF Tied, CallsRun
<1>5. /\ writable.inFlightWriteRequest \in Chunks
      /\ ~writable.inFlightCloseRequest
      /\ writable.state \in {"writable", "erroring"}
      BY <1>2, <1>3, <1>4, WorksFacts DEF Sides
<1> HIDE DEF t
<1>6. a = t
      BY <1>5 DEF Asserted
<1> HIDE DEF u
<1>7. CASE writable.state = "writable"
  <2>1. t.transform.algorithms
        BY <1>2, <1>3, <1>5, <1>7 DEF Tied, Kept
  <2>2. Writes(t, u)
        BY <1>1, <1>2, <1>3, <1>5, <2>1, TransformMoves DEF Unblocked, u
  <2>3. TransformInvariant(u)
        BY <1>1, <1>2, <2>2, WritesInvariant DEF t
  <2> QED BY <1>1, <1>7, <2>3, BecomeKeeps
<1>8. CASE writable.state = "erroring"
  <2> DEFINE x == "rejected"
             b == [t EXCEPT !.transform.write = x]
  <2>1. x \in WriteStates /\ x # "none" /\ x # "unblocked"
        BY DEF WriteStates
  <2>2. t \in States
        BY <1>3 DEF Sides
  <2>3. v = b
        BY <1>6
  <2> HIDE DEF x, a
  <2>4. /\ b \in States
        /\ b.readable = t.readable /\ b.writable = t.writable
        /\ b.transform.write = x
        /\ b.transform.transformer = t.transform.transformer
        /\ b.transform.algorithms = t.transform.algorithms
        /\ b.transform.backpressure = t.transform.backpressure
        /\ b.transform.pull = t.transform.pull
        /\ b.transform.close = t.transform.close
        /\ b.transform.abort = t.transform.abort
        /\ b.transform.failed = t.transform.failed
        /\ b.transform.sizeFailed = t.transform.sizeFailed
        BY <2>1, <2>2, WriteSet
  <2> HIDE DEF b
  <2>5. Sides(b)
        BY <1>3, <2>4 DEF Sides, Excused
  <2>6. PullsKnown(b) /\ Unblocked(b)
        BY <1>3, <2>1, <2>4 DEF PullsKnown, PullsLoose, Unblocked
  <2>7. StartsTogether(b) /\ CallsRun(b) /\ Kept(b)
        BY <1>1, <1>2, <1>3, <2>1, <2>4 DEF Tied, StartsTogether, CallsRun, Kept
  <2>8. EndsKnown(b)
        BY <1>2, <1>3, <1>8, <2>4 DEF Tied, EndsKnown
  <2>9. TransformInvariant(b)
        BY <2>5, <2>6, <2>7, <2>8 DEF TransformInvariant, Tied
  <2>10. Become(b)
        BY <1>1, <1>8, <2>3
  <2> QED BY <2>9, <2>10, BecomeKeeps
<1> QED BY <1>5, <1>7, <1>8

LEMMA TransformSettlesKeeps ==
    ASSUME TransformInvariant(Now), TransformSettles
    PROVE  TransformInvariant(Now)'
<1> DEFINE t == Now
           e == TransformError(t)
           u == [t EXCEPT !.transform.write = "fulfilled"]
           v == [e EXCEPT !.transform.write = "rejected"]
<1>1. transform.write = "transforming" /\ (Become(u) \/ Become(v))
      BY DEF TransformSettles
<1>2. t.transform = transform
      BY NowFields
<1>3. Sides(t) /\ PullsKnown(t) /\ TransformInvariant(t)
      BY DEF TransformInvariant
<1> HIDE DEF t
<1>4. Writes(t, u)
  <2>1. Moves(t, t)
        BY <1>3, StaysMoves
  <2>2. "fulfilled" \in WriteStates \ {"none", "unblocked"}
        BY DEF WriteStates
  <2> QED BY <1>3, <2>1, <2>2 DEF Writes
<1>5. Writes(t, v)
  <2>1. Moves(t, e) /\ PullsKnown(e) /\ (t.readable.keysMatch => Over(e))
        BY <1>3, TransformErrorMoves
  <2> HIDE DEF e
  <2>2. "rejected" \in WriteStates \ {"none", "unblocked"}
        BY DEF WriteStates
  <2> QED BY <2>1, <2>2 DEF Writes, Over
<1>6. TransformInvariant(u) /\ TransformInvariant(v)
      BY <1>1, <1>2, <1>3, <1>4, <1>5, WritesInvariant
<1> HIDE DEF u, v
<1> QED BY <1>1, <1>6, BecomeKeeps

LEMMA CloseSet ==
    ASSUME NEW t \in States, NEW x \in {"none", "flushing", "fulfilled", "rejected"}
    PROVE  LET u == [t EXCEPT !.transform.close = x]
           IN  /\ u \in States
               /\ u.readable = t.readable /\ u.writable = t.writable /\ u.threw = t.threw
               /\ u.transform.close = x
               /\ u.transform.transformer = t.transform.transformer
               /\ u.transform.algorithms = t.transform.algorithms
               /\ u.transform.backpressure = t.transform.backpressure
               /\ u.transform.pull = t.transform.pull
               /\ u.transform.write = t.transform.write
               /\ u.transform.abort = t.transform.abort
               /\ u.transform.failed = t.transform.failed
               /\ u.transform.sizeFailed = t.transform.sizeFailed
<1> DEFINE z == t.transform
           y == [z EXCEPT !.close = x]
           u == [t EXCEPT !.transform = y]
<1>1. z \in TransformSlots
      BY StateFields
<1>2. [t EXCEPT !.transform.close = x] = u
      BY DEF States
<1>3. /\ y \in TransformSlots /\ y.close = x
      /\ y.transformer = z.transformer /\ y.algorithms = z.algorithms
      /\ y.backpressure = z.backpressure /\ y.pull = z.pull
      /\ y.write = z.write /\ y.abort = z.abort /\ y.failed = z.failed
      /\ y.sizeFailed = z.sizeFailed
  <2> HIDE DEF z
  <2> QED BY <1>1 DEF TransformSlots
<1> HIDE DEF y
<1>4. /\ u \in States /\ u.readable = t.readable /\ u.writable = t.writable
      /\ u.transform = y /\ u.threw = t.threw
      BY <1>3, StateFields
<1> QED BY <1>2, <1>3, <1>4

\* flush() has settled and ended the readable side.
LEMMA FlushedKeeps ==
    ASSUME NEW e, TransformInvariant(e), e.transform.close = "flushing",
           e.readable.keysMatch => ~Open(e.readable),
           NEW x \in {"fulfilled", "rejected"}
    PROVE  TransformInvariant([e EXCEPT !.transform.close = x])
<1> DEFINE u == [e EXCEPT !.transform.close = x]
<1>1. e \in States /\ x \in {"none", "flushing", "fulfilled", "rejected"}
      BY DEF TransformInvariant, Sides
<1>2. /\ u \in States
      /\ u.readable = e.readable /\ u.writable = e.writable /\ u.threw = e.threw
      /\ u.transform.close = x
      /\ u.transform.transformer = e.transform.transformer
      /\ u.transform.algorithms = e.transform.algorithms
      /\ u.transform.backpressure = e.transform.backpressure
      /\ u.transform.pull = e.transform.pull
      /\ u.transform.write = e.transform.write
      /\ u.transform.abort = e.transform.abort
      /\ u.transform.failed = e.transform.failed /\ u.transform.sizeFailed = e.transform.sizeFailed
      BY <1>1, CloseSet
<1> HIDE DEF u
<1>3. Sides(u)
      BY <1>2 DEF TransformInvariant, Sides, Excused
<1>4. PullsKnown(u) /\ Unblocked(u)
      BY <1>2 DEF TransformInvariant, PullsKnown, PullsLoose, Unblocked
<1>5. StartsTogether(u) /\ CallsRun(u) /\ Kept(u)
      BY <1>2 DEF TransformInvariant, Tied, StartsTogether, CallsRun, Kept
<1>6. EndsKnown(u)
      BY <1>2 DEF TransformInvariant, Tied, EndsKnown
<1> QED BY <1>3, <1>4, <1>5, <1>6 DEF TransformInvariant, Tied, u

LEMMA FlushSettlesKeeps ==
    ASSUME TransformInvariant(Now), FlushSettles
    PROVE  TransformInvariant(Now)'
<1> DEFINE t == Now
           s == t.readable
           r == IF R!CanCloseOrEnqueue(s) THEN R!ControllerClose(s) ELSE s
           c == [t EXCEPT !.readable = r]
           e == TransformError(t)
           u == [c EXCEPT !.transform.close = "fulfilled"]
           v == [e EXCEPT !.transform.close = "rejected"]
<1>1. s = readable /\ t.transform = transform
      BY NowFields
<1>2. /\ transform.close = "flushing"
      /\ (readable.state # "errored" /\ Become(u)) \/ Become(v)
  <2>1. [Now EXCEPT !.readable = IF R!CanCloseOrEnqueue(@) THEN R!ControllerClose(@) ELSE @] = c
        BY DEF Now
  <2> HIDE DEF c
  <2> QED BY <2>1 DEF FlushSettles
<1>3. Sides(t) /\ PullsKnown(t) /\ Tied(t) /\ Unblocked(t) /\ TransformInvariant(t)
      BY DEF TransformInvariant
<1> HIDE DEF t
<1>4. ASSUME readable.state # "errored", Become(u)
      PROVE  TransformInvariant(Now)'
  <2>1. Ended(s, r) /\ r.cancelled = s.cancelled /\ r.state # "errored"
    <3>1. R!CanCloseOrEnqueue(s) <=> Open(s)
          BY SameQueries DEF Open
    <3>2. ASSUME Open(s)
          PROVE  LET q == R!ControllerClose(s)
                 IN  Ended(s, q) /\ q.cancelled = s.cancelled /\ q.state # "errored"
          BY <1>3, <3>2, ReadableCloses DEF Sides
    <3>3. ~Open(s) => Ended(s, s)
          BY <1>3 DEF Ended, RP!Becomes, RP!Silent, Sides
    <3> QED BY <1>1, <1>4, <3>1, <3>2, <3>3
  <2> HIDE DEF r
  <2>2. /\ RP!Sound(r) /\ RP!Waits(r) /\ r.keysMatch = s.keysMatch /\ r.reader = s.reader
        /\ r.sourceCalls = s.sourceCalls /\ ~Open(r) /\ r \in R!Slots
        /\ RP!Silent(s, r)
        BY <2>1, SameReadable DEF Ended, RP!Becomes, RP!Silent, RP!Sound
  <2>3. t \in States
        BY <1>3 DEF Sides
  <2>4. /\ c \in States /\ c.readable = r /\ c.writable = t.writable
        /\ c.transform = t.transform
        BY <2>2, <2>3, StateFields
  <2> HIDE DEF c
  <2>5. Sides(c)
        BY <1>3, <2>2, <2>4 DEF Sides, Excused
  <2>6. PullsKnown(c)
        BY <1>3, <2>2, <2>4, PullsSilent
  <2>7. Unblocked(c)
        BY <1>3, <2>2, <2>4 DEF Unblocked
  <2>8. StartsTogether(c) /\ CallsRun(c) /\ Kept(c)
        BY <1>3, <2>2, <2>4 DEF Tied, StartsTogether, CallsRun, Kept
  <2>9. EndsKnown(c)
        BY <1>3, <2>1, <2>2, <2>4 DEF Tied, EndsKnown
  <2>10. TransformInvariant(u)
    <3> DEFINE x == "fulfilled"
    <3>1. x \in {"fulfilled", "rejected"}
          OBVIOUS
    <3> HIDE DEF x
    <3>2. TransformInvariant([c EXCEPT !.transform.close = x])
          BY <1>1, <1>2, <2>2, <2>4, <2>5, <2>6, <2>7, <2>8, <2>9, <3>1, FlushedKeeps
          DEF TransformInvariant, Tied
    <3> QED BY <3>2 DEF x
  <2> HIDE DEF u
  <2> QED BY <1>4, <2>10, BecomeKeeps
<1>5. ASSUME Become(v)
      PROVE  TransformInvariant(Now)'
  <2>1. /\ Moves(t, e) /\ PullsKnown(e) /\ (s.keysMatch => Over(e))
        /\ s.keysMatch => ~e.transform.backpressure
        BY <1>3, TransformErrorMoves
  <2> HIDE DEF e
  <2>2. /\ Sides(e) /\ e.readable.keysMatch = s.keysMatch
        /\ e.transform.close = t.transform.close
        BY <2>1 DEF Moves, Leaves
  <2>3. TransformInvariant(e)
        BY <1>3, <2>1, MovesInvariant
  <2>4. TransformInvariant(v)
    <3> DEFINE x == "rejected"
    <3>1. x \in {"fulfilled", "rejected"}
          OBVIOUS
    <3> HIDE DEF x
    <3>2. TransformInvariant([e EXCEPT !.transform.close = x])
          BY <1>1, <1>2, <2>1, <2>2, <2>3, <3>1, FlushedKeeps DEF Over
    <3> QED BY <3>2 DEF x
  <2> HIDE DEF v
  <2> QED BY <1>5, <2>4, BecomeKeeps
<1> QED BY <1>2, <1>4, <1>5

\* The sink's write() or close() has settled: y is what is left of the transform
\* stream's slots, w the writable side after its reaction.
LEMMA SettleRuns ==
    ASSUME NEW t, TransformInvariant(t), ~t.threw, NEW call \in {"write", "close"},
           NEW y \in TransformSlots,
           y.transformer = t.transform.transformer, y.algorithms = t.transform.algorithms,
           y.backpressure = t.transform.backpressure, y.pull = t.transform.pull,
           y.abort = t.transform.abort, y.failed = t.transform.failed,
           y.sizeFailed = t.transform.sizeFailed,
           y.write = IF call = "write" THEN "none" ELSE t.transform.write,
           y.close = IF call = "close" THEN "none" ELSE t.transform.close,
           NEW p, p \in States, p.readable = t.readable, p.transform = y, ~p.threw,
           p.writable = W!Settled(t.writable, call),
           NEW w, Works(w), WP!Goes(p.writable, w),
           WP!Ends(p.writable, w) \/ (t.readable.keysMatch => ~Open(t.readable))
    PROVE  TransformInvariant(WithWritable(p, w))
<1> DEFINE c == [p EXCEPT !.writable = w]
           s == t.writable
           d == p.writable
           u == AfterSink(d, c)
<1>1. w \in W!Slots /\ Works(s)
      BY WorksFacts DEF TransformInvariant, Sides
<1>2. /\ c \in States /\ c.readable = t.readable /\ c.writable = w
      /\ c.transform = y /\ ~c.threw
      BY <1>1, StateFields
<1>3. /\ d.keysMatch = s.keysMatch /\ d.writer = s.writer /\ d.state = s.state
      /\ d.sinkCalls = s.sinkCalls \ {call}
      /\ d.inFlightCloseRequest = s.inFlightCloseRequest
      /\ d.pendingAbortRequest = s.pendingAbortRequest
      BY <1>1, WritableSettles
<1> HIDE DEF d
<1>4. WP!Goes(d, w)
      BY DEF d
<1>5. WithWritable(p, w) = u
  <2> HIDE DEF c
  <2> QED BY <1>2 DEF WithWritable, AfterSink, Called, c, d
<1> HIDE DEF c, u
<1>6. Sides(c)
      BY <1>2, <1>3, <1>4 DEF TransformInvariant, Sides, Excused, WP!Goes
<1>7. CallsRun(t) /\ Kept(t) /\ StartsTogether(t) /\ EndsKnown(t) /\ Sides(t)
      BY DEF TransformInvariant, Tied
<1>8. /\ y.write # "none" <=> "write" \in d.sinkCalls
      /\ y.close # "none" <=> "close" \in d.sinkCalls
      /\ y.abort # "none" => "abort" \in d.sinkCalls
      /\ "start" \in d.sinkCalls <=> "start" \in s.sinkCalls
      BY <1>3, <1>7 DEF CallsRun
<1>9. Ready(d, c)
  <2>1. PullsKnown(c) /\ Unblocked(c)
        BY <1>2 DEF TransformInvariant, PullsKnown, PullsLoose, Unblocked
  <2> QED BY <1>2, <1>3, <1>4, <1>6, <1>7, <1>8, <2>1 DEF Ready, Kept
<1>10. EndsKnown(c) \/ Called(d, c) = {"abort"}
  <2>1. /\ c.transform.write \in {t.transform.write, "none"}
        /\ c.transform.close \in {t.transform.close, "none"}
        BY <1>2
  <2> QED BY <1>2, <1>3, <1>4, <1>7, <2>1, SinkKnown DEF d
<1>11. Ran(c, u) /\ EndsKnown(u)
      BY <1>9, <1>10, SinkRuns DEF u
<1>12. StartsTogether(u)
  <2>1. w.sinkCalls \ d.sinkCalls \subseteq {"write", "close", "abort"}
        /\ d.sinkCalls \subseteq w.sinkCalls
        BY <1>4 DEF WP!Goes
  <2>2. "start" \in w.sinkCalls <=> "start" \in s.sinkCalls
        BY <1>8, <2>1
  <2> QED BY <1>2, <1>7, <1>11, <2>2 DEF Ran, StartsTogether
<1> QED BY <1>5, <1>11, <1>12 DEF Ran, TransformInvariant, Tied

LEMMA SinkSettlesKeeps ==
    ASSUME TransformInvariant(Now), SinkSettles
    PROVE  TransformInvariant(Now)'
<1> DEFINE t == Now
           s == t.writable
           x == t.transform
<1>1. s = writable /\ x = transform /\ t.readable = readable /\ ~t.threw
      BY NowFields
<1>2. TransformInvariant(t) /\ Sides(t) /\ Works(s) /\ CallsRun(t) /\ EndsKnown(t)
      BY DEF TransformInvariant, Tied, Sides
<1>3. t \in States /\ x \in TransformSlots
      BY <1>2, StateFields DEF Sides
<1>4. CASE /\ transform.write \in {"fulfilled", "rejected"}
           /\ LET settled == [Now EXCEPT !.transform.write = "none",
                                         !.writable = W!Settled(@, "write")]
              IN  Become(WithWritable(settled,
                      IF transform.write = "fulfilled" THEN W!FinishInFlightWrite(writable)
                      ELSE W!FinishInFlightWriteWithError(writable)))
  <2> DEFINE call == "write"
             y == [x EXCEPT !.write = "none"]
             d == W!Settled(s, call)
             a == [t EXCEPT !.transform = y]
             p == [a EXCEPT !.writable = d]
             w == IF transform.write = "fulfilled" THEN W!FinishInFlightWrite(s)
                  ELSE W!FinishInFlightWriteWithError(s)
  <2>1. Become(WithWritable(p, w))
    <3>1. [Now EXCEPT !.transform.write = "none", !.writable = W!Settled(@, "write")] = p
          BY DEF Now
    <3> HIDE DEF p
    <3> QED BY <1>1, <1>4, <3>1
  <2>2. call \in s.sinkCalls
        BY <1>1, <1>2, <1>4 DEF CallsRun
  <2>3. /\ Works(W!FinishInFlightWrite(s)) /\ WP!Goes(d, W!FinishInFlightWrite(s))
        /\ WP!Ends(d, W!FinishInFlightWrite(s))
        /\ Works(W!FinishInFlightWriteWithError(s))
        /\ WP!Goes(d, W!FinishInFlightWriteWithError(s))
        /\ s.state # "writable" => WP!Ends(d, W!FinishInFlightWriteWithError(s))
        BY <1>2, <2>2, WritableWritten
  <2> HIDE DEF t
  <2>4. d \in W!Slots
        BY <1>2, WritableSettles
  <2>5. transform.write = "rejected" /\ s.state = "writable" /\ t.readable.keysMatch =>
            ~Open(t.readable)
        BY <1>1, <1>2 DEF EndsKnown
  <2>6. /\ Works(w) /\ WP!Goes(d, w)
        /\ WP!Ends(d, w) \/ (t.readable.keysMatch => ~Open(t.readable))
        BY <1>4, <2>3, <2>5
  <2>7. /\ y \in TransformSlots /\ y.write = "none" /\ y.backpressure = x.backpressure
        /\ y.algorithms = x.algorithms /\ y.failed = x.failed
        /\ y.sizeFailed = x.sizeFailed /\ y.pull = x.pull
        /\ y.transformer = x.transformer /\ y.close = x.close /\ y.abort = x.abort
    <3> HIDE DEF x
    <3> QED BY <1>3 DEF TransformSlots
  <2> HIDE DEF d, w, y
  <2>8. a \in States /\ a.readable = t.readable /\ a.transform = y /\ a.threw = t.threw
        BY <1>3, <2>7, StateFields
  <2> HIDE DEF a
  <2>9. /\ p \in States /\ p.readable = t.readable /\ p.writable = d
        /\ p.transform = y /\ p.threw = t.threw
        BY <2>4, <2>8, StateFields
  <2> HIDE DEF p
  <2>10. TransformInvariant(WithWritable(p, w))
    <3>1. call \in {"write", "close"} /\ call = "write" /\ call # "close"
          OBVIOUS
    <3>2. p.writable = W!Settled(t.writable, call)
          BY <2>9 DEF d
    <3>3. ~p.threw
          BY <1>1, <2>9
    <3> HIDE DEF call
    <3> QED BY <1>1, <1>2, <2>6, <2>7, <2>9, <3>1, <3>2, <3>3, SettleRuns
  <2> QED BY <2>1, <2>10, BecomeKeeps
<1>5. CASE /\ transform.close \in {"fulfilled", "rejected"}
           /\ LET settled == [Now EXCEPT !.transform.close = "none",
                                         !.writable = W!Settled(@, "close")]
              IN  Become(WithWritable(settled,
                      IF transform.close = "fulfilled" THEN W!FinishInFlightClose(writable)
                      ELSE W!FinishInFlightCloseWithError(writable)))
  <2> DEFINE call == "close"
             y == [x EXCEPT !.close = "none"]
             d == W!Settled(s, call)
             a == [t EXCEPT !.transform = y]
             p == [a EXCEPT !.writable = d]
             w == IF transform.close = "fulfilled" THEN W!FinishInFlightClose(s)
                  ELSE W!FinishInFlightCloseWithError(s)
  <2>1. Become(WithWritable(p, w))
    <3>1. [Now EXCEPT !.transform.close = "none", !.writable = W!Settled(@, "close")] = p
          BY DEF Now
    <3> HIDE DEF p
    <3> QED BY <1>1, <1>5, <3>1
  <2>2. call \in s.sinkCalls
        BY <1>1, <1>2, <1>5 DEF CallsRun
  <2>3. /\ Works(W!FinishInFlightClose(s)) /\ WP!Goes(d, W!FinishInFlightClose(s))
        /\ Works(W!FinishInFlightCloseWithError(s))
        /\ WP!Goes(d, W!FinishInFlightCloseWithError(s))
        BY <1>2, <2>2, WritableClosed
  <2> HIDE DEF t
  <2>4. d \in W!Slots
        BY <1>2, WritableSettles
  <2>5. t.readable.keysMatch => ~Open(t.readable)
        BY <1>1, <1>2, <1>5 DEF EndsKnown
  <2>6. Works(w) /\ WP!Goes(d, w)
        BY <1>5, <2>3
  <2>7. /\ y \in TransformSlots /\ y.close = "none" /\ y.backpressure = x.backpressure
        /\ y.algorithms = x.algorithms /\ y.failed = x.failed
        /\ y.sizeFailed = x.sizeFailed /\ y.pull = x.pull
        /\ y.transformer = x.transformer /\ y.write = x.write /\ y.abort = x.abort
    <3> HIDE DEF x
    <3> QED BY <1>3 DEF TransformSlots
  <2> HIDE DEF d, w, y
  <2>8. a \in States /\ a.readable = t.readable /\ a.transform = y /\ a.threw = t.threw
        BY <1>3, <2>7, StateFields
  <2> HIDE DEF a
  <2>9. /\ p \in States /\ p.readable = t.readable /\ p.writable = d
        /\ p.transform = y /\ p.threw = t.threw
        BY <2>4, <2>8, StateFields
  <2> HIDE DEF p
  <2>10. TransformInvariant(WithWritable(p, w))
    <3>1. call \in {"write", "close"} /\ call = "close" /\ call # "write"
          OBVIOUS
    <3>2. p.writable = W!Settled(t.writable, call)
          BY <2>9 DEF d
    <3>3. ~p.threw
          BY <1>1, <2>9
    <3> HIDE DEF call
    <3> QED BY <1>1, <1>2, <2>5, <2>6, <2>7, <2>9, <3>1, <3>2, <3>3, SettleRuns
  <2> QED BY <2>1, <2>10, BecomeKeeps
<1>6. CASE /\ transform.abort = "fulfilled"
           /\ Become([Now EXCEPT !.transform.abort = "none",
                                 !.writable = W!FinishAbort(@, "fulfilled")])
  <2> DEFINE y == [x EXCEPT !.abort = "none"]
             d == W!Settled(s, "abort")
             w == W!FinishAbort(s, "fulfilled")
             a == [t EXCEPT !.transform = y]
             p == [a EXCEPT !.writable = w]
  <2>1. Become(p)
    <3>1. [Now EXCEPT !.transform.abort = "none", !.writable = W!FinishAbort(@, "fulfilled")] = p
          BY DEF Now
    <3> HIDE DEF p
    <3> QED BY <1>6, <3>1
  <2>2. "abort" \in s.sinkCalls
        BY <1>1, <1>2, <1>6 DEF CallsRun
  <2>3. Works(w) /\ WP!Kin(d, w)
        BY <1>2, <2>2, WritableAborted
  <2> HIDE DEF t
  <2>4. /\ d.keysMatch = s.keysMatch /\ d.writer = s.writer /\ d.state = s.state
        /\ d.sinkCalls = s.sinkCalls \ {"abort"}
        /\ d.inFlightCloseRequest = s.inFlightCloseRequest
        /\ d.pendingAbortRequest = s.pendingAbortRequest
        BY <1>2, WritableSettles
  <2> HIDE DEF d
  <2>5. /\ w.keysMatch = s.keysMatch /\ w.state = s.state
        /\ w.sinkCalls = s.sinkCalls \ {"abort"}
        /\ w.inFlightCloseRequest = s.inFlightCloseRequest
        /\ w.pendingAbortRequest = s.pendingAbortRequest
        /\ w \in W!Slots
        BY <2>3, <2>4, WorksFacts DEF WP!Kin
  <2>6. /\ y \in TransformSlots /\ y.abort = "none" /\ y.backpressure = x.backpressure
        /\ y.algorithms = x.algorithms /\ y.failed = x.failed
        /\ y.sizeFailed = x.sizeFailed /\ y.pull = x.pull
        /\ y.transformer = x.transformer /\ y.write = x.write /\ y.close = x.close
    <3> HIDE DEF x
    <3> QED BY <1>3 DEF TransformSlots
  <2> HIDE DEF w, y
  <2>7. a \in States /\ a.readable = t.readable /\ a.transform = y /\ a.threw = t.threw
        BY <1>3, <2>6, StateFields
  <2> HIDE DEF a
  <2>8. /\ p \in States /\ p.readable = t.readable /\ p.writable = w
        /\ p.transform = y /\ p.threw = t.threw
        BY <2>5, <2>7, StateFields
  <2> HIDE DEF p
  <2>9. Sides(p)
        BY <1>2, <2>3, <2>5, <2>6, <2>8 DEF Sides, Excused
  <2>10. PullsKnown(p) /\ Unblocked(p)
        BY <1>2, <2>6, <2>8 DEF TransformInvariant, PullsKnown, PullsLoose, Unblocked
  <2>11. StartsTogether(p) /\ CallsRun(p) /\ Kept(p)
        BY <1>2, <2>5, <2>6, <2>8
        DEF TransformInvariant, Tied, StartsTogether, CallsRun, Kept
  <2>12. EndsKnown(p)
        BY <1>2, <2>5, <2>6, <2>8 DEF EndsKnown
  <2>13. TransformInvariant(p)
        BY <2>9, <2>10, <2>11, <2>12 DEF TransformInvariant, Tied
  <2> QED BY <2>1, <2>13, BecomeKeeps
<1> QED BY <1>4, <1>5, <1>6 DEF SinkSettles

-----------------------------------------------------------------------------
(* The theorems.                                                              *)

LEMMA InitialKeeps ==
    ASSUME Init
    PROVE  TransformInvariant(Now)
<1> USE SidesAssumption
<1> DEFINE t == Now
<1>1. PICK keysMatch \in RequestKeysMatch :
          /\ readable = R!AcquireReader(R!NewStream(keysMatch))
          /\ writable = W!AcquireWriter(W!NewStream(keysMatch))
      BY DEF Init
<1>2. PICK transformer \in Transformers, sizes \in [Chunks -> Sizes \cup {None}] :
          transform = [transformer |-> transformer, algorithms |-> TRUE,
                       backpressure |-> TRUE, pull |-> "none", write |-> "none",
                       close |-> "none", abort |-> "none", sizes |-> sizes,
                       sizeFailed |-> FALSE, failed |-> {}]
      BY DEF Init
<1>3. keysMatch \in BOOLEAN /\ transformer \in {"default", "user"}
      BY TransformStreamAssumption
<1>4. /\ RP!Sound(readable) /\ RP!Waits(readable) /\ readable.reader
      /\ readable.keysMatch = keysMatch /\ Open(readable) /\ ~Needs(readable)
      /\ readable.sourceCalls = {"start"} /\ ~readable.pulling /\ ~readable.cancelled
      /\ readable.state = "readable"
  <2> DEFINE s == RP!NewStream(keysMatch)
  <2>1. readable = RP!AcquireReader(s)
        BY <1>1, SameReader, SameSource
  <2>2. /\ s.keysMatch = keysMatch /\ s.state = "readable" /\ s.readRequests = <<>>
        /\ ~s.closeRequested /\ ~s.started /\ ~s.pulling /\ s.sourceCalls = {"start"}
        /\ ~s.cancelled
        BY DEF RP!NewStream
  <2>3. RP!Sound(s)
        BY <1>3, RP!NewStreamSound
  <2> HIDE DEF s
  <2>4. /\ RP!Sound(readable) /\ readable.reader /\ readable.keysMatch = s.keysMatch
        /\ readable.state = s.state /\ readable.closeRequested = s.closeRequested
        BY <2>1, <2>3, RP!AcquireSound
  <2>5. /\ readable.readRequests = s.readRequests /\ readable.started = s.started
        /\ readable.pulling = s.pulling /\ readable.sourceCalls = s.sourceCalls
        /\ readable.cancelled = s.cancelled
        BY <2>1, <2>3 DEF RP!AcquireReader, RP!Sound, RP!Slots
  <2> QED BY <2>2, <2>4, <2>5
          DEF RP!Waits, Open, Needs, RP!CanCloseOrEnqueue, RP!ShouldCallPull
<1>5. /\ Works(writable) /\ writable.keysMatch = keysMatch /\ writable.state = "writable"
      /\ writable.sinkCalls = {"start"}
  <2> DEFINE s == WP!NewStream(keysMatch)
  <2>1. writable = WP!AcquireWriter(s)
        BY <1>1, SamePromises, SameSink
  <2>2. s.keysMatch = keysMatch /\ s.state = "writable" /\ s.sinkCalls = {"start"}
        BY DEF WP!NewStream
  <2>3. WP!WritableInvariant(s) /\ WP!Told(s)
        BY <1>3, WP!InitialStep, WP!InitialTold
  <2> HIDE DEF s
  <2>4. s \in WP!Slots
        BY <2>3 DEF WP!WritableInvariant, WP!Loose
  <2>5. writable \in WP!Slots /\ WP!Same(s, writable)
        BY <2>1, <2>4, WP!AcquireKeeps
  <2>6. WP!WritableInvariant(writable)
        BY <2>3, <2>5, WP!SameInvariant
  <2>7. WP!Told(writable)
        BY <2>1, <2>3, <2>4, WP!AcquireTold
  <2>8. /\ writable.writer /\ writable.keysMatch = s.keysMatch /\ writable.state = s.state
        /\ writable.sinkCalls = s.sinkCalls
        BY <2>1, <2>4 DEF WP!AcquireWriter, WP!Slots
  <2> QED BY <2>2, <2>6, <2>7, <2>8 DEF Works
<1>6. /\ transform \in TransformSlots /\ transform.failed = {} /\ transform.algorithms
      /\ transform.backpressure /\ transform.pull = "none" /\ transform.write = "none"
      /\ transform.close = "none" /\ transform.abort = "none"
  <2>1. transform.failed = {} /\ {} \in SUBSET Assertions
        BY <1>2
  <2> QED BY <1>2, <1>3, <2>1 DEF TransformSlots
<1>7. /\ t.readable = readable /\ t.writable = writable /\ t.transform = transform
      /\ t.threw = FALSE
      BY NowFields
<1>8. t \in States
  <2>1. readable \in R!Slots /\ writable \in W!Slots
        BY <1>4, <1>5, SameReadable, WorksFacts DEF RP!Sound
  <2> QED BY <1>6, <2>1 DEF States, Now
<1> HIDE DEF t
<1>9. Sides(t)
      BY <1>4, <1>5, <1>6, <1>7, <1>8 DEF Sides
<1>10. PullsKnown(t) /\ Unblocked(t)
      BY <1>4, <1>6, <1>7 DEF PullsKnown, PullsLoose, Unblocked
<1>11. StartsTogether(t) /\ CallsRun(t) /\ Kept(t)
      BY <1>4, <1>5, <1>6, <1>7 DEF StartsTogether, CallsRun, Kept
<1>12. EndsKnown(t)
      BY <1>4, <1>5, <1>6, <1>7 DEF EndsKnown
<1> QED BY <1>9, <1>10, <1>11, <1>12 DEF TransformInvariant, Tied, t

LEMMA NextKeeps ==
    ASSUME TransformInvariant(Now), [Next]_vars
    PROVE  TransformInvariant(Now)'
<1>1. CASE Program
      BY <1>1, WriteKeeps, CloseKeeps, AbortKeeps, ReadKeeps, CancelKeeps, TransformerKeeps
      DEF Program
<1>2. CASE Reactions
      BY <1>2, StartSettlesKeeps, PullSettlesKeeps, WriteUnblockedKeeps, TransformSettlesKeeps,
         FlushSettlesKeeps, SinkSettlesKeeps DEF Reactions
<1>3. CASE UNCHANGED vars
  <2>1. Now' = Now
        BY <1>3 DEF Now, vars
  <2>2. TransformInvariant(Now')
        BY <2>1
  <2> QED BY <2>2
<1> QED BY <1>1, <1>2, <1>3 DEF Next

\* In every reachable state both sides satisfy their own invariants and are tied as
\* TransformInvariant says.
THEOREM TransformInvariantHolds == Spec => []TransformInvariant(Now)
<1>1. Init => TransformInvariant(Now)
      BY InitialKeeps
<1>2. TransformInvariant(Now) /\ [Next]_vars => TransformInvariant(Now)'
      BY NextKeeps
<1> QED BY <1>1, <1>2, PTL DEF Spec

\* The two sides and the transform stream's own slots have their types.
THEOREM TransformTypeCorrect == Spec => []TypeOK
<1>1. TransformInvariant(Now) => TypeOK
  <2> SUFFICES ASSUME TransformInvariant(Now)
               PROVE  TypeOK
      OBVIOUS
  <2> DEFINE t == Now
  <2>1. t \in States
        BY DEF TransformInvariant, Sides
  <2>2. t.readable = readable /\ t.writable = writable /\ t.transform = transform
        BY NowFields
  <2> HIDE DEF t
  <2> QED BY <2>1, <2>2, StateFields DEF TypeOK
<1> QED BY <1>1, TransformInvariantHolds, PTL

\* Where the keys agree, the transform stream's idea of backpressure is that of the
\* readable side's queue and of the reads that wait, whatever the transformer enqueued
\* and when, except between the end of a pull() and its reaction.
THEOREM BackpressureAgreesCorrect == Spec => []BackpressureAgrees
<1>1. TransformInvariant(Now) => BackpressureAgrees
  <2> SUFFICES ASSUME TransformInvariant(Now), readable.keysMatch, Open(readable),
                      transform.pull # "resolved"
               PROVE  transform.backpressure = R!HasBackpressure(readable)
      BY SameQueries DEF BackpressureAgrees, Open
  <2> DEFINE t == Now
  <2>1. t.readable = readable /\ t.transform = transform
        BY NowFields
  <2>2. t \in States /\ PullsKnown(t)
        BY DEF TransformInvariant, Sides
  <2> HIDE DEF t
  <2>3. /\ transform.pull \in {"none", "pending", "resolved"}
        /\ transform.backpressure \in BOOLEAN
        BY <2>1, <2>2, StateFields DEF TransformSlots
  <2>4. transform.backpressure <=> ~Needs(readable)
        BY <2>1, <2>2, <2>3 DEF PullsKnown, PullsLoose
  <2>5. R!HasBackpressure(readable) <=> ~Needs(readable)
        BY SameQueries DEF R!HasBackpressure, Needs
  <2>6. R!HasBackpressure(readable) \in BOOLEAN
        BY DEF R!HasBackpressure
  <2> QED BY <2>3, <2>4, <2>5, <2>6
<1> QED BY <1>1, TransformInvariantHolds, PTL

\* Where the keys agree, a readable side that failed or was canceled leaves no writable
\* side that takes chunks, and nothing is put into the readable side once the writable
\* one is closed, or errored by anything but its own size().
THEOREM EndsTogetherCorrect == Spec => []EndsTogether
<1>1. TransformInvariant(Now) => EndsTogether
  <2> SUFFICES ASSUME TransformInvariant(Now)
               PROVE  EndsTogether
      OBVIOUS
  <2> DEFINE t == Now
  <2>1. t.readable = readable /\ t.writable = writable /\ t.transform = transform
        BY NowFields
  <2>2. EndsKnown(t)
        BY DEF TransformInvariant, Tied
  <2> HIDE DEF t
  <2> QED BY <2>1, <2>2, SameQueries DEF EndsKnown, EndsTogether, Open
<1> QED BY <1>1, TransformInvariantHolds, PTL

\* No assertion of the two sides fails in a transform stream, nor one of transform.js
\* with the default transformer, where the keys agree; with the user's only those in
\* enqueue() and pull() may.
THEOREM TransformAssertionsHoldCorrect == Spec => []TransformAssertionsHold
<1>1. TransformInvariant(Now) => TransformAssertionsHold
  <2> SUFFICES ASSUME TransformInvariant(Now)
               PROVE  TransformAssertionsHold
      OBVIOUS
  <2> DEFINE t == Now
  <2>1. t.readable = readable /\ t.writable = writable /\ t.transform = transform
        BY NowFields
  <2>2. Sides(t)
        BY DEF TransformInvariant
  <2> HIDE DEF t
  <2>3. RP!Sound(readable) /\ Works(writable)
        BY <2>1, <2>2 DEF Sides
  <2>4. transform.failed \subseteq
            IF transform.transformer = "default" /\ readable.keysMatch THEN {}
            ELSE {"enqueue", "pull"}
        BY <2>1, <2>2 DEF Sides, Excused
  <2>5. readable.failed = {}
        BY <2>3 DEF RP!Sound
  <2>6. W!AssertionsHold
    <3>1. WP!AssertionsHold
          BY <2>3 DEF Works, WP!Told, WP!Honest, WP!Excepted, WP!AssertionsHold
    <3> QED BY <3>1, SameSink
  <2> QED BY <2>4, <2>5, <2>6 DEF TransformAssertionsHold
<1> QED BY <1>1, TransformInvariantHolds, PTL
=============================================================================
