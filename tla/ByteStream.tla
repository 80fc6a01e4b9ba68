----------------------------- MODULE ByteStream -----------------------------
(***************************************************************************)
(* A ReadableStream with a byte source (whatwg/streams/readable.js):       *)
(* ReadableByteStreamController, its BYOB requests, and both kinds of      *)
(* reader.  The source either enqueues chunks of bytes or writes into the  *)
(* buffer of the first pull-into descriptor and calls respond().  A BYOB   *)
(* read brings a view and gets a whole number of its elements; with        *)
(* autoAllocateChunkSize a default read brings a buffer, too.              *)
(*                                                                         *)
(* A byte is the number it was produced as, so order and loss are seen.    *)
(* As in ReadableStream one record has the slots of stream, controller and *)
(* reader, and keysMatch tells whether the keys of the read requests agree *)
(* with those they are settled under; here what runs on after an exception *)
(* matters, and the field threw says that one is passing through.          *)
(*                                                                         *)
(* byobRequest is made whenever it is asked for and invalidated whenever   *)
(* the first descriptor changes, so it is not kept.  Left out: the closed  *)
(* promises (see ReadableStream) and detached buffers.                     *)
(***************************************************************************)
EXTENDS Naturals, Sequences, SequencesExt

CONSTANTS
    MaxBytes,           \* the bytes produced (a bound)
    MaxReads,           \* the reads made (a bound)
    ChunkLengths,       \* of the chunks enqueued; one may be empty (a bound)
    Views,              \* what BYOB reads bring
    AutoAllocateSizes,  \* 0 for undefined
    HighWaterMark,
    RequestKeysMatch    \* the values of keysMatch that are looked at

ASSUME ByteStreamAssumption ==
    /\ ChunkLengths \cup AutoAllocateSizes \subseteq Nat
    /\ \A view \in Views :
          view.element > 0 /\ view.size > 0 /\ view.size % view.element = 0

VARIABLE stream

Bytes == 1..MaxBytes
Reads == 1..MaxReads

Descriptors == [
    reader : {"default", "byob"},   \* readerType
    size : Nat,                     \* byteLength
    element : Nat,                  \* elementSize
    bytes : Seq(Bytes)]             \* what is filled

Slots == [
    keysMatch : BOOLEAN,
    autoAllocate : AutoAllocateSizes,
    state : {"readable", "closed", "errored"},
    reader : {"none", "default", "byob"},
    requests : Seq(Reads),          \* of the reader
    answers : [Reads -> {"none", "pending", "bytes", "done", "rejected"}],
    given : [Reads -> Seq(Bytes)],
    queue : Seq(Seq(Bytes)),
    pendingPullIntos : Seq(Descriptors),
    started : BOOLEAN,
    closeRequested : BOOLEAN,
    pulling : BOOLEAN,
    pullAgain : BOOLEAN,
    sourceCalls : SUBSET {"start", "pull"},     \* those that have not settled
    threw : BOOLEAN,
    produced : 0..MaxBytes,         \* history
    cancelled : BOOLEAN,            \* history
    empty : BOOLEAN,                \* history: an empty chunk was enqueued
    stray : BOOLEAN,                \* history: a default read was settled and
                                    \* left its descriptor behind
    owing : BOOLEAN,                \* history: the source was pulled and has
                                    \* neither given bytes nor ended since
    idle : BOOLEAN,                 \* history: a pull() ended with it owing
    failed : SUBSET STRING]         \* history: the assertions that failed

TypeOK == stream \in Slots

(* The constructor has returned: start() was called and has not settled.      *)
NewStream(keysMatch, autoAllocate) ==
    [   keysMatch |-> keysMatch, autoAllocate |-> autoAllocate,
        state |-> "readable", reader |-> "none", requests |-> <<>>,
        answers |-> [i \in Reads |-> "none"], given |-> [i \in Reads |-> <<>>],
        queue |-> <<>>, pendingPullIntos |-> <<>>, started |-> FALSE,
        closeRequested |-> FALSE, pulling |-> FALSE, pullAgain |-> FALSE,
        sourceCalls |-> {"start"}, threw |-> FALSE, produced |-> 0,
        cancelled |-> FALSE, empty |-> FALSE, stray |-> FALSE,
        owing |-> FALSE, idle |-> FALSE, failed |-> {}]

Init == \E keysMatch \in RequestKeysMatch, autoAllocate \in AutoAllocateSizes :
            stream = NewStream(keysMatch, autoAllocate)

-----------------------------------------------------------------------------
(* Queries.                                                                   *)

Total(s) == Len(FlattenSeq(s.queue))    \* [[queueTotalSize]]

Least(m, n) == IF m < n THEN m ELSE n

FloorTo(n, element) == n - (n % element)

\* desiredSize is positive.
HasRoom(s) == Total(s) < HighWaterMark

DefaultReadWaits(s) == s.reader = "default" /\ s.requests # <<>>

BYOBReadWaits(s) == s.reader = "byob" /\ s.requests # <<>>

ShouldCallPull(s) ==
    /\ s.state = "readable" /\ ~s.closeRequested /\ s.started
    /\ DefaultReadWaits(s) \/ BYOBReadWaits(s) \/ HasRoom(s)

Asserted(s, name, condition) ==
    IF condition THEN s ELSE [s EXCEPT !.failed = @ \cup {name}, !.threw = TRUE]

-----------------------------------------------------------------------------
(* The stream.                                                                *)

CallPullIfNeeded(s) ==
    CASE s.threw \/ ~ShouldCallPull(s) -> s
      [] ~s.threw /\ ShouldCallPull(s) /\ s.pulling -> [s EXCEPT !.pullAgain = TRUE]
      [] OTHER -> [Asserted(s, "no pull again", ~s.pullAgain)
                      EXCEPT !.pulling = TRUE,
                             !.sourceCalls = @ \cup {"pull"},
                             !.owing = TRUE]

\* Only a default reader's requests are resolved; those of a BYOB reader wait for
\* respond(0).
CloseStream(s) ==
    LET resolved == IF s.reader = "default" THEN ToSet(s.requests) ELSE {}
    IN  [Asserted(s, "closing", s.state = "readable")
            EXCEPT !.state = "closed",
                   !.requests = IF s.reader = "default" THEN <<>> ELSE @,
                   !.answers = [i \in Reads |-> IF i \in resolved THEN "done" ELSE @[i]],
                   !.stray = @ \/ \E d \in ToSet(s.pendingPullIntos) : d.reader = "default",
                   !.owing = FALSE]

\* The first reject() throws when its key is missing: the requests stay.
ErrorStream(s) ==
    LET errored == [s EXCEPT !.state = "errored", !.owing = FALSE]
    IN  IF s.requests # <<>> /\ ~s.keysMatch THEN [errored EXCEPT !.threw = TRUE]
        ELSE [errored EXCEPT !.requests = <<>>,
                             !.answers = [i \in Reads |->
                                 IF Contains(s.requests, i) THEN "rejected" ELSE @[i]]]

\* Of a default or a BYOB reader: the request leaves the list, and is lost when its
\* key is missing.
FulfillRequest(s, bytes, done) ==
    LET taken == [s EXCEPT !.requests = Tail(@)]
    IN  IF s.keysMatch
        THEN [taken EXCEPT !.answers[Head(s.requests)] = IF done THEN "done" ELSE "bytes",
                           !.given[Head(s.requests)] = bytes]
        ELSE [taken EXCEPT !.threw = TRUE]

AddRequest(s, i) == [s EXCEPT !.requests = Append(@, i), !.answers[i] = "pending"]

-----------------------------------------------------------------------------
(* The controller's queue and its descriptors.                                *)

ControllerError(s) ==
    IF s.state # "readable" THEN s
    ELSE ErrorStream([s EXCEPT !.pendingPullIntos = <<>>, !.queue = <<>>])

EnqueueChunk(s, bytes) == [s EXCEPT !.queue = Append(@, bytes)]

\* What the copying loop leaves of the queue when it has taken n bytes.
DropBytes(queue, n) ==
    LET Drop(acc, chunk) ==
            IF acc.left > 0 /\ Len(chunk) <= acc.left
            THEN [acc EXCEPT !.left = @ - Len(chunk)]
            ELSE [left |-> 0,
                  queue |-> Append(acc.queue, SubSeq(chunk, acc.left + 1, Len(chunk)))]
    IN  FoldLeft(Drop, [left |-> n, queue |-> <<>>], queue).queue

\* A mutant: every byte that fits is copied.
CopiedAll(s, descriptor) == Least(Total(s), descriptor.size - Len(descriptor.bytes))

\* How many bytes of the queue go to a descriptor: those that complete elements if
\* there are any, else all.
Copied(s, descriptor) ==
    LET filled == Len(descriptor.bytes)
        most == Least(Total(s), descriptor.size - filled)
        aligned == FloorTo(filled + most, descriptor.element)
    IN  IF aligned > FloorTo(filled, descriptor.element) THEN aligned - filled ELSE most

FillDescriptor(s, descriptor) ==
    [descriptor EXCEPT !.bytes = @ \o SubSeq(FlattenSeq(s.queue), 1, Copied(s, descriptor))]

Ready(descriptor) == Len(descriptor.bytes) >= descriptor.element

AfterFilling(s, descriptor) ==
    LET taken == [s EXCEPT !.queue = DropBytes(@, Copied(s, descriptor))]
        filled == FillDescriptor(s, descriptor)
    IN  Asserted(taken, "filling", Ready(filled) \/ (Total(taken) = 0 /\ filled.bytes # <<>>))

HandleQueueDrain(s) ==
    IF Total(s) = 0 /\ s.closeRequested
    THEN CloseStream(Asserted(s, "draining", s.state = "readable"))
    ELSE CallPullIfNeeded(s)

ShiftPendingPullInto(s) == [s EXCEPT !.pendingPullIntos = Tail(@)]

Commit(s, descriptor) ==
    LET asserted == Asserted(s, "commit",
            /\ s.state # "errored"
            /\ s.state = "closed" => descriptor.bytes = <<>>
            /\ Len(descriptor.bytes) % descriptor.element = 0
            /\ descriptor.reader = s.reader /\ s.requests # <<>>)
    IN  IF asserted.threw THEN asserted
        ELSE FulfillRequest(s, descriptor.bytes, s.state = "closed")

ProcessPullIntosUsingQueue(s) ==
    LET Process(t, i) ==
            LET first == Head(t.pendingPullIntos)
                filled == FillDescriptor(t, first)
            IN  CASE t.threw \/ t.pendingPullIntos = <<>> \/ Total(t) = 0 -> t
                  [] OTHER ->
                        IF Ready(filled)
                        THEN Commit(ShiftPendingPullInto(AfterFilling(t, first)), filled)
                        ELSE [AfterFilling(t, first) EXCEPT !.pendingPullIntos[1] = filled]
    IN  FoldLeft(Process, Asserted(s, "processing", ~s.closeRequested), s.pendingPullIntos)

-----------------------------------------------------------------------------
(* The controller, as the source uses it.                                     *)

\* A mutant: the stream is closed although bytes are still queued.
CloseAtOnce(s) ==
    IF s.pendingPullIntos # <<>> /\ Head(s.pendingPullIntos).bytes # <<>>
    THEN ControllerError(s) ELSE CloseStream(s)

Close(s) ==
    CASE Total(s) > 0 -> [s EXCEPT !.closeRequested = TRUE, !.owing = FALSE]
      [] Total(s) = 0 /\ s.pendingPullIntos # <<>> /\ Head(s.pendingPullIntos).bytes # <<>> ->
            ControllerError(s)
      [] OTHER -> CloseStream(s)

\* A descriptor that a default read brought stays when a chunk answers the read.
Enqueue(s, bytes) ==
    CallPullIfNeeded(
        CASE DefaultReadWaits(s) ->
                LET asserted == Asserted(s, "queue empty", s.queue = <<>>)
                IN  IF asserted.threw THEN asserted
                    ELSE FulfillRequest([s EXCEPT !.stray = @ \/ s.pendingPullIntos # <<>>],
                                        bytes, FALSE)
          [] s.reader = "byob" -> ProcessPullIntosUsingQueue(EnqueueChunk(s, bytes))
          [] OTHER -> EnqueueChunk(s, bytes))

\* The bytes of an incomplete element go back to the queue.
RespondInReadableState(s, bytes) ==
    LET first == Head(s.pendingPullIntos)
        filled == first.bytes \o bytes
        whole == FloorTo(Len(filled), first.element)
        shifted == ShiftPendingPullInto(s)
        committed == Commit(
            IF whole = Len(filled) THEN shifted
            ELSE EnqueueChunk(shifted, SubSeq(filled, whole + 1, Len(filled))),
            [first EXCEPT !.bytes = SubSeq(filled, 1, whole)])
    IN  CASE Len(filled) < first.element -> [s EXCEPT !.pendingPullIntos[1].bytes = filled]
          [] OTHER -> IF committed.threw THEN committed
                      ELSE ProcessPullIntosUsingQueue(committed)

RespondInClosedState(s) ==
    LET CommitFirst(t, i) ==
            IF t.threw THEN t
            ELSE Commit(ShiftPendingPullInto(t), Head(t.pendingPullIntos))
        asserted == Asserted(s, "nothing filled", Head(s.pendingPullIntos).bytes = <<>>)
    IN  IF s.reader = "byob" THEN FoldLeft(CommitFirst, asserted, s.requests) ELSE asserted

\* A mutant: an answer that does not complete an element asks for no more.
RespondOnly(s, bytes) ==
    IF s.state = "closed" THEN RespondInClosedState(s) ELSE RespondInReadableState(s, bytes)

Respond(s, bytes) ==
    CallPullIfNeeded(IF s.state = "closed" THEN RespondInClosedState(s)
                     ELSE RespondInReadableState(s, bytes))

-----------------------------------------------------------------------------
(* The readers.                                                               *)

\* read() of a default reader.  The first entry of the queue answers, be it empty.
PullSteps(s, i) ==
    LET dequeued == [s EXCEPT !.queue = Tail(@),
                              !.answers[i] = "bytes",
                              !.given[i] = Head(s.queue)]
        buffer == [reader |-> "default", size |-> s.autoAllocate, element |-> 1, bytes |-> <<>>]
        allocated == IF s.autoAllocate = 0 THEN s
                     ELSE [s EXCEPT !.pendingPullIntos = Append(@, buffer)]
    IN  IF Total(s) > 0
        THEN HandleQueueDrain(Asserted(dequeued, "no requests", s.requests = <<>>))
        ELSE CallPullIfNeeded(AddRequest(allocated, i))

Read(s, i) ==
    CASE s.state = "closed" -> [s EXCEPT !.answers[i] = "done"]
      [] s.state = "errored" -> [s EXCEPT !.answers[i] = "rejected"]
      [] s.state = "readable" -> PullSteps(s, i)

\* read(view) of a BYOB reader.  The source is not pulled when reads wait: it was
\* for the first one.
PullInto(s, i, view) ==
    LET descriptor == [reader |-> "byob", size |-> view.size,
                       element |-> view.element, bytes |-> <<>>]
        filled == FillDescriptor(s, descriptor)
        taken == AfterFilling(s, descriptor)
    IN  CASE s.pendingPullIntos # <<>> ->
                AddRequest([s EXCEPT !.pendingPullIntos = Append(@, descriptor)], i)
          [] s.pendingPullIntos = <<>> /\ s.state = "closed" -> [s EXCEPT !.answers[i] = "done"]
          [] OTHER ->
                CASE Total(s) = 0 ->
                        CallPullIfNeeded(AddRequest(
                            [s EXCEPT !.pendingPullIntos = <<descriptor>>], i))
                  [] Total(s) > 0 /\ Ready(filled) ->
                        HandleQueueDrain([taken EXCEPT !.answers[i] = "bytes",
                                                       !.given[i] = filled.bytes])
                  [] OTHER ->
                        IF s.closeRequested
                        THEN ControllerError([taken EXCEPT !.answers[i] = "rejected"])
                        ELSE CallPullIfNeeded(AddRequest(
                            [taken EXCEPT !.pendingPullIntos = <<filled>>], i))

ReadInto(s, i, view) ==
    IF s.state = "errored" THEN [s EXCEPT !.answers[i] = "rejected"] ELSE PullInto(s, i, view)

CancelSteps(s) ==
    [s EXCEPT !.pendingPullIntos =
                  IF @ = <<>> THEN @ ELSE [@ EXCEPT ![1].bytes = <<>>],
              !.queue = <<>>,
              !.cancelled = TRUE]

Cancel(s) == IF s.state # "readable" THEN s ELSE CancelSteps(CloseStream(s))

-----------------------------------------------------------------------------
(* The program's calls.  A call that only throws or returns a settled promise *)
(* is left out.                                                               *)

Become(s) == stream' = [s EXCEPT !.threw = FALSE]

\* The next n bytes.
Fresh(n) == [k \in 1..n |-> stream.produced + k]

CanProduce(n) == stream.produced + n <= MaxBytes

\* The source has produced n bytes, and gives them now.
Produced(n) ==
    [stream EXCEPT !.produced = @ + n,
                   !.empty = @ \/ n = 0,
                   !.owing = @ /\ n = 0]

GetReader(reader) ==
    /\ stream.reader = "none"
    /\ Become([stream EXCEPT !.reader = reader])

\* releaseLock() throws while reads are pending.
ReleaseLock ==
    /\ stream.reader # "none" /\ stream.requests = <<>>
    /\ Become([stream EXCEPT !.reader = "none"])

NextReads == {i \in Reads :
    stream.answers[i] = "none" /\ \A j \in 1..(i - 1) : stream.answers[j] # "none"}

DefaultRead ==
    /\ stream.reader = "default"
    /\ \E i \in NextReads : Become(Read(stream, i))

BYOBRead ==
    /\ stream.reader = "byob"
    /\ \E i \in NextReads, view \in Views : Become(ReadInto(stream, i, view))

StreamCancel ==
    /\ stream.state = "readable"
    /\ Become(Cancel(stream))

SourceCloses ==
    /\ stream.state = "readable" /\ ~stream.closeRequested
    /\ Become(Close(stream))

SourceErrors ==
    /\ stream.state = "readable"
    /\ Become(ControllerError(stream))

SourceEnqueues ==
    /\ stream.state = "readable" /\ ~stream.closeRequested
    /\ \E n \in ChunkLengths :
          /\ CanProduce(n) /\ (n = 0 => ~stream.empty)
          /\ Become(Enqueue(Produced(n), Fresh(n)))

\* byobRequest.respond(), after n bytes have been written into its view.
SourceResponds ==
    /\ stream.pendingPullIntos # <<>>
    /\ LET first == Head(stream.pendingPullIntos)
       IN  \/ /\ stream.state = "closed"
              /\ Become(Respond(stream, <<>>))
           \/ /\ stream.state = "readable"
              /\ \E n \in 1..(first.size - Len(first.bytes)) :
                    /\ CanProduce(n)
                    /\ Become(Respond(Produced(n), Fresh(n)))

\* respondWithNewView() with a view of the same place takes it as filled, and throws
\* when a part of it was filled before.
SourceRespondsWithNewView ==
    /\ stream.pendingPullIntos # <<>>
    /\ stream.state = "readable"
    /\ LET first == Head(stream.pendingPullIntos)
       IN  /\ first.bytes = <<>>
           /\ CanProduce(first.size)
           /\ Become(Respond(Produced(first.size), Fresh(first.size)))

-----------------------------------------------------------------------------
(* The reactions to the promises of the source.                               *)

Settled(call) == [stream EXCEPT !.sourceCalls = @ \ {call}]

StartSettles ==
    /\ "start" \in stream.sourceCalls
    /\ \/ Become(CallPullIfNeeded(
              [Asserted(Settled("start"), "not pulling", ~stream.pulling /\ ~stream.pullAgain)
                  EXCEPT !.started = TRUE]))
       \/ Become(ControllerError(Settled("start")))

PullSettles ==
    /\ "pull" \in stream.sourceCalls
    /\ LET finished == [Settled("pull") EXCEPT !.pulling = FALSE,
                                               !.pullAgain = FALSE,
                                               !.idle = @ \/ stream.owing]
       IN  \/ Become(IF stream.pullAgain THEN CallPullIfNeeded(finished) ELSE finished)
           \/ Become(ControllerError(Settled("pull")))

SourceSettles ==
    \/ StartSettles
    \/ PullSettles

SourceCallsController ==
    \/ SourceCloses
    \/ SourceErrors
    \/ SourceEnqueues
    \/ SourceResponds
    \/ SourceRespondsWithNewView

ReaderCalls ==
    \/ \E reader \in {"default", "byob"} : GetReader(reader)
    \/ ReleaseLock
    \/ DefaultRead
    \/ BYOBRead
    \/ StreamCancel

Next ==
    \/ ReaderCalls
    \/ SourceCallsController
    \/ SourceSettles

(* start() and pull() settle.  Nothing obliges the program to make a call.    *)
Spec == Init /\ [][Next]_stream /\ WF_stream(SourceSettles)

-----------------------------------------------------------------------------
(* Correctness.                                                               *)

\* What the stream has of the bytes, in order: with the reads that got them, in
\* the descriptors, and in the queue.
Delivered == FlattenSeq(stream.given)

Held ==
    Delivered
        \o FlattenSeq([k \in DOMAIN stream.pendingPullIntos |->
                          stream.pendingPullIntos[k].bytes])
        \o FlattenSeq(stream.queue)

\* Every byte the source produced is delivered once and in order, however chunks,
\* views, elements and both kinds of readers divide them, and whether they were
\* enqueued or written into a view: while the stream is readable, what was read,
\* what is filled and what is queued are the bytes produced.  A stream that closed
\* by itself has delivered them all: what was read alone are the bytes produced.
\* (Where the keys agree; not after an assertion failed.)
BytesInOrder ==
    stream.keysMatch /\ stream.failed = {}
    => LET all == [k \in 1..stream.produced |-> k] IN
       /\ stream.state = "readable" => Held = all
       /\ stream.state = "closed" /\ ~stream.cancelled => Delivered = all

\* The assertions of the byte controller hold, and a descriptor never meets a
\* reader it was not made for, unless an empty chunk was enqueued (line 1797 then
\* fails) or a chunk answered a read that had brought a buffer, whose descriptor
\* is answered to nobody later (lines 602-616 then fail).
ByteAssertionsHold == stream.failed = {} \/ stream.empty \/ stream.stray

\* A read does not wait for ever on a source that does its part: where the keys
\* agree it settles, unless the source ended a pull() without having given bytes
\* or ended since it was pulled, or has closed the stream and owes respond(0), or
\* the descriptor of an earlier read was left behind or an assertion failed.
ByteReadsSettle ==
    stream.requests # <<>>
        ~> \/ stream.requests = <<>>
           \/ stream.idle \/ stream.state = "closed"
           \/ ~stream.keysMatch \/ stream.stray \/ stream.failed # {}
=============================================================================
