--------------------------- MODULE ReadableStream ---------------------------
(***************************************************************************)
(* A ReadableStream with its default controller, its default readers and   *)
(* its underlying source (whatwg/streams/readable.js).  As in              *)
(* WritableStream the slots of the stream, of its controller and of its    *)
(* current reader are the fields of one record, the abstract operations    *)
(* are functions from such records to records, and one call of the API or  *)
(* one reaction is an action; enqueue() is interrupted by size(), which    *)
(* the user supplies and which may make any other call but enqueue() of a  *)
(* chunk whose size is needed (a bound).  A read() in size() may wait, and *)
(* the chunk that called size() goes to the queue all the same.            *)
(*                                                                         *)
(* Read requests are made with the keys `_resolve' and `_reject' (lines    *)
(* 518-524) and settled through the private symbols kResolve and kReject,  *)
(* except by ReadableStreamClose, so fulfilling or rejecting one throws.   *)
(* The field keysMatch is FALSE in this code; where it is TRUE the record  *)
(* behaves as the same code with the keys agreeing.                        *)
(*                                                                         *)
(* Left out: kDisturbed, which nothing in this module reads.               *)
(***************************************************************************)
EXTENDS Naturals, Sequences, FiniteSets, SequencesExt

CONSTANTS
    Chunks,             \* what is enqueued, each at most once (a bound)
    Sizes,              \* the finite sizes size() returns
    HighWaterMark,
    MaxReads,           \* the reads made (a bound)
    RequestKeysMatch,   \* the values of keysMatch that are looked at
    None                \* undefined

ASSUME ReadableStreamAssumption ==
    /\ Sizes \subseteq Nat
    /\ HighWaterMark \in Nat
    /\ MaxReads \in Nat
    /\ RequestKeysMatch \subseteq BOOLEAN
    /\ {None, "none", "pending", "done", "rejected"} \cap Chunks = {}

VARIABLE stream

Reads == 1..MaxReads    \* in the order the calls are made

\* The calls of assert() that the model evaluates, by what they demand.
Assertions == {"no pull again", "not pulling", "closing", "erroring", "can close or enqueue",
               "closed promise pending", "closed promise settled"}

(* The slots.  A read stands for its request; the requests and the promise    *)
(* of a reader are kept for the current one (a released one's is rejected).   *)
Slots == [
    keysMatch : BOOLEAN,
    state : {"readable", "closed", "errored"},
    reader : BOOLEAN,               \* locked to a reader,
    closed : {"pending", "fulfilled", "rejected"},      \* its promise,
    readRequests : Seq(Reads),      \* and its requests
    answers : [Reads -> Chunks \cup {"none", "pending", "done", "rejected"}],
    queue : Seq([value : Chunks, size : Nat]),
    started : BOOLEAN,
    closeRequested : BOOLEAN,
    pulling : BOOLEAN,
    pullAgain : BOOLEAN,
    sourceCalls : SUBSET {"start", "pull"},     \* those that have not settled
    offered : SUBSET Chunks,        \* history: enqueue() was called with them
    cancelled : BOOLEAN,            \* history
    owing : BOOLEAN,                \* history: the source was pulled and has not
                                    \* enqueued, closed or failed since
    idle : BOOLEAN,                 \* history: a pull() ended with it owing
    sizing : Chunks \cup {None},    \* enqueue() is in size()
    readInSize : BOOLEAN,           \* history: a read began to wait in size()
    failed : SUBSET Assertions]     \* history: those that failed

(* The constructor has returned: start() was called and has not settled.      *)
NewStream(keysMatch) ==
    [   keysMatch |-> keysMatch, state |-> "readable",
        reader |-> FALSE, closed |-> "rejected", readRequests |-> <<>>,
        answers |-> [i \in Reads |-> "none"],
        queue |-> <<>>, started |-> FALSE, closeRequested |-> FALSE,
        pulling |-> FALSE, pullAgain |-> FALSE, sourceCalls |-> {"start"},
        offered |-> {}, cancelled |-> FALSE, owing |-> FALSE, idle |-> FALSE,
        sizing |-> None, readInSize |-> FALSE, failed |-> {}]

Init == \E keysMatch \in RequestKeysMatch : stream = NewStream(keysMatch)

-----------------------------------------------------------------------------
(* Queries.                                                                   *)

QueueTotalSize(s) == FoldLeft(LAMBDA total, pair : total + pair.size, 0, s.queue)

CanCloseOrEnqueue(s) == ~s.closeRequested /\ s.state = "readable"

\* desiredSize is positive.
HasRoom(s) == QueueTotalSize(s) < HighWaterMark

ShouldCallPull(s) ==
    /\ CanCloseOrEnqueue(s)
    /\ s.started
    /\ s.readRequests # <<>> \/ HasRoom(s)

HasBackpressure(s) == ~ShouldCallPull(s)

Values(queue) == [i \in DOMAIN queue |-> queue[i].value]

\* The members of S in a sequence, in its order: what the properties of the modules that
\* use streams say of answers and of logs.
Chosen(seq, S) == FoldLeft(LAMBDA got, x : IF x \in S THEN Append(got, x) ELSE got, <<>>, seq)

Asserted(s, name, condition) ==
    IF condition THEN s ELSE [s EXCEPT !.failed = @ \cup {name}]

-----------------------------------------------------------------------------
(* The closed promise of the reader, if there is one.                         *)

InitialClosedPromise(s) ==
    CASE s.state = "readable" -> "pending"
      [] s.state = "closed" -> "fulfilled"
      [] s.state = "errored" -> "rejected"

ClosedPromiseResolve(s) ==
    IF s.reader
    THEN [Asserted(s, "closed promise pending", s.closed = "pending")
             EXCEPT !.closed = "fulfilled"]
    ELSE s

ClosedPromiseReject(s) ==
    IF s.reader
    THEN [Asserted(s, "closed promise pending", s.closed = "pending")
             EXCEPT !.closed = "rejected"]
    ELSE s

ClosedPromiseResetToRejected(s) ==
    [Asserted(s, "closed promise settled", s.closed # "pending") EXCEPT !.closed = "rejected"]

-----------------------------------------------------------------------------
(* The stream, as its controllers and its readers see it.                     *)

CallPullIfNeeded(s) ==
    CASE ~ShouldCallPull(s) -> s
      [] ShouldCallPull(s) /\ s.pulling -> [s EXCEPT !.pullAgain = TRUE]
      [] OTHER -> [Asserted(s, "no pull again", ~s.pullAgain)
                      EXCEPT !.pulling = TRUE,
                             !.sourceCalls = @ \cup {"pull"},
                             !.owing = TRUE]

\* The read requests are resolved under the key they were made with.
CloseStream(s) ==
    ClosedPromiseResolve([Asserted(s, "closing", s.state = "readable")
        EXCEPT !.state = "closed",
               !.readRequests = <<>>,
               !.answers = [i \in Reads |->
                   IF Contains(s.readRequests, i) THEN "done" ELSE @[i]]])

\* The first reject() throws when its key is missing: the requests stay.
ErrorStream(s) ==
    LET errored == [Asserted(s, "erroring", s.state = "readable") EXCEPT !.state = "errored"]
    IN  IF s.readRequests # <<>> /\ ~s.keysMatch THEN errored
        ELSE ClosedPromiseReject([errored
                EXCEPT !.readRequests = <<>>,
                       !.answers = [i \in Reads |->
                           IF Contains(s.readRequests, i) THEN "rejected" ELSE @[i]]])

\* The request leaves the list, and is lost when its key is missing.
FulfillReadRequest(s, chunk) ==
    [s EXCEPT !.readRequests = Tail(@),
              !.answers[Head(s.readRequests)] = IF s.keysMatch THEN chunk ELSE @]

Cancel(s) ==
    IF s.state # "readable" THEN s
    ELSE [CloseStream(s) EXCEPT !.queue = <<>>, !.cancelled = TRUE]

-----------------------------------------------------------------------------
(* The controller, as the source uses it.                                     *)

\* A mutant: closing does not wait for the queue.
CloseAtOnce(s) == CloseStream([s EXCEPT !.closeRequested = TRUE, !.owing = FALSE])

ControllerClose(s) ==
    LET requested == [s EXCEPT !.closeRequested = TRUE, !.owing = FALSE]
    IN  IF s.queue = <<>> THEN CloseStream(requested) ELSE requested

ControllerError(s) ==
    IF s.state # "readable" THEN s
    ELSE ErrorStream([s EXCEPT !.queue = <<>>, !.owing = FALSE])

EnqueueThrows(s) == s.readRequests # <<>> /\ ~s.keysMatch

\* The stream may have changed while size() ran; the chunk is queued all the same.
EnqueueSized(s, chunk, size) ==
    CallPullIfNeeded([s EXCEPT !.queue = Append(@, [value |-> chunk, size |-> size]),
                               !.owing = FALSE])

\* enqueue() of a chunk that a read waits for.  CallPullIfNeeded is not reached
\* when fulfilling the request throws.
EnqueueToRequest(s, chunk) ==
    LET fulfilled == [FulfillReadRequest(s, chunk) EXCEPT !.owing = FALSE]
    IN  IF EnqueueThrows(s) THEN fulfilled ELSE CallPullIfNeeded(fulfilled)

\* enqueue() with a size() that does nothing but return `size'.
Enqueue(s, chunk, size) ==
    IF s.readRequests # <<>> THEN EnqueueToRequest(s, chunk)
    ELSE EnqueueSized(s, chunk, size)

-----------------------------------------------------------------------------
(* The reader.                                                                *)

AcquireReader(s) ==
    [s EXCEPT !.reader = TRUE, !.closed = InitialClosedPromise(s)]

\* Requests that wait stay with the reader, which no longer has a stream.
ReleaseReader(s) ==
    [IF s.state = "readable" THEN ClosedPromiseReject(s) ELSE ClosedPromiseResetToRejected(s)
        EXCEPT !.reader = FALSE, !.readRequests = <<>>]

CanRead(s) == s.reader /\ \E i \in Reads : s.answers[i] = "none"

NextRead(s) == CHOOSE i \in Reads :
    s.answers[i] = "none" /\ \A j \in 1..(i - 1) : s.answers[j] # "none"

PullSteps(s, i) ==
    IF s.queue # <<>>
    THEN LET dequeued == [s EXCEPT !.queue = Tail(@), !.answers[i] = Head(s.queue).value]
         IN  IF s.closeRequested /\ dequeued.queue = <<>>
             THEN CloseStream(dequeued) ELSE CallPullIfNeeded(dequeued)
    ELSE CallPullIfNeeded([s EXCEPT !.readRequests = Append(@, i),
                                    !.answers[i] = "pending",
                                    !.readInSize = @ \/ s.sizing # None])

Read(s) ==
    LET i == NextRead(s)
    IN  CASE s.state = "closed" -> [s EXCEPT !.answers[i] = "done"]
          [] s.state = "errored" -> [s EXCEPT !.answers[i] = "rejected"]
          [] s.state = "readable" -> PullSteps(s, i)

-----------------------------------------------------------------------------
(* The reactions to the promises of the source.                               *)

Settled(s, call) == [s EXCEPT !.sourceCalls = @ \ {call}]

\* A mutant: what was asked for before start() settled is forgotten.
FinishStartOnly(s) == [Settled(s, "start") EXCEPT !.started = TRUE]

FinishStart(s) ==
    CallPullIfNeeded([Asserted(Settled(s, "start"), "not pulling", ~s.pulling /\ ~s.pullAgain)
                         EXCEPT !.started = TRUE])

FailStart(s) == ControllerError(Settled(s, "start"))

\* A mutant: what was asked for while pull() ran is forgotten.
FinishPullOnce(s) ==
    [Settled(s, "pull") EXCEPT !.pulling = FALSE,
                               !.pullAgain = FALSE,
                               !.idle = @ \/ (s.owing /\ s.state = "readable")]

FinishPull(s) ==
    LET finished == [Settled(s, "pull") EXCEPT
            !.pulling = FALSE,
            !.pullAgain = FALSE,
            !.idle = @ \/ (s.owing /\ s.state = "readable")]
    IN  IF s.pullAgain THEN CallPullIfNeeded(finished) ELSE finished

FailPull(s) == ControllerError(Settled(s, "pull"))

-----------------------------------------------------------------------------
(* The program's calls.  A call that only throws or returns a settled promise *)
(* is left out.                                                               *)

GetReader ==
    /\ ~stream.reader
    /\ stream' = AcquireReader(stream)

\* releaseLock() throws while reads are pending.
ReleaseLock ==
    /\ stream.reader
    /\ stream.readRequests = <<>>
    /\ stream' = ReleaseReader(stream)

ReaderRead ==
    /\ CanRead(stream)
    /\ stream' = Read(stream)

\* reader.cancel(), or cancel() of an unlocked stream.
StreamCancel ==
    /\ stream.state = "readable"
    /\ stream' = Cancel(stream)

SourceCloses ==
    /\ CanCloseOrEnqueue(stream)
    /\ stream' = ControllerClose(stream)

SourceErrors ==
    /\ stream.state = "readable"
    /\ stream' = ControllerError(stream)

\* The chunks come in a fixed order: they are interchangeable.
SourceEnqueues ==
    /\ CanCloseOrEnqueue(stream)
    /\ stream.offered # Chunks
    /\ LET chunk == CHOOSE c \in Chunks : c \notin stream.offered
           offered == [stream EXCEPT !.offered = @ \cup {chunk}]
       IN  \/ /\ stream.readRequests # <<>>
              /\ stream' = EnqueueToRequest(offered, chunk)
           \/ /\ stream.readRequests = <<>> /\ stream.sizing = None
              /\ stream' = [offered EXCEPT !.sizing = chunk]

\* A size that is not a finite and non-negative number fails like an exception.
SizeReturns ==
    /\ stream.sizing # None
    /\ LET returned == [stream EXCEPT !.sizing = None]
       IN  \/ \E size \in Sizes : stream' = EnqueueSized(returned, stream.sizing, size)
           \/ stream' = ControllerError(returned)

Reaction(call) == stream.sizing = None /\ call \in stream.sourceCalls

StartSettles ==
    /\ Reaction("start")
    /\ stream' \in {FinishStart(stream), FailStart(stream)}

PullSettles ==
    /\ Reaction("pull")
    /\ stream' \in {FinishPull(stream), FailPull(stream)}

SourceSettles ==
    \/ StartSettles
    \/ PullSettles

SourceCallsController ==
    \/ SourceCloses
    \/ SourceErrors
    \/ SourceEnqueues
    \/ SizeReturns

ReaderCalls ==
    \/ GetReader
    \/ ReleaseLock
    \/ ReaderRead
    \/ StreamCancel

Next ==
    \/ ReaderCalls
    \/ SourceCallsController
    \/ SourceSettles

(* size() returns and the source's promises settle.  Nothing obliges the      *)
(* program to make a call.                                                    *)
Fairness ==
    /\ WF_stream(SizeReturns)
    /\ WF_stream(SourceSettles)

SafeSpec == Init /\ [][Next]_stream

Spec == SafeSpec /\ Fairness

-----------------------------------------------------------------------------
(* Correctness.                                                               *)

(* The stream as a channel.                                                   *)
ChannelState ==
    CASE stream.state = "readable" -> "open"
      [] stream.state = "closed" -> IF stream.cancelled THEN "cancelled" ELSE "closed"
      [] stream.state = "errored" -> "failed"

ChannelBuffer == IF stream.state = "readable" THEN Values(stream.queue) ELSE <<>>

C == INSTANCE Channel WITH
        lossy <- ~stream.keysMatch,
        state <- ChannelState,
        sending <- stream.sizing # None,
        buffer <- ChannelBuffer,
        waiting <- stream.readRequests,
        answers <- stream.answers

\* The stream implements the channel, whatever the source does and whatever the
\* reader, the source and size() do between the two halves of an enqueue: a read
\* that finds chunks takes the first of them, a chunk that finds reads waiting goes
\* to the first of them, and a stream that closed by itself kept none back.  So reads
\* are answered in order with the chunks in order, but for a read() that begins to
\* wait in size(): the chunk that is being sized is queued behind its back, for the
\* next read() to take, and the read that waits gets a chunk that is enqueued later.
ChannelSpec == C!Spec

\* A read does not wait for ever on a source that does its part: where the keys
\* agree the waiting reads settle, unless the source ended a pull() without having
\* enqueued, closed or failed since it was pulled.  So no request for more is
\* forgotten, whichever of read(), enqueue() and the end of pull() came first.  (Nor
\* does a read made in size() wait for ever behind the chunk, unless the source closes
\* with that chunk in the queue: then it waits until the chunk is read.)  (It is the
\* same as readRequests # <<>> ~> ..., and quicker to check.)
ReadsSettle ==
    []<>(\/ stream.readRequests = <<>>
         \/ stream.idle
         \/ stream.closeRequested /\ stream.queue # <<>>
         \/ ~stream.keysMatch)
=============================================================================
