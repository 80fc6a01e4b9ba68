-------------------------- MODULE TransformStream --------------------------
(***************************************************************************)
(* A TransformStream (whatwg/streams/transform.js): a WritableStream whose *)
(* sink hands each chunk to the transformer and a ReadableStream whose     *)
(* queue the transformer fills, tied by [[backpressure]] and by the        *)
(* promise that is resolved whenever it changes: pull() waits for          *)
(* backpressure, the sink's write() for its end.                           *)
(*                                                                         *)
(* The transformer is the default one, which passes chunks on, or the      *)
(* user's, which calls the controller whenever it likes.  What the two     *)
(* streams call of their source and sink runs in the middle of their       *)
(* operations and is part of the same action.                              *)
(***************************************************************************)
EXTENDS Naturals, Sequences, FiniteSets, SequencesExt

CONSTANTS
    Chunks,             \* what is written
    Outputs,            \* what the user's transformer enqueues, in a fixed order
    Sizes,              \* the finite sizes the readable side's size() returns,
    WritableSizes,      \* and the writable side's
    WritableHighWaterMark,
    ReadableHighWaterMark,
    MaxReads,
    RequestKeysMatch,   \* see ReadableStream and WritableStream
    Transformers,       \* subset of {"default", "user"}: those looked at
    CloseRequest, AbortRequest, None

ASSUME TransformStreamAssumption ==
    /\ Chunks \cap Outputs = {}
    /\ Transformers \subseteq {"default", "user"}
    /\ RequestKeysMatch \subseteq BOOLEAN
    /\ Sizes \cup WritableSizes \subseteq Nat
    /\ {WritableHighWaterMark, ReadableHighWaterMark, MaxReads} \subseteq Nat
    /\ {None, "none", "pending", "done", "rejected"} \cap (Chunks \cup Outputs) = {}
    /\ {CloseRequest, AbortRequest} \cap (Chunks \cup {None}) = {}
    /\ CloseRequest # AbortRequest

VARIABLES readable, writable, transform

vars == <<readable, writable, transform>>

R == INSTANCE ReadableStream WITH
        stream <- readable, Chunks <- Chunks \cup Outputs,
        HighWaterMark <- ReadableHighWaterMark
W == INSTANCE WritableStream WITH
        stream <- writable, Sizes <- WritableSizes, HighWaterMark <- WritableHighWaterMark

\* What the model sees fail, by where it is: the calls of assert() in transform.js,
\* and the calls of a transform or a flush algorithm that has been cleared.
Assertions == {"enqueue", "pull", "transform", "write", "flush", "unblocked"}

TransformSlots == [
    transformer : {"default", "user"},
    algorithms : BOOLEAN,           \* not cleared
    backpressure : BOOLEAN,
    pull : {"none", "pending", "resolved"},     \* the promise of the last pull()
    write : {"none", "waits", "unblocked",      \* for the end of backpressure,
             "transforming",                    \* for the transformer;
             "fulfilled", "rejected"},          \* the sink's promise has settled
    close : {"none", "flushing", "fulfilled", "rejected"},
    abort : {"none", "fulfilled"},
    sizes : [Chunks -> Sizes \cup {None}],  \* what the readable side's size() will
                                    \* make of a chunk that the default one passes on
    sizeFailed : BOOLEAN,           \* history: the writable side's size() errored it
    failed : SUBSET Assertions]     \* history: those that failed

TypeOK == readable \in R!Slots /\ writable \in W!Slots /\ transform \in TransformSlots

\* start() has been called; a reader and a writer are there from the start and
\* are not released (a bound).
Init ==
    /\ \E keysMatch \in RequestKeysMatch :
          /\ readable = R!AcquireReader(R!NewStream(keysMatch))
          /\ writable = W!AcquireWriter(W!NewStream(keysMatch))
    /\ \E transformer \in Transformers, sizes \in [Chunks -> Sizes \cup {None}] :
          /\ transformer = "user" => sizes = [chunk \in Chunks |-> None]
          /\ transform = [
                   transformer |-> transformer, algorithms |-> TRUE,
                   backpressure |-> TRUE, pull |-> "none", write |-> "none",
                   close |-> "none", abort |-> "none", sizes |-> sizes,
                   sizeFailed |-> FALSE, failed |-> {}]

-----------------------------------------------------------------------------
(* The operations work on the three records at once, and on whether an        *)
(* exception is passing through them.                                         *)

Now == [readable |-> readable, writable |-> writable, transform |-> transform,
        threw |-> FALSE]

Become(t) ==
    /\ readable' = [t.readable EXCEPT !.owing = FALSE, !.idle = FALSE]
    /\ writable' = t.writable
    /\ transform' = t.transform

Asserted(t, name, condition) ==
    IF condition THEN t ELSE [t EXCEPT !.transform.failed = @ \cup {name}, !.threw = TRUE]

\* What waits for the change promise goes on.
SetBackpressure(t, backpressure) ==
    [t EXCEPT !.transform.backpressure = backpressure,
              !.transform.write = IF @ = "waits" THEN "unblocked" ELSE @,
              !.transform.pull = IF @ = "pending" THEN "resolved" ELSE @]

\* When the assertion fails kPulling stays set and nothing will reset it.
SourcePull(t) ==
    IF t.transform.backpressure
    THEN [SetBackpressure(t, FALSE) EXCEPT !.transform.pull = "pending"]
    ELSE Asserted(t, "pull", FALSE)

\* The readable side has become r; if it was pulled thereby, pullAlgorithm runs.
WithReadable(t, r) ==
    LET changed == [t EXCEPT !.readable = r]
    IN  IF "pull" \in r.sourceCalls \ t.readable.sourceCalls
        THEN SourcePull(changed) ELSE changed

\* A mutant: a write that waits for the end of backpressure is left waiting.
ErrorWritableOnly(t) ==
    [t EXCEPT !.transform.algorithms = FALSE, !.writable = W!ErrorIfNeeded(@)]

\* (Erroring the writable side calls no sink method: it has no pending abort.)
ErrorWritableAndUnblockWrite(t) ==
    LET errored == [t EXCEPT !.transform.algorithms = FALSE,
                             !.writable = W!ErrorIfNeeded(@)]
    IN  IF t.transform.backpressure THEN SetBackpressure(errored, FALSE) ELSE errored

\* Rejecting the reads that wait throws when their key is missing.
TransformError(t) ==
    LET errored == [t EXCEPT !.readable = R!ControllerError(@)]
    IN  IF t.readable.state = "readable" /\ R!EnqueueThrows(t.readable)
        THEN [errored EXCEPT !.threw = TRUE]
        ELSE ErrorWritableAndUnblockWrite(errored)

-----------------------------------------------------------------------------
(* The controller.                                                            *)

\* A mutant: what is enqueued does not throttle the writable side.
EnqueueUnthrottled(t, chunk, size) ==
    IF size \in Sizes
    THEN WithReadable(t, R!Enqueue([t.readable EXCEPT !.offered = @ \cup {chunk}], chunk, size))
    ELSE TransformError(t)

\* What else can throw in here throws like size(): it ends the writable side.
Enqueue(t, chunk, size) ==
    LET offered == [t.readable EXCEPT !.offered = @ \cup {chunk}]
        sized == size \in Sizes
        enqueued == IF sized THEN WithReadable(t, R!Enqueue(offered, chunk, size))
                    ELSE [t EXCEPT !.readable = R!ControllerError(offered)]
        threw == ~sized \/ R!EnqueueThrows(t.readable) \/ enqueued.threw
        backpressure == R!HasBackpressure(enqueued.readable)
    IN  CASE threw ->
                [ErrorWritableAndUnblockWrite(enqueued) EXCEPT !.threw = TRUE]
          [] ~threw /\ backpressure = enqueued.transform.backpressure -> enqueued
          [] OTHER -> LET asserted == Asserted(enqueued, "enqueue", backpressure)
                      IN  IF asserted.threw THEN asserted ELSE SetBackpressure(asserted, TRUE)

Terminate(t) ==
    ErrorWritableAndUnblockWrite(
        [t EXCEPT !.readable = IF R!CanCloseOrEnqueue(@) THEN R!ControllerClose(@) ELSE @])

\* The transform algorithm.
Transform(t, chunk) ==
    LET asserted == Asserted(t, "transform", t.transform.algorithms)
        enqueued == Enqueue(t, chunk, t.transform.sizes[chunk])
    IN  CASE asserted.threw -> [asserted EXCEPT !.transform.write = "rejected"]
          [] ~asserted.threw /\ t.transform.transformer = "user" ->
                [t EXCEPT !.transform.write = "transforming"]
          [] OTHER ->
                IF ~R!CanCloseOrEnqueue(t.readable) THEN [t EXCEPT !.transform.write = "rejected"]
                ELSE [enqueued EXCEPT !.transform.write =
                         IF enqueued.threw THEN "rejected" ELSE "fulfilled"]

-----------------------------------------------------------------------------
(* The sink.                                                                  *)

\* A mutant: write() hands the chunk to the transformer at once.
SinkWriteAtOnce(t) == Transform(t, t.writable.inFlightWriteRequest)

\* A mutant: a return is missing, so the chunk is transformed now and later.
SinkWriteTwice(t) ==
    IF t.transform.backpressure
    THEN [Transform(t, t.writable.inFlightWriteRequest) EXCEPT !.transform.write = "waits"]
    ELSE Transform(t, t.writable.inFlightWriteRequest)

SinkWrite(t) ==
    LET asserted == Asserted(t, "write", t.writable.state = "writable")
    IN  CASE asserted.threw -> [asserted EXCEPT !.transform.write = "rejected"]
          [] ~asserted.threw /\ t.transform.backpressure ->
                [t EXCEPT !.transform.write = "waits"]
          [] OTHER -> Transform(t, t.writable.inFlightWriteRequest)

SinkClose(t) ==
    LET asserted == Asserted(t, "flush", t.transform.algorithms)
    IN  [asserted EXCEPT !.transform.close = IF asserted.threw THEN "rejected" ELSE "flushing",
                         !.transform.algorithms = FALSE]

SinkAbort(t) ==
    LET errored == TransformError(t)
    IN  IF errored.threw THEN errored ELSE [errored EXCEPT !.transform.abort = "fulfilled"]

\* The writable side has become w; if a method of the sink was called thereby, it
\* runs.
WithWritable(t, w) ==
    LET called == w.sinkCalls \ t.writable.sinkCalls
        changed == [t EXCEPT !.writable = w]
    IN  CASE called = {"write"} -> SinkWrite(changed)
          [] called = {"close"} -> SinkClose(changed)
          [] called = {"abort"} -> SinkAbort(changed)
          [] OTHER -> changed

-----------------------------------------------------------------------------
(* The program: the writer, the reader and the transformer.                   *)

\* The writable side has become w in write(); only size() errors it there.
Written(w) ==
    LET failed == writable.state = "writable" /\ w.state # "writable"
    IN  WithWritable([Now EXCEPT !.transform.sizeFailed = @ \/ failed], w)

\* The chunks are written in a fixed order; size() may throw, or return no size.
Write ==
    /\ \E chunk \in Chunks : writable.promise[chunk] = "none"
    /\ LET chunk == CHOOSE c \in Chunks : writable.promise[c] = "none"
           sizing == W!Sizing(writable, chunk)
       IN  \/ \E size \in WritableSizes \cup {None} : Become(Written(W!WriteSized(sizing, size)))
           \/ Become(Written(W!SizeThrew(sizing)))

Close ==
    /\ ~W!CloseQueuedOrInFlight(writable)
    /\ writable.state \in {"writable", "erroring"}
    /\ Become(WithWritable(Now, W!CloseStream(writable)))

Abort ==
    /\ W!AbortStream(writable) # writable
    /\ Become(WithWritable(Now, W!AbortStream(writable)))

Read ==
    /\ R!CanRead(readable)
    /\ Become(WithReadable(Now, R!Read(readable)))

Cancel ==
    /\ readable.state = "readable"
    /\ Become(ErrorWritableAndUnblockWrite([Now EXCEPT !.readable = R!Cancel(@)]))

TransformerEnqueues ==
    /\ transform.transformer = "user"
    /\ R!CanCloseOrEnqueue(readable)
    /\ \E chunk \in Outputs \ readable.offered, size \in Sizes \cup {None} :
          /\ chunk = CHOOSE c \in Outputs : c \notin readable.offered
          /\ Become(Enqueue(Now, chunk, size))

TransformerErrors ==
    /\ transform.transformer = "user"
    /\ readable.state = "readable" \/ writable.state = "writable"
    /\ Become(TransformError(Now))

TransformerTerminates ==
    /\ transform.transformer = "user"
    /\ R!CanCloseOrEnqueue(readable) \/ writable.state = "writable"
    /\ Become(Terminate(Now))

-----------------------------------------------------------------------------
(* Promises settle.                                                           *)

\* Both sides wait for the one promise that start() resolves.
StartSettles ==
    /\ "start" \in readable.sourceCalls
    /\ LET fulfilled == WithWritable(Now, W!FinishStart(writable))
           rejected == WithWritable(Now, W!FailStart(writable))
       IN  \/ Become(WithReadable(fulfilled, R!FinishStart(fulfilled.readable)))
           \/ Become([rejected EXCEPT !.readable = R!FailStart(@)])

PullSettles ==
    /\ transform.pull = "resolved"
    /\ LET settled == [Now EXCEPT !.transform.pull = "none",
                                  !.readable = R!Settled(@, "pull")]
       IN  Become(WithReadable(settled, R!FinishPull(readable)))

\* Backpressure has ended; the writable side may have begun to error meanwhile.
WriteUnblocked ==
    /\ transform.write = "unblocked"
    /\ LET asserted == Asserted(Now, "unblocked", writable.state \in {"erroring", "writable"})
       IN  Become(IF writable.state = "writable"
                  THEN Transform(Now, writable.inFlightWriteRequest)
                  ELSE [asserted EXCEPT !.transform.write = "rejected"])

TransformSettles ==
    /\ transform.write = "transforming"
    /\ \/ Become([Now EXCEPT !.transform.write = "fulfilled"])
       \/ Become([TransformError(Now) EXCEPT !.transform.write = "rejected"])

\* (The exception and the reaction that passes it on are one step.)
FlushSettles ==
    /\ transform.close = "flushing"
    /\ LET closed == [Now EXCEPT !.readable = IF R!CanCloseOrEnqueue(@)
                                              THEN R!ControllerClose(@) ELSE @]
       IN  \/ /\ readable.state # "errored"
              /\ Become([closed EXCEPT !.transform.close = "fulfilled"])
           \/ Become([TransformError(Now) EXCEPT !.transform.close = "rejected"])

SinkSettles ==
    \/ /\ transform.write \in {"fulfilled", "rejected"}
       /\ LET settled == [Now EXCEPT !.transform.write = "none",
                                     !.writable = W!Settled(@, "write")]
          IN  Become(WithWritable(settled,
                  IF transform.write = "fulfilled" THEN W!FinishInFlightWrite(writable)
                  ELSE W!FinishInFlightWriteWithError(writable)))
    \/ /\ transform.close \in {"fulfilled", "rejected"}
       /\ LET settled == [Now EXCEPT !.transform.close = "none",
                                     !.writable = W!Settled(@, "close")]
          IN  Become(WithWritable(settled,
                  IF transform.close = "fulfilled" THEN W!FinishInFlightClose(writable)
                  ELSE W!FinishInFlightCloseWithError(writable)))
    \/ /\ transform.abort = "fulfilled"
       /\ Become([Now EXCEPT !.transform.abort = "none",
                             !.writable = W!FinishAbort(@, "fulfilled")])

Reactions ==
    \/ StartSettles
    \/ PullSettles
    \/ WriteUnblocked
    \/ TransformSettles
    \/ FlushSettles
    \/ SinkSettles

Program ==
    \/ Write
    \/ Close
    \/ Abort
    \/ Read
    \/ Cancel
    \/ TransformerEnqueues
    \/ TransformerErrors
    \/ TransformerTerminates

Next == Program \/ Reactions

\* Where a reaction is possible: ENABLED Reactions.
ReactionsLeft ==
    \/ "start" \in readable.sourceCalls
    \/ transform.pull = "resolved"
    \/ transform.write \notin {"none", "waits"}
    \/ transform.close # "none"
    \/ transform.abort # "none"

(* start(), transform() and flush() settle, and reactions run:                *)
(* WF_vars(Reactions), written out as in Tee.  Nothing obliges the program to *)
(* make a call.                                                               *)
Fairness == []<>~ReactionsLeft \/ []<><<Reactions>>_vars

Spec == Init /\ [][Next]_vars /\ Fairness

-----------------------------------------------------------------------------
(* Correctness.                                                               *)

\* The chunks that the sink has passed on.
Passed ==
    LET got == R!Chosen(writable.sinkLog, Chunks)
    IN  IF transform.write \in {"waits", "unblocked"} THEN Front(got) ELSE got

\* The default transformer passes on every chunk, in order and once: what was
\* read and what the readable side holds is what the sink was given, except for
\* the chunk that waits for the end of backpressure.
PassesOn ==
    /\ transform.transformer = "default" /\ readable.keysMatch
    /\ writable.state \in {"writable", "closed"}
    /\ readable.state = "readable" \/ (readable.state = "closed" /\ ~readable.cancelled)
    => R!Chosen(readable.answers, Chunks \cup Outputs) \o R!Values(readable.queue) = Passed

\* The transform stream's idea of backpressure is the readable side's, except
\* between the end of a pull() and the reaction to it, until the readable side
\* closes or fails; so neither side waits for the other by mistake.
BackpressureAgrees ==
    /\ readable.keysMatch /\ readable.started
    /\ R!CanCloseOrEnqueue(readable) /\ transform.pull # "resolved"
    => transform.backpressure = R!HasBackpressure(readable)

\* The two sides end together.  Where the keys agree: if the readable side failed
\* or was canceled the writable one takes no more chunks; once the writable side
\* is closed or errored nothing more is put into the readable one, unless it was
\* its own size() that errored it, by an exception or by what is no size: that calls
\* no method of the sink, and the readable side is not told.  (And not from the
\* call of abort() on: it waits for the write that waits for the end of
\* backpressure, which may be a read that is never made.)
EndsTogether ==
    readable.keysMatch =>
    /\ readable.state = "errored" \/ readable.cancelled =>
          writable.state # "writable" \/ writable.inFlightCloseRequest
    /\ writable.state \in {"errored", "closed"} =>
          ~R!CanCloseOrEnqueue(readable) \/ transform.sizeFailed

\* The assertions of transform.js and of the two streams it uses hold, and no
\* algorithm is called that has been cleared: all of this with the default
\* transformer, where the keys agree; with the user's the one in enqueue() (331) and
\* the one in pull() (411), which the comment at line 410 calls an invariant enforced
\* by the promises returned by start() and pull(), may fail.
TransformAssertionsHold ==
    /\ transform.failed \subseteq
          IF transform.transformer = "default" /\ readable.keysMatch THEN {}
          ELSE {"enqueue", "pull"}
    /\ readable.failed = {}
    /\ W!AssertionsHold

\* A write does not wait for ever, where the keys agree, except while the readable
\* side is open and nobody reads from it: a read ends its waiting, and so does the
\* end of the readable side, however it comes.
WritesSettle ==
    \A chunk \in Chunks :
        writable.promise[chunk] = "pending"
            ~> \/ writable.promise[chunk] # "pending"
               \/ R!CanCloseOrEnqueue(readable) /\ readable.readRequests = <<>>
               \/ ~readable.keysMatch
=============================================================================
