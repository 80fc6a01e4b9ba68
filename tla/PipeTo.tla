------------------------------- MODULE PipeTo -------------------------------
(***************************************************************************)
(* readable.pipeTo(writable), from whatwg/streams/readable.js: composes    *)
(* ReadableStream (`source') and WritableStream (`dest').                  *)
(*                                                                         *)
(* What pipeTo() leaves to promises runs as jobs, in the order in which    *)
(* the promises settle; that order decides what a pipe that shuts down     *)
(* still writes, so the jobs of the pipe are kept in a queue.  The         *)
(* promises of the source and of the sink are the user's: their reactions  *)
(* come at any place between these jobs.                                   *)
(*                                                                         *)
(* rethrowAssertionErrorRejection, which ends the chains, is not defined:  *)
(* .catch(undefined) lets rejections through, which changes no state, and  *)
(* the one call of it throws where nothing follows.                        *)
(***************************************************************************)
EXTENDS Naturals, Sequences, FiniteSets, SequencesExt

CONSTANTS
    Chunks,
    Sizes,                  \* the sizes the writable's size() returns
    SourceHighWaterMark,
    SinkHighWaterMark,
    RequestKeysMatch,       \* see ReadableStream and WritableStream
    Options,                \* the options pipeTo() is called with
    CloseRequest, AbortRequest, None

OptionSets == [preventClose : BOOLEAN, preventAbort : BOOLEAN, preventCancel : BOOLEAN]

ASSUME PipeToAssumption == Options \subseteq OptionSets

VARIABLES source, dest, pipe

vars == <<source, dest, pipe>>

MaxReads == Cardinality(Chunks) + 1

R == INSTANCE ReadableStream WITH stream <- source, HighWaterMark <- SourceHighWaterMark
W == INSTANCE WritableStream WITH stream <- dest, HighWaterMark <- SinkHighWaterMark

(* A job is a tuple: its name and what it was given.                          *)
Jobs == {<<name>> : name \in {
            "ready", "given", "adopt", "adopted", "loop", "stopped",    \* pipeLoop
            "sourceErrored", "destErrored", "sourceClosed",
            "compare", "rest"}}
        \cup {<<"written", c>> : c \in Chunks}
        \cup {<<"finalize", o>> : o \in {"fulfilled", "rejected"}}

PipeSlots == [
    outcome : {"none", "pending", "fulfilled", "rejected"},     \* of pipeTo()
    options : OptionSets \cup {None},
    shuttingDown : BOOLEAN,
    action : {"none", "abort", "cancel", "close"},  \* of the shutdown,
    isError : BOOLEAN,                              \* and what it ends with
    awaits : {"none", "abort", "cancel", "close"},  \* the action's promise
    loopWaits : BOOLEAN,            \* for the writer's ready promise
    read : R!Reads \cup {0},        \* the read whose result the loop is owed
    adopts : BOOLEAN,               \* the loop's promise follows that of the read
    currentWrite : Chunks \cup {None},              \* None: a resolved promise
    settledWrites : SUBSET Chunks,
    compares : Chunks \cup {None, "no"},    \* oldCurrentWrite, while it is awaited
    jobs : Seq(Jobs)]

TypeOK == source \in R!Slots /\ dest \in W!Slots /\ pipe \in PipeSlots

Init ==
    /\ \E keysMatch \in RequestKeysMatch :
          /\ source = R!NewStream(keysMatch)
          /\ dest = W!NewStream(keysMatch)
    /\ pipe = [outcome |-> "none", options |-> None, shuttingDown |-> FALSE,
               action |-> "none", isError |-> FALSE, awaits |-> "none",
               loopWaits |-> FALSE, read |-> 0, adopts |-> FALSE,
               currentWrite |-> None, settledWrites |-> {}, compares |-> "no",
               jobs |-> <<>>]

-----------------------------------------------------------------------------
(* The operations work on the three variables at once.                        *)

Now == [source |-> source, dest |-> dest, pipe |-> pipe]

Become(t) == source' = t.source /\ dest' = t.dest /\ pipe' = t.pipe

If(condition, seq) == IF condition THEN seq ELSE <<>>

Post(t, jobs) == [t EXCEPT !.pipe.jobs = @ \o jobs]

\* The source has become s: the reactions of the pipe that this makes due.  (The
\* histories `owing' and `idle' are not kept.)
WithSource(t, s) ==
    LET p == t.pipe
        answered == /\ p.read # 0
                    /\ t.source.answers[p.read] = "pending"
                    /\ s.answers[p.read] # "pending"
        closed == ~p.shuttingDown /\ t.source.closed = "pending" /\ p.outcome = "pending"
    IN  Post([t EXCEPT !.source = [s EXCEPT !.owing = FALSE, !.idle = FALSE]],
             If(answered, <<<<"given">>>>)
             \o If(closed /\ s.closed = "rejected", <<<<"sourceErrored">>>>)
             \o If(closed /\ s.closed = "fulfilled", <<<<"sourceClosed">>>>))

Done == {"fulfilled", "rejected"}

\* The sink has become d.  The promise of the write in flight settles before
\* the ready promise, and the other writes' after it.
WithDest(t, d) ==
    LET p == t.pipe
        settles(c) == d.promise[c] \in Done /\ t.dest.promise[c] \notin Done
        first == t.dest.inFlightWriteRequest
        others == SetToSeq({c \in Chunks \ {first} : settles(c)})
        request == CASE p.awaits = "abort" -> AbortRequest
                     [] p.awaits = "close" -> CloseRequest
                     [] OTHER -> None
    IN  Post([t EXCEPT !.dest = d,
                       !.pipe.loopWaits = @ /\ d.ready = "pending"],
             If(first # None /\ settles(first), <<<<"written", first>>>>)
             \o If(p.loopWaits /\ d.ready = "fulfilled", <<<<"ready">>>>)
             \o If(p.loopWaits /\ d.ready = "rejected", <<<<"stopped">>>>)
             \o [i \in DOMAIN others |-> <<"written", others[i]>>]
             \o If(request # None /\ settles(request), <<<<"finalize", d.promise[request]>>>>)
             \o If(~p.shuttingDown /\ p.outcome = "pending" /\ t.dest.closed = "pending"
                      /\ d.closed = "rejected", <<<<"destErrored">>>>))

-----------------------------------------------------------------------------
(* Shutdown.                                                                  *)

\* Releasing the reader fails where its closed promise was not settled with the
\* stream, which happens where the keys differ; the pipe's promise then stays.
Finalize(t, isError) ==
    LET released == WithDest(t, W!ReleaseWriter(t.dest))
        s == R!ReleaseReader(t.source)
    IN  IF s.failed # t.source.failed
        THEN [released EXCEPT !.source.failed = s.failed]
        ELSE [WithSource(released, s) EXCEPT
                 !.pipe.outcome = IF isError THEN "rejected" ELSE "fulfilled"]

\* The action's promise is settled, or pending.
Finalizes(t, outcome) == Post(t, <<<<"finalize", outcome>>>>)
Awaits(t) == [t EXCEPT !.pipe.awaits = t.pipe.action]

\* A mutant: a writable that has ended is waited for.
AbortAlways(t) == WithDest(Awaits(t), W!AbortStream(t.dest))

\* A second abort() shares the promise of the first.
AbortDest(t) ==
    CASE t.dest.state = "closed" -> Finalizes(t, "fulfilled")
      [] t.dest.state = "errored" -> Finalizes(t, "rejected")
      [] OTHER -> WithDest(Awaits(t), W!AbortStream(t.dest))

CancelSource(t) ==
    CASE t.source.state = "closed" -> Finalizes(t, "fulfilled")
      [] t.source.state = "errored" -> Finalizes(t, "rejected")
      [] OTHER -> WithSource(Awaits(t), R!Cancel(t.source))

CloseWithErrorPropagation(t) ==
    CASE W!CloseQueuedOrInFlight(t.dest) \/ t.dest.state = "closed" -> Finalizes(t, "fulfilled")
      [] ~W!CloseQueuedOrInFlight(t.dest) /\ t.dest.state = "errored" -> Finalizes(t, "rejected")
      [] OTHER -> WithDest(Awaits(t), W!CloseStream(t.dest))

DoTheRest(t) ==
    CASE t.pipe.action = "none" -> Finalize(t, t.pipe.isError)
      [] t.pipe.action = "abort" -> AbortDest(t)
      [] t.pipe.action = "cancel" -> CancelSource(t)
      [] t.pipe.action = "close" -> CloseWithErrorPropagation(t)

WaitForWritesToFinish(t) ==
    LET write == t.pipe.currentWrite
    IN  Post([t EXCEPT !.pipe.compares = write],
             If(write \in t.pipe.settledWrites \cup {None}, <<<<"compare">>>>))

\* A mutant: the writes are not waited for.
ShutdownAtOnce(t, action, isError) ==
    IF t.pipe.shuttingDown THEN t
    ELSE DoTheRest([t EXCEPT !.pipe.shuttingDown = TRUE,
                             !.pipe.action = action,
                             !.pipe.isError = isError])

\* shutdown() and shutdownWithAction()
Shutdown(t, action, isError) ==
    LET begun == [t EXCEPT !.pipe.shuttingDown = TRUE,
                           !.pipe.action = action,
                           !.pipe.isError = isError]
    IN  CASE t.pipe.shuttingDown -> t
          [] ~t.pipe.shuttingDown /\ t.dest.state = "writable"
                 /\ ~W!CloseQueuedOrInFlight(t.dest) -> WaitForWritesToFinish(begun)
          [] OTHER -> DoTheRest(begun)

Unless(prevented, action) == IF prevented THEN "none" ELSE action

SourceErrored(t) == Shutdown(t, Unless(t.pipe.options.preventAbort, "abort"), TRUE)
DestErrored(t)   == Shutdown(t, Unless(t.pipe.options.preventCancel, "cancel"), TRUE)
SourceClosed(t)  == Shutdown(t, Unless(t.pipe.options.preventClose, "close"), FALSE)
DestClosing(t)   == Shutdown(t, Unless(t.pipe.options.preventCancel, "cancel"), TRUE)

-----------------------------------------------------------------------------
(* The loop.                                                                  *)

PipeLoop(t) ==
    IF t.pipe.shuttingDown THEN t
    ELSE Post([t EXCEPT !.pipe.loopWaits = t.dest.ready = "pending"],
              If(t.dest.ready = "fulfilled", <<<<"ready">>>>)
              \o If(t.dest.ready = "rejected", <<<<"stopped">>>>))

\* A read is made even if the pipe is shutting down.  The stream may close while
\* its last chunk is read, so the reaction to that comes before the chunk's.
Ready(t) ==
    LET i == R!NextRead(t.source)
        s == R!Read(t.source)
        read == WithSource([t EXCEPT !.pipe.read = 0], s)
    IN  IF ~t.source.reader THEN Post(t, <<<<"stopped">>>>)
        ELSE Post([read EXCEPT !.pipe.read = i, !.pipe.adopts = FALSE],
                  If(s.answers[i] # "pending", <<<<"given">>>>) \o <<<<"adopt">>>>)

\* The promise of the loop's turn is that of the read, one job later.
Adopt(t) ==
    IF t.pipe.read = 0 THEN Post(t, <<<<"adopted">>>>)
    ELSE [t EXCEPT !.pipe.adopts = TRUE]

Turned(t) ==
    Post([t EXCEPT !.pipe.read = 0],
         If(t.pipe.adopts, <<<<"adopted">>>>))

\* A mutant: a chunk that arrives when the pipe is shutting down is not written.
GivenUnlessShuttingDown(t, size) ==
    LET answer == t.source.answers[t.pipe.read]
        d == W!WriteSized(W!Sizing(t.dest, answer), size)
        nothing == answer = "done" \/ t.pipe.shuttingDown
    IN  CASE nothing -> Turned(t)
          [] ~nothing /\ answer = "rejected" -> Post([t EXCEPT !.pipe.read = 0], <<<<"stopped">>>>)
          [] OTHER -> Turned(WithDest([t EXCEPT !.pipe.currentWrite = answer], d))

\* The results of the writes are not looked at.
Given(t, size) ==
    LET answer == t.source.answers[t.pipe.read]
        d == W!WriteSized(W!Sizing(t.dest, answer), size)
    IN  CASE answer = "done" -> Turned(t)
          [] answer # "done" /\ (answer = "rejected" \/ ~t.dest.writer) ->
                Post([t EXCEPT !.pipe.read = 0], <<<<"stopped">>>>)
          [] OTHER -> Turned(WithDest([t EXCEPT !.pipe.currentWrite = answer], d))

-----------------------------------------------------------------------------
(* The jobs.                                                                  *)

Written(t, chunk) ==
    Post([t EXCEPT !.pipe.settledWrites = @ \cup {chunk}],
         If(t.pipe.compares = chunk, <<<<"compare">>>>))

\* (The jobs that it takes the outer promise to follow an inner one when another
\* write has to be waited for are left out.)
Compare(t) ==
    IF t.pipe.compares = t.pipe.currentWrite
    THEN Post([t EXCEPT !.pipe.compares = "no"], <<<<"rest">>>>)
    ELSE WaitForWritesToFinish(t)

Do(job, t) ==
    CASE job[1] = "ready" -> {Ready(t)}
      [] job[1] = "given" -> {Given(t, size) : size \in Sizes}
      [] job[1] = "adopt" -> {Adopt(t)}
      [] job[1] = "adopted" -> {Post(t, <<<<"loop">>>>)}
      [] job[1] = "loop" -> {PipeLoop(t)}
      [] job[1] = "stopped" -> {[t EXCEPT !.pipe.currentWrite = None]}
      [] job[1] = "sourceErrored" -> {SourceErrored(t)}
      [] job[1] = "destErrored" -> {DestErrored(t)}
      [] job[1] = "sourceClosed" -> {SourceClosed(t)}
      [] job[1] = "written" -> {Written(t, job[2])}
      [] job[1] = "compare" -> {Compare(t)}
      [] job[1] = "rest" -> {DoTheRest(t)}
      [] job[1] = "finalize" -> {Finalize(t, t.pipe.isError \/ job[2] = "rejected")}

RunJob ==
    /\ pipe.jobs # <<>>
    /\ \E t \in Do(Head(pipe.jobs), [Now EXCEPT !.pipe.jobs = Tail(@)]) : Become(t)

-----------------------------------------------------------------------------
(* The program.                                                               *)

\* Both streams are locked, what already holds is acted on at once, and the
\* rest is left to the closed promises.
PipeTo(options) ==
    /\ pipe.outcome = "none"
    /\ LET t == [Now EXCEPT !.source = R!AcquireReader(@),
                            !.dest = W!AcquireWriter(@),
                            !.pipe.outcome = "pending",
                            !.pipe.options = options]
           holds == CASE t.source.state = "errored" -> SourceErrored(t)
                      [] t.source.state # "errored" /\ t.dest.state = "errored" ->
                            DestErrored(t)
                      [] t.source.state = "closed" /\ t.dest.state # "errored" ->
                            SourceClosed(t)
                      [] OTHER ->
                            IF W!CloseQueuedOrInFlight(t.dest) \/ t.dest.state = "closed"
                            THEN DestClosing(t) ELSE t
       IN  Become(PipeLoop(holds))

\* What the program did with the sink before: abort() it, or close() it with a
\* writer released since.
UseDest ==
    /\ pipe.outcome = "none"
    /\ \/ W!Abort
       \/ /\ ~W!CloseQueuedOrInFlight(dest)
          /\ dest.state \in {"writable", "erroring"}
          /\ dest' = W!ReleaseWriter(W!CloseStream(W!AcquireWriter(dest)))
    /\ UNCHANGED <<source, pipe>>

(* What happens when the pipe has ended is left out (a bound).                *)
Going == pipe.outcome \notin Done

\* The chunks come in a fixed order, and size() gives 1.
SourceEnqueues ==
    /\ Going
    /\ R!CanCloseOrEnqueue(source) /\ source.offered # Chunks
    /\ LET chunk == CHOOSE c \in Chunks : c \notin source.offered
       IN  Become(WithSource(Now,
               R!Enqueue([source EXCEPT !.offered = @ \cup {chunk}], chunk, 1)))

SourceCloses ==
    /\ Going
    /\ R!CanCloseOrEnqueue(source)
    /\ Become(WithSource(Now, R!ControllerClose(source)))

SourceErrors ==
    /\ Going
    /\ source.state = "readable"
    /\ Become(WithSource(Now, R!ControllerError(source)))

SinkErrors ==
    /\ Going
    /\ dest.state = "writable"
    /\ Become(WithDest(Now, W!StartErroring(dest)))

-----------------------------------------------------------------------------
(* The promises of the source and of the sink settle.                         *)

SourceSettles ==
    \/ /\ "start" \in source.sourceCalls
       /\ \E s \in {R!FinishStart(source), R!FailStart(source)} : Become(WithSource(Now, s))
    \/ /\ "pull" \in source.sourceCalls
       /\ \E s \in {R!FinishPull(source), R!FailPull(source)} : Become(WithSource(Now, s))

SinkSettles ==
    /\ W!SinkSettles
    /\ LET t == WithDest(Now, dest')
       IN  source' = t.source /\ pipe' = t.pipe

\* The source's cancel(), which the pipe called.
CancelSettles ==
    /\ pipe.awaits = "cancel"
    /\ \E outcome \in Done :
          Become(Finalizes([Now EXCEPT !.pipe.awaits = "none"], outcome))

Reactions == RunJob \/ SourceSettles \/ SinkSettles \/ CancelSettles

Next ==
    \/ \E options \in Options : PipeTo(options)
    \/ UseDest
    \/ SourceEnqueues
    \/ SourceCloses
    \/ SourceErrors
    \/ SinkErrors
    \/ Reactions

\* Where a reaction is possible: ENABLED Reactions.
ReactionsLeft ==
    \/ pipe.jobs # <<>>
    \/ source.sourceCalls # {}
    \/ dest.sinkCalls # {}
    \/ pipe.awaits = "cancel"

(* The jobs run, and the promises of the source and of the sink settle:       *)
(* WF_vars(Reactions), written out as in Tee.  The program need not make a    *)
(* call, nor the source enqueue anything.                                     *)
Fairness == []<>~ReactionsLeft \/ []<><<Reactions>>_vars

Spec == Init /\ [][Next]_vars /\ Fairness

-----------------------------------------------------------------------------
(* Correctness.                                                               *)

IsChunk(answer) == answer \in Chunks

\* The chunks that the loop has got and passed on.
Passed == SelectSeq([i \in R!Reads |-> IF i = pipe.read THEN "none" ELSE source.answers[i]],
                    IsChunk)

\* The chunks that the sink got or will get.
SinkGets == SelectSeq(dest.sinkLog, IsChunk) \o dest.writeRequests

\* The sink gets the chunks in the order the source enqueued them, and while the
\* writable is "writable" it gets all that were read: shutting down, for whatever
\* reason and with a read or a write under way, never drops one between the two
\* streams.  Where the keys agree a pipe that fulfils its promise read all that the
\* source ever enqueued, had it written and closed the sink after it; with
\* preventClose, unless a write failed while the pipe was ending, when the failure
\* is not reported.
NothingLost ==
    /\ IsPrefix(SinkGets, Passed)
    /\ dest.state = "writable" => SinkGets = Passed
    /\ pipe.outcome = "fulfilled" /\ source.keysMatch =>
        /\ source.state = "closed"
        /\ source.offered \subseteq Range(source.answers)
        /\ dest.state = "writable" \/ ~pipe.options.preventClose =>
              \A chunk \in source.offered : dest.promise[chunk] = "fulfilled"
        /\ ~pipe.options.preventClose /\ source.offered # {} => dest.state = "closed"

\* When a pipe has ended both locks are released, no write that the sink has not
\* answered is left behind in a writable that can still be used, and the end of
\* one stream was passed on to the other unless the options forbid it.
EndsInOrder ==
    pipe.outcome \in Done =>
        /\ ~source.reader /\ ~dest.writer
        /\ dest.state = "writable" =>
              \A chunk \in Chunks : dest.promise[chunk] # "pending"
        /\ source.state = "readable" => pipe.options.preventCancel
        /\ dest.state = "writable" /\ ~W!CloseQueuedOrInFlight(dest) =>
              \/ source.state = "closed" /\ pipe.options.preventClose
              \/ source.state = "errored" /\ pipe.options.preventAbort

\* Where the keys agree a pipe one of whose streams is ending settles: a pending
\* read, backpressure, a write in flight or an abort() that came before never
\* leave it waiting, nor the last chunks of a source that was told to close.
PipeSettles ==
    /\ pipe.outcome = "pending" /\ source.keysMatch
    /\ source.closeRequested \/ source.state # "readable" \/ dest.state # "writable"
    ~> pipe.outcome \in Done
=============================================================================
