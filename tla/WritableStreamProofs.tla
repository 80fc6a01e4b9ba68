------------------------ MODULE WritableStreamProofs ------------------------
(***************************************************************************)
(* That the queue of a WritableStream and its requests stay in step, that  *)
(* the sink is called by the protocol, that no promise is forgotten, that  *)
(* the ready promise tells the backpressure and that the assertions hold,  *)
(* for any chunks, sizes and high water mark, with either keys.            *)
(***************************************************************************)
EXTENDS WritableStream, FiniteSetTheorems, TLAPS

-----------------------------------------------------------------------------
(* The invariant.                                                             *)

InFlight(s) == s.inFlightWriteRequest # None \/ s.inFlightCloseRequest

\* Before start() settles the sink is not called; a call that runs is marked in
\* flight, on a stream that has not ended, and abort() comes when it has.  The
\* chunk of a write in flight is still in the queue.
CallsMarked(s) ==
    /\ ~s.started => /\ s.sinkCalls = {"start"} /\ s.sinkLog = <<>>
                     /\ s.state \in {"writable", "erroring"} /\ ~InFlight(s)
    /\ s.started => "start" \notin s.sinkCalls
    /\ "write" \in s.sinkCalls => s.inFlightWriteRequest # None
    /\ "close" \in s.sinkCalls => s.inFlightCloseRequest
    /\ "abort" \in s.sinkCalls => s.state = "errored"
    /\ InFlight(s) => s.state \in {"writable", "erroring"}
    /\ s.inFlightWriteRequest # None => s.queue # <<>>
    /\ s.inFlightCloseRequest => /\ s.inFlightWriteRequest = None /\ ~s.closeRequest
                                 /\ s.writeRequests = <<>>

\* The log has nothing twice, and nothing after close() or abort().
LogInOrder(s) ==
    /\ \A i \in DOMAIN s.sinkLog :
          s.sinkLog[i] \in {CloseRequest, AbortRequest} => i = Len(s.sinkLog)
    /\ \A i, j \in DOMAIN s.sinkLog : s.sinkLog[i] = s.sinkLog[j] => i = j

\* A chunk is written once: asked for its size, then waiting, then in the log.
ChunksOnce(s) ==
    /\ \A i \in DOMAIN s.sinkLog :
          s.sinkLog[i] \in Chunks => /\ s.promise[s.sinkLog[i]] # "none"
                                     /\ s.sinkLog[i] # s.sizing
    /\ \A k \in DOMAIN s.writeRequests :
          /\ s.promise[s.writeRequests[k]] # "none" /\ s.writeRequests[k] # s.sizing
          /\ \A i \in DOMAIN s.sinkLog : s.sinkLog[i] # s.writeRequests[k]
    /\ \A k, l \in DOMAIN s.writeRequests : s.writeRequests[k] = s.writeRequests[l] => k = l

Logged(s, request) == \E i \in DOMAIN s.sinkLog : s.sinkLog[i] = request

\* What waits is all that was accepted after the first n.
WaitsAfter(n, accepted, waiting) ==
    /\ Len(accepted) = n + Len(waiting)
    /\ \A k \in DOMAIN waiting : accepted[n + k] = waiting[k]

\* The chunks in the log are the first of those accepted, in their order; while more
\* can be, the writes that wait are the rest of them.
InLine(s) ==
    /\ \A i \in DOMAIN s.sinkLog : s.sinkLog[i] \in Chunks =>
          i \in DOMAIN s.accepted /\ s.sinkLog[i] = s.accepted[i]
    /\ s.state = "writable" /\ ~Logged(s, CloseRequest) =>
          WaitsAfter(Len(s.sinkLog), s.accepted, s.writeRequests)

\* A pending promise is held by what will settle it, where the keys agree.
PromisesHeld(s) ==
    s.keysMatch =>
    /\ \A chunk \in Chunks : s.promise[chunk] = "pending" =>
          Contains(s.writeRequests, chunk) \/ s.inFlightWriteRequest = chunk
    /\ s.promise[CloseRequest] = "pending" => s.closeRequest \/ s.inFlightCloseRequest
    /\ s.promise[AbortRequest] = "pending" =>
          s.pendingAbortRequest # "none" \/ "abort" \in s.sinkCalls

\* These hold in the middle of an operation, too.
Loose(s) ==
    /\ s \in Slots
    /\ CallsMarked(s)
    /\ LogInOrder(s)
    /\ ChunksOnce(s)
    /\ InLine(s)
    /\ PromisesHeld(s)

\* What was called tells what state the stream is in.
LogMatchesState(s) ==
    /\ Logged(s, CloseRequest) => s.inFlightCloseRequest \/ s.state \in {"closed", "errored"}
    /\ Logged(s, AbortRequest) => s.state = "errored"

\* QueueMatchesRequests, place by place.
Ahead(s) == IF s.inFlightWriteRequest = None THEN 0 ELSE 1

Matches(s) ==
    /\ Len(s.queue) = Ahead(s) + Len(s.writeRequests) + (IF s.closeRequest THEN 1 ELSE 0)
    /\ s.inFlightWriteRequest # None => s.queue[1].value = s.inFlightWriteRequest
    /\ \A k \in DOMAIN s.writeRequests : s.queue[Ahead(s) + k].value = s.writeRequests[k]
    /\ s.closeRequest => s.queue[Len(s.queue)].value = CloseRequest

ErroringEnds(s) == s.keysMatch /\ s.state = "erroring" => ~s.started \/ InFlight(s)

WritableInvariant(s) ==
    /\ Loose(s)
    /\ LogMatchesState(s)
    /\ s.state = "writable" => Matches(s)
    /\ ErroringEnds(s)

-----------------------------------------------------------------------------
(* The fields of the record.                                                  *)

\* All but the writer and its promises, the backpressure and the stored error.
Same(s, t) ==
    /\ t.keysMatch = s.keysMatch /\ t.state = s.state
    /\ t.started = s.started /\ t.queue = s.queue
    /\ t.writeRequests = s.writeRequests /\ t.inFlightWriteRequest = s.inFlightWriteRequest
    /\ t.closeRequest = s.closeRequest /\ t.inFlightCloseRequest = s.inFlightCloseRequest
    /\ t.pendingAbortRequest = s.pendingAbortRequest /\ t.promise = s.promise
    /\ t.sinkCalls = s.sinkCalls /\ t.sinkLog = s.sinkLog /\ t.accepted = s.accepted
    /\ t.sizing = s.sizing

LEMMA HiddenFields ==
    ASSUME NEW s \in Slots
    PROVE  /\ \A x \in BOOLEAN :
                 [s EXCEPT !.storedError = x] \in Slots /\ Same(s, [s EXCEPT !.storedError = x])
           /\ \A x \in BOOLEAN :
                 [s EXCEPT !.writer = x] \in Slots /\ Same(s, [s EXCEPT !.writer = x])
           /\ \A x \in {"pending", "fulfilled", "rejected"} :
                 [s EXCEPT !.ready = x] \in Slots /\ Same(s, [s EXCEPT !.ready = x])
           /\ \A x \in {"pending", "fulfilled", "rejected"} :
                 [s EXCEPT !.closed = x] \in Slots /\ Same(s, [s EXCEPT !.closed = x])
           /\ \A x \in BOOLEAN :
                 [s EXCEPT !.backpressure = x] \in Slots /\ Same(s, [s EXCEPT !.backpressure = x])
           /\ \A x \in BOOLEAN :
                 [s EXCEPT !.sizingWriter = x] \in Slots /\ Same(s, [s EXCEPT !.sizingWriter = x])
           /\ \A x \in SUBSET Assertions :
                 [s EXCEPT !.failed = x] \in Slots /\ Same(s, [s EXCEPT !.failed = x])
<1>1. \A x \in BOOLEAN :
                 [s EXCEPT !.storedError = x] \in Slots /\ Same(s, [s EXCEPT !.storedError = x])
      BY DEF Slots, Same
<1>2. \A x \in BOOLEAN :
                 [s EXCEPT !.writer = x] \in Slots /\ Same(s, [s EXCEPT !.writer = x])
      BY DEF Slots, Same
<1>3. \A x \in {"pending", "fulfilled", "rejected"} :
                 [s EXCEPT !.ready = x] \in Slots /\ Same(s, [s EXCEPT !.ready = x])
      BY DEF Slots, Same
<1>4. \A x \in {"pending", "fulfilled", "rejected"} :
                 [s EXCEPT !.closed = x] \in Slots /\ Same(s, [s EXCEPT !.closed = x])
      BY DEF Slots, Same
<1>5. \A x \in BOOLEAN :
                 [s EXCEPT !.backpressure = x] \in Slots /\ Same(s, [s EXCEPT !.backpressure = x])
      BY DEF Slots, Same
<1>6. \A x \in BOOLEAN :
                 [s EXCEPT !.sizingWriter = x] \in Slots /\ Same(s, [s EXCEPT !.sizingWriter = x])
      BY DEF Slots, Same
<1>7. \A x \in SUBSET Assertions :
                 [s EXCEPT !.failed = x] \in Slots /\ Same(s, [s EXCEPT !.failed = x])
      BY DEF Slots, Same
<1> QED BY <1>1, <1>2, <1>3, <1>4, <1>5, <1>6, <1>7

LEMMA SeenFields ==
    ASSUME NEW s \in Slots
    PROVE  /\ \A x \in {"writable", "erroring", "errored", "closed"} :
                 [s EXCEPT !.state = x] \in Slots
           /\ \A x \in BOOLEAN :
                 [s EXCEPT !.started = x] \in Slots
           /\ \A x \in Seq([value : Chunks \cup {CloseRequest}, size : Nat]) :
                 [s EXCEPT !.queue = x] \in Slots
           /\ \A x \in Seq(Chunks) :
                 [s EXCEPT !.writeRequests = x] \in Slots
           /\ \A x \in Chunks \cup {None} :
                 [s EXCEPT !.inFlightWriteRequest = x] \in Slots
           /\ \A x \in BOOLEAN :
                 [s EXCEPT !.closeRequest = x] \in Slots
           /\ \A x \in BOOLEAN :
                 [s EXCEPT !.inFlightCloseRequest = x] \in Slots
           /\ \A x \in {"none", "made", "madeWhileErroring"} :
                 [s EXCEPT !.pendingAbortRequest = x] \in Slots
           /\ \A x \in [Promises -> PromiseStates] :
                 [s EXCEPT !.promise = x] \in Slots
           /\ \A x \in SUBSET SinkCalls :
                 [s EXCEPT !.sinkCalls = x] \in Slots
           /\ \A x \in Seq(Promises) :
                 [s EXCEPT !.sinkLog = x] \in Slots
           /\ \A x \in Chunks \cup {None} :
                 [s EXCEPT !.sizing = x] \in Slots
           /\ \A x \in Seq(Chunks) :
                 [s EXCEPT !.accepted = x] \in Slots
<1>1. \A x \in {"writable", "erroring", "errored", "closed"} :
                 [s EXCEPT !.state = x] \in Slots
      BY DEF Slots
<1>2. \A x \in BOOLEAN :
                 [s EXCEPT !.started = x] \in Slots
      BY DEF Slots
<1>3. \A x \in Seq([value : Chunks \cup {CloseRequest}, size : Nat]) :
                 [s EXCEPT !.queue = x] \in Slots
      BY DEF Slots
<1>4. \A x \in Seq(Chunks) :
                 [s EXCEPT !.writeRequests = x] \in Slots
      BY DEF Slots
<1>5. \A x \in Chunks \cup {None} :
                 [s EXCEPT !.inFlightWriteRequest = x] \in Slots
      BY DEF Slots
<1>6. \A x \in BOOLEAN :
                 [s EXCEPT !.closeRequest = x] \in Slots
      BY DEF Slots
<1>7. \A x \in BOOLEAN :
                 [s EXCEPT !.inFlightCloseRequest = x] \in Slots
      BY DEF Slots
<1>8. \A x \in {"none", "made", "madeWhileErroring"} :
                 [s EXCEPT !.pendingAbortRequest = x] \in Slots
      BY DEF Slots
<1>9. \A x \in [Promises -> PromiseStates] :
                 [s EXCEPT !.promise = x] \in Slots
      BY DEF Slots
<1>10. \A x \in SUBSET SinkCalls :
                 [s EXCEPT !.sinkCalls = x] \in Slots
      BY DEF Slots
<1>11. \A x \in Seq(Promises) :
                 [s EXCEPT !.sinkLog = x] \in Slots
      BY DEF Slots
<1>12. \A x \in Chunks \cup {None} :
                 [s EXCEPT !.sizing = x] \in Slots
      BY DEF Slots
<1>13. \A x \in Seq(Chunks) :
                 [s EXCEPT !.accepted = x] \in Slots
      BY DEF Slots
<1> QED BY <1>1, <1>2, <1>3, <1>4, <1>5, <1>6, <1>7, <1>8, <1>9, <1>10, <1>11, <1>12, <1>13

LEMMA SlotsFacts ==
    ASSUME NEW s \in Slots
    PROVE  /\ s.keysMatch \in BOOLEAN
           /\ s.state \in {"writable", "erroring", "errored", "closed"}
           /\ s.started \in BOOLEAN
           /\ s.queue \in Seq([value : Chunks \cup {CloseRequest}, size : Nat])
           /\ s.writeRequests \in Seq(Chunks)
           /\ s.inFlightWriteRequest \in Chunks \cup {None}
           /\ s.closeRequest \in BOOLEAN
           /\ s.inFlightCloseRequest \in BOOLEAN
           /\ s.pendingAbortRequest \in {"none", "made", "madeWhileErroring"}
           /\ s.promise \in [Promises -> PromiseStates]
           /\ s.sinkCalls \in SUBSET SinkCalls
           /\ s.sinkLog \in Seq(Promises)
           /\ s.accepted \in Seq(Chunks)
           /\ s.sizing \in Chunks \cup {None}
           /\ s.storedError \in BOOLEAN
           /\ s.writer \in BOOLEAN
           /\ s.ready \in {"pending", "fulfilled", "rejected"}
           /\ s.closed \in {"pending", "fulfilled", "rejected"}
           /\ s.backpressure \in BOOLEAN
           /\ s.sizingWriter \in BOOLEAN
           /\ s.failed \in SUBSET Assertions
BY DEF Slots

\* An assertion that fails is only noted.
LEMMA FailedKeeps ==
    ASSUME NEW s \in Slots, NEW name \in Assertions
    PROVE  /\ s \in Slots /\ Same(s, s)
           /\ [s EXCEPT !.failed = @ \cup {name}] \in Slots
           /\ Same(s, [s EXCEPT !.failed = @ \cup {name}])
<1>1. Same(s, s)
      BY DEF Same
<1>2. s.failed \cup {name} \in SUBSET Assertions
      BY SlotsFacts
<1> QED BY <1>1, <1>2, HiddenFields

LEMMA SameTrans ==
    ASSUME NEW s, NEW t, NEW u, Same(s, t), Same(t, u)
    PROVE  Same(s, u)
BY DEF Same

LEMMA SameInvariant ==
    ASSUME NEW s, NEW t \in Slots, Same(s, t)
    PROVE  /\ Loose(s) => Loose(t)
           /\ LogMatchesState(s) => LogMatchesState(t)
           /\ Matches(s) => Matches(t)
           /\ ErroringEnds(s) => ErroringEnds(t)
           /\ WritableInvariant(s) => WritableInvariant(t)
<1>1. Loose(s) => Loose(t)
  <2> SUFFICES ASSUME Loose(s) PROVE Loose(t)
      OBVIOUS
  <2>1. InLine(t)
        BY DEF Loose, InLine, Logged, Same
  <2>2. CallsMarked(t) /\ LogInOrder(t) /\ ChunksOnce(t) /\ PromisesHeld(t)
        BY DEF Loose, CallsMarked, LogInOrder, ChunksOnce, PromisesHeld, InFlight, Same
  <2> QED BY <2>1, <2>2 DEF Loose
<1>2. LogMatchesState(s) => LogMatchesState(t)
      BY DEF LogMatchesState, Logged, Same
<1>3. Matches(s) => Matches(t)
      BY DEF Matches, Ahead, Same
<1>4. ErroringEnds(s) => ErroringEnds(t)
      BY DEF ErroringEnds, InFlight, Same
<1> QED BY <1>1, <1>2, <1>3, <1>4 DEF WritableInvariant, Same

-----------------------------------------------------------------------------
(* What the operations leave alone.                                           *)

LEMMA ClosedPromisesKeep ==
    ASSUME NEW s \in Slots
    PROVE  /\ ClosedPromiseReject(s) \in Slots /\ Same(s, ClosedPromiseReject(s))
           /\ ClosedPromiseResolve(s) \in Slots /\ Same(s, ClosedPromiseResolve(s))
<1> DEFINE a == Asserted(s, "closed promise pending", s.closed = "pending")
<1>1. "closed promise pending" \in Assertions
      BY DEF Assertions
<1>2. a \in Slots /\ Same(s, a)
      BY <1>1, FailedKeeps DEF Asserted
<1>3. ClosedPromiseReject(s) = IF s.writer THEN [a EXCEPT !.closed = "rejected"] ELSE s
      BY DEF ClosedPromiseReject
<1>4. ClosedPromiseResolve(s) = IF s.writer THEN [a EXCEPT !.closed = "fulfilled"] ELSE s
      BY DEF ClosedPromiseResolve
<1> HIDE DEF a
<1>5. \A x \in {"fulfilled", "rejected"} :
         [a EXCEPT !.closed = x] \in Slots /\ Same(s, [a EXCEPT !.closed = x])
      BY <1>2, HiddenFields, SameTrans
<1>6. Same(s, s)
      BY DEF Same
<1> QED BY <1>3, <1>4, <1>5, <1>6

LEMMA ReadyPromisesKeep ==
    ASSUME NEW s \in Slots
    PROVE  /\ ReadyPromiseReset(s) \in Slots /\ Same(s, ReadyPromiseReset(s))
           /\ ReadyPromiseResolve(s) \in Slots /\ Same(s, ReadyPromiseResolve(s))
<1> DEFINE a == Asserted(s, "ready promise", s.ready # "pending")
           b == Asserted(s, "ready promise", s.ready = "pending")
<1>1. "ready promise" \in Assertions
      BY DEF Assertions
<1>2. a \in Slots /\ Same(s, a) /\ b \in Slots /\ Same(s, b)
      BY <1>1, FailedKeeps DEF Asserted
<1>3. /\ ReadyPromiseReset(s) = [a EXCEPT !.ready = "pending"]
      /\ ReadyPromiseResolve(s) = [b EXCEPT !.ready = "fulfilled"]
      BY DEF ReadyPromiseReset, ReadyPromiseResolve
<1> HIDE DEF a, b
<1>4. [a EXCEPT !.ready = "pending"] \in Slots /\ Same(s, [a EXCEPT !.ready = "pending"])
      BY <1>2, HiddenFields, SameTrans
<1>5. [b EXCEPT !.ready = "fulfilled"] \in Slots /\ Same(s, [b EXCEPT !.ready = "fulfilled"])
      BY <1>2, HiddenFields, SameTrans
<1> QED BY <1>3, <1>4, <1>5

LEMMA UpdateBackpressureKeeps ==
    ASSUME NEW s \in Slots
    PROVE  UpdateBackpressure(s) \in Slots /\ Same(s, UpdateBackpressure(s))
<1> DEFINE backpressure == GetBackpressure(s)
           a == [s EXCEPT !.backpressure = backpressure]
<1>1. backpressure \in BOOLEAN
      BY DEF GetBackpressure
<1> HIDE DEF backpressure
<1>2. a \in Slots /\ Same(s, a)
      BY <1>1, HiddenFields
<1>3. UpdateBackpressure(s) \in {a, ReadyPromiseReset(a), ReadyPromiseResolve(a)}
      BY <1>1, SlotsFacts DEF UpdateBackpressure, backpressure
<1> HIDE DEF a
<1>4. /\ ReadyPromiseReset(a) \in Slots /\ Same(a, ReadyPromiseReset(a))
      /\ ReadyPromiseResolve(a) \in Slots /\ Same(a, ReadyPromiseResolve(a))
      BY <1>2, ReadyPromisesKeep
<1> QED BY <1>2, <1>3, <1>4, SameTrans

LEMMA AcquireKeeps ==
    ASSUME NEW s \in Slots
    PROVE  AcquireWriter(s) \in Slots /\ Same(s, AcquireWriter(s))
<1> DEFINE a == [s EXCEPT !.writer = TRUE]
           b == [a EXCEPT !.ready = InitialReadyPromise(s)]
           c == [b EXCEPT !.closed = InitialClosedPromise(s)]
<1>1. AcquireWriter(s) = c
      BY DEF AcquireWriter
<1>2. a \in Slots /\ Same(s, a)
      BY HiddenFields
<1>3. InitialReadyPromise(s) \in {"pending", "fulfilled", "rejected"}
      BY DEF InitialReadyPromise
<1>4. InitialClosedPromise(s) \in {"pending", "fulfilled", "rejected"}
      BY DEF InitialClosedPromise
<1> HIDE DEF a
<1>5. b \in Slots /\ Same(a, b)
      BY <1>2, <1>3, HiddenFields
<1> HIDE DEF b
<1>6. c \in Slots /\ Same(b, c)
      BY <1>4, <1>5, HiddenFields
<1> QED BY <1>1, <1>2, <1>5, <1>6, SameTrans

LEMMA ReleaseKeeps ==
    ASSUME NEW s \in Slots
    PROVE  ReleaseWriter(s) \in Slots /\ Same(s, ReleaseWriter(s))
<1> DEFINE a == [s EXCEPT !.ready = "rejected"]
           b == [a EXCEPT !.closed = "rejected"]
           c == [b EXCEPT !.writer = FALSE]
           d == [c EXCEPT !.sizingWriter = FALSE]
<1>1. ReleaseWriter(s) = d
      BY DEF ReleaseWriter, EnsureReadyPromiseRejected, EnsureClosedPromiseRejected
<1>2. a \in Slots /\ Same(s, a)
      BY HiddenFields
<1> HIDE DEF a
<1>3. b \in Slots /\ Same(a, b)
      BY <1>2, HiddenFields
<1> HIDE DEF b
<1>4. c \in Slots /\ Same(b, c)
      BY <1>3, HiddenFields
<1> HIDE DEF c
<1>5. d \in Slots /\ Same(c, d)
      BY <1>4, HiddenFields
<1> HIDE DEF d
<1> QED BY <1>1, <1>2, <1>3, <1>4, <1>5, SameTrans

-----------------------------------------------------------------------------
(* Erroring.                                                                  *)

LEMMA Constants ==
    /\ None \notin Chunks /\ None # CloseRequest /\ None # AbortRequest
    /\ CloseRequest \notin Chunks /\ AbortRequest \notin Chunks
    /\ CloseRequest # AbortRequest
BY WritableStreamAssumption

\* All but the close request and its promise.
BesideClose(s, t) ==
    /\ t.keysMatch = s.keysMatch /\ t.state = s.state /\ t.started = s.started
    /\ t.queue = s.queue /\ t.writeRequests = s.writeRequests
    /\ t.inFlightWriteRequest = s.inFlightWriteRequest
    /\ t.inFlightCloseRequest = s.inFlightCloseRequest
    /\ t.pendingAbortRequest = s.pendingAbortRequest
    /\ t.sinkCalls = s.sinkCalls /\ t.sinkLog = s.sinkLog /\ t.accepted = s.accepted
    /\ t.sizing = s.sizing

LEMMA RejectCloseEffect ==
    ASSUME NEW s \in Slots
    PROVE  LET t == RejectCloseAndClosedPromiseIfNeeded(s)
           IN  /\ t \in Slots /\ BesideClose(s, t)
               /\ s.keysMatch => ~t.closeRequest
               /\ t.promise = IF s.keysMatch /\ s.closeRequest
                              THEN [s.promise EXCEPT ![CloseRequest] = "rejected"]
                              ELSE s.promise
<1> DEFINE p == IF s.closeRequest THEN [s.promise EXCEPT ![CloseRequest] = "rejected"]
                ELSE s.promise
           a == [s EXCEPT !.promise = p]
           b == [a EXCEPT !.closeRequest = FALSE]
<1>1. p \in [Promises -> PromiseStates]
      BY SlotsFacts DEF Promises, PromiseStates
<1>2. [s.promise EXCEPT ![CloseRequest] = IF s.closeRequest THEN "rejected" ELSE @] = p
  <2>1. s.promise \in [Promises -> PromiseStates] /\ CloseRequest \in Promises
        BY SlotsFacts DEF Promises
  <2> QED BY <2>1
<1>3. RejectCloseAndClosedPromiseIfNeeded(s) =
          IF s.closeRequest /\ ~s.keysMatch THEN s ELSE ClosedPromiseReject(b)
      BY <1>2 DEF RejectCloseAndClosedPromiseIfNeeded, Slots
<1>4. a \in Slots
  <2> HIDE DEF p
  <2> QED BY <1>1, SeenFields
<1>5. b \in Slots
  <2> HIDE DEF a
  <2> QED BY <1>4, SeenFields
<1>6. BesideClose(s, b) /\ b.closeRequest = FALSE /\ b.promise = p
  <2> HIDE DEF p
  <2> QED BY DEF Slots, BesideClose
<1> HIDE DEF b
<1>7. ClosedPromiseReject(b) \in Slots /\ Same(b, ClosedPromiseReject(b))
      BY <1>5, ClosedPromisesKeep
<1>8. BesideClose(s, s)
      BY DEF BesideClose
<1>9. CASE s.closeRequest /\ ~s.keysMatch
      BY <1>3, <1>8, <1>9
<1>10. CASE ~(s.closeRequest /\ ~s.keysMatch)
      BY <1>3, <1>6, <1>7, <1>10 DEF BesideClose, Same
<1> QED BY <1>9, <1>10

\* The order of the writes is kept by what accepts none and hands none to the sink.
LEMMA InLineKeeps ==
    ASSUME NEW s \in Slots, NEW t, InLine(s), t.accepted = s.accepted,
           \/ t.sinkLog = s.sinkLog
           \/ \E p \in {CloseRequest, AbortRequest} : t.sinkLog = Append(s.sinkLog, p),
           t.state = "writable" /\ ~Logged(t, CloseRequest) =>
               /\ s.state = "writable"
               /\ t.sinkLog = s.sinkLog /\ t.writeRequests = s.writeRequests
    PROVE  InLine(t)
<1>1. s.sinkLog \in Seq(Promises)
      BY SlotsFacts
<1>2. \A i \in DOMAIN t.sinkLog : t.sinkLog[i] \in Chunks =>
          i \in DOMAIN s.sinkLog /\ t.sinkLog[i] = s.sinkLog[i]
  <2>1. CASE t.sinkLog = s.sinkLog
        BY <2>1
  <2>2. ASSUME NEW p \in {CloseRequest, AbortRequest}, t.sinkLog = Append(s.sinkLog, p)
        PROVE  \A i \in DOMAIN t.sinkLog : t.sinkLog[i] \in Chunks =>
                   i \in DOMAIN s.sinkLog /\ t.sinkLog[i] = s.sinkLog[i]
    <3>1. p \notin Chunks
          BY Constants
    <3> QED BY <1>1, <2>2, <3>1
  <2> QED BY <2>1, <2>2
<1>3. t.state = "writable" /\ ~Logged(t, CloseRequest) =>
          /\ s.state = "writable" /\ ~Logged(s, CloseRequest)
          /\ t.sinkLog = s.sinkLog /\ t.writeRequests = s.writeRequests
      BY DEF Logged
<1> QED BY <1>2, <1>3 DEF InLine

\* A stream that has been errored keeps the invariant.
LEMMA ErroredInvariant ==
    ASSUME NEW s, NEW t \in Slots, Loose(s), s.started, ~InFlight(s),
           t.state = "errored", t.started = s.started,
           t.inFlightWriteRequest = s.inFlightWriteRequest,
           t.inFlightCloseRequest = s.inFlightCloseRequest,
           t.sizing = s.sizing, t.accepted = s.accepted,
           t.sinkCalls \subseteq s.sinkCalls \cup {"abort"},
           \/ t.sinkLog = s.sinkLog
           \/ /\ t.sinkLog = Append(s.sinkLog, AbortRequest)
              /\ ~Logged(s, CloseRequest) /\ ~Logged(s, AbortRequest),
           t.writeRequests \in {<<>>, s.writeRequests},
           \A p \in Promises : s.promise[p] # "none" => t.promise[p] # "none",
           PromisesHeld(t)
    PROVE  WritableInvariant(t)
<1>1. s \in Slots /\ s.sinkLog \in Seq(Promises) /\ s.writeRequests \in Seq(Chunks)
      BY SlotsFacts DEF Loose
<1>2. CallsMarked(t)
      BY DEF CallsMarked, InFlight, Loose
<1>5. InLine(t)
  <2>1. \/ t.sinkLog = s.sinkLog
        \/ \E p \in {CloseRequest, AbortRequest} : t.sinkLog = Append(s.sinkLog, p)
        OBVIOUS
  <2>2. t.state # "writable" /\ InLine(s)
        BY DEF Loose
  <2> QED BY <1>1, <2>1, <2>2, InLineKeeps
<1>3. CASE t.sinkLog = s.sinkLog
  <2>1. LogInOrder(t)
        BY <1>3 DEF LogInOrder, Loose
  <2>2. \A i \in DOMAIN t.sinkLog :
            t.sinkLog[i] \in Chunks => t.promise[t.sinkLog[i]] # "none" /\ t.sinkLog[i] # t.sizing
        BY <1>1, <1>3 DEF ChunksOnce, Loose, Promises
  <2>3. \A k \in DOMAIN t.writeRequests :
            /\ t.promise[t.writeRequests[k]] # "none" /\ t.writeRequests[k] # t.sizing
            /\ \A i \in DOMAIN t.sinkLog : t.sinkLog[i] # t.writeRequests[k]
        BY <1>1, <1>3 DEF ChunksOnce, Loose, Promises
  <2>4. \A k, l \in DOMAIN t.writeRequests : t.writeRequests[k] = t.writeRequests[l] => k = l
        BY DEF ChunksOnce, Loose
  <2> QED BY <1>2, <1>5, <2>1, <2>2, <2>3, <2>4
          DEF WritableInvariant, Loose, ChunksOnce, LogMatchesState, ErroringEnds
<1>4. CASE /\ t.sinkLog = Append(s.sinkLog, AbortRequest)
           /\ ~Logged(s, CloseRequest) /\ ~Logged(s, AbortRequest)
  <2>1. /\ Len(t.sinkLog) = Len(s.sinkLog) + 1 /\ Len(s.sinkLog) \in Nat
        /\ DOMAIN t.sinkLog = 1..(Len(s.sinkLog) + 1)
        /\ DOMAIN s.sinkLog = 1..Len(s.sinkLog)
        /\ \A i \in DOMAIN s.sinkLog : t.sinkLog[i] = s.sinkLog[i]
        /\ t.sinkLog[Len(s.sinkLog) + 1] = AbortRequest
        BY <1>1, <1>4
  <2>2. \A i \in DOMAIN t.sinkLog : i \in DOMAIN s.sinkLog \/ i = Len(s.sinkLog) + 1
        BY <2>1
  <2>3. \A i \in DOMAIN s.sinkLog : s.sinkLog[i] # CloseRequest /\ s.sinkLog[i] # AbortRequest
        BY <1>4 DEF Logged
  <2>4. LogInOrder(t)
    <3>1. \A i \in DOMAIN t.sinkLog :
              t.sinkLog[i] \in {CloseRequest, AbortRequest} => i = Len(t.sinkLog)
          BY <2>1, <2>2, <2>3
    <3>2. \A i, j \in DOMAIN s.sinkLog : s.sinkLog[i] = s.sinkLog[j] => i = j
          BY DEF LogInOrder, Loose
    <3>3. ASSUME NEW i \in DOMAIN t.sinkLog, NEW j \in DOMAIN t.sinkLog,
                 t.sinkLog[i] = t.sinkLog[j]
          PROVE  i = j
          BY <2>1, <2>2, <2>3, <3>2, <3>3, SMTT(30)
    <3> QED BY <3>1, <3>3 DEF LogInOrder
  <2>5. \A i \in DOMAIN t.sinkLog :
            t.sinkLog[i] \in Chunks => t.promise[t.sinkLog[i]] # "none" /\ t.sinkLog[i] # t.sizing
        BY <1>1, <2>1, <2>2, Constants DEF ChunksOnce, Loose, Promises
  <2>6. \A k \in DOMAIN t.writeRequests :
            /\ t.promise[t.writeRequests[k]] # "none" /\ t.writeRequests[k] # t.sizing
            /\ \A i \in DOMAIN t.sinkLog : t.sinkLog[i] # t.writeRequests[k]
    <3> SUFFICES ASSUME NEW k \in DOMAIN t.writeRequests
                 PROVE  /\ t.promise[t.writeRequests[k]] # "none" /\ t.writeRequests[k] # t.sizing
                        /\ \A i \in DOMAIN t.sinkLog : t.sinkLog[i] # t.writeRequests[k]
        OBVIOUS
    <3>1. k \in DOMAIN s.writeRequests /\ t.writeRequests = s.writeRequests
          OBVIOUS
    <3>2. s.writeRequests[k] \in Chunks
          BY <1>1, <3>1
    <3>3. /\ s.promise[s.writeRequests[k]] # "none" /\ s.writeRequests[k] # s.sizing
          /\ \A i \in DOMAIN s.sinkLog : s.sinkLog[i] # s.writeRequests[k]
          BY <3>1 DEF ChunksOnce, Loose
    <3> QED BY <2>1, <2>2, <3>1, <3>2, <3>3, Constants DEF Promises
  <2>7. \A k, l \in DOMAIN t.writeRequests : t.writeRequests[k] = t.writeRequests[l] => k = l
        BY DEF ChunksOnce, Loose
  <2> QED BY <1>2, <1>5, <2>4, <2>5, <2>6, <2>7
          DEF WritableInvariant, Loose, ChunksOnce, LogMatchesState, ErroringEnds
<1> QED BY <1>3, <1>4

\* What FinishErroring needs: the stream has nothing in flight, and abort() would be
\* the first and last call of its kind.
MayFinish(s) ==
    /\ Loose(s)
    /\ s.started /\ ~InFlight(s)
    /\ ~Logged(s, AbortRequest)
    /\ Logged(s, CloseRequest) => s.pendingAbortRequest = "none"

LEMMA FinishErroringStep ==
    ASSUME NEW s, MayFinish(s), s.state \in {"writable", "erroring"}
    PROVE  /\ WritableInvariant(FinishErroring(s))
           /\ FinishErroring(s).state = "errored" /\ FinishErroring(s).sizing = s.sizing
<1> DEFINE e1 == [s EXCEPT !.state = "errored"]
           e == [e1 EXCEPT !.queue = <<>>]
           p == [q \in Promises |->
                    IF Contains(s.writeRequests, q) THEN "rejected" ELSE s.promise[q]]
           r1 == [e EXCEPT !.writeRequests = <<>>]
           r2 == [r1 EXCEPT !.promise = p]
           r == [r2 EXCEPT !.pendingAbortRequest = "none"]
           pa == [p EXCEPT ![AbortRequest] = "rejected"]
           ra == [r EXCEPT !.promise = pa]
           c1 == [r EXCEPT !.sinkCalls = @ \cup {"abort"}]
           c == [c1 EXCEPT !.sinkLog = Append(@, AbortRequest)]
<1>1. /\ s \in Slots /\ s.sinkLog \in Seq(Promises) /\ s.writeRequests \in Seq(Chunks)
      /\ s.promise \in [Promises -> PromiseStates] /\ s.sinkCalls \in SUBSET SinkCalls
      /\ s.pendingAbortRequest \in {"none", "made", "madeWhileErroring"}
      /\ s.keysMatch \in BOOLEAN
      BY SlotsFacts DEF MayFinish, Loose
<1>2. AbortRequest \in Promises /\ CloseRequest \in Promises /\ Chunks \subseteq Promises
      BY DEF Promises
<1>3. p \in [Promises -> PromiseStates] /\ pa \in [Promises -> PromiseStates]
      BY <1>1 DEF PromiseStates
<1>4. e \in Slots /\ e.keysMatch = s.keysMatch /\ e.state = "errored" /\ e.started = s.started
      /\ e.queue = <<>> /\ e.writeRequests = s.writeRequests
      /\ e.inFlightWriteRequest = s.inFlightWriteRequest
      /\ e.closeRequest = s.closeRequest /\ e.inFlightCloseRequest = s.inFlightCloseRequest
      /\ e.pendingAbortRequest = s.pendingAbortRequest /\ e.promise = s.promise
      /\ e.sinkCalls = s.sinkCalls /\ e.sinkLog = s.sinkLog /\ e.accepted = s.accepted
      /\ e.sizing = s.sizing
  <2>1. e1 \in Slots
        BY <1>1, SeenFields
  <2>2. e \in Slots
    <3> HIDE DEF e1
    <3>1. <<>> \in Seq([value : Chunks \cup {CloseRequest}, size : Nat])
          OBVIOUS
    <3> QED BY <2>1, <3>1, SeenFields
  <2> QED BY <1>1, <2>2 DEF Slots
<1>5. \/ /\ FinishErroring(s) = e
         /\ s.writeRequests # <<>> /\ ~s.keysMatch
      \/ /\ FinishErroring(s) = RejectCloseAndClosedPromiseIfNeeded(r)
         /\ s.writeRequests = <<>> \/ s.keysMatch
         /\ s.pendingAbortRequest = "none"
      \/ /\ FinishErroring(s) = RejectCloseAndClosedPromiseIfNeeded(ra)
         /\ s.keysMatch
      \/ /\ FinishErroring(s) = c
         /\ s.writeRequests = <<>> \/ s.keysMatch
         /\ s.pendingAbortRequest # "none"
  <2>1. Asserted(s, "nothing in flight", ~HasOperationMarkedInFlight(s)) = s
        BY DEF Asserted, HasOperationMarkedInFlight, InFlight, MayFinish
  <2>2. [s EXCEPT !.state = "errored", !.queue = <<>>] = e
        OBVIOUS
  <2>3. [e EXCEPT !.writeRequests = <<>>,
                  !.promise = [q \in Promises |->
                      IF Contains(s.writeRequests, q) THEN "rejected" ELSE @[q]],
                  !.pendingAbortRequest = "none"] = r
    <3> HIDE DEF e
    <3> QED BY <1>1, <1>4 DEF Slots
  <2>4. [r EXCEPT !.sinkCalls = @ \cup {"abort"}, !.sinkLog = Append(@, AbortRequest)] = c
    <3>1. c1.sinkLog = r.sinkLog /\ c1.accepted = r.accepted
          BY <1>4 DEF Slots
    <3> QED BY <3>1
  <2>5. [r EXCEPT !.promise[AbortRequest] = "rejected"] = ra
    <3>1. r.promise = p
          BY <1>4 DEF Slots
    <3> HIDE DEF r, p
    <3> QED BY <3>1
  <2> DEFINE threw == s.writeRequests # <<>> /\ ~s.keysMatch
             none == s.pendingAbortRequest = "none"
             late == s.pendingAbortRequest = "madeWhileErroring" /\ s.keysMatch
  <2>6. FinishErroring(s) =
            CASE threw -> e
              [] ~threw /\ none -> RejectCloseAndClosedPromiseIfNeeded(r)
              [] ~threw /\ late -> RejectCloseAndClosedPromiseIfNeeded(ra)
              [] OTHER -> c
    <3> HIDE DEF e, r, c, ra
    <3> QED BY <2>1, <2>2, <2>3, <2>4, <2>5, ZenonT(40) DEF FinishErroring
  <2>7. ~(none /\ late)
        OBVIOUS
  <2> DEFINE reject == RejectCloseAndClosedPromiseIfNeeded(r)
             rejectAll == RejectCloseAndClosedPromiseIfNeeded(ra)
  <2> HIDE DEF e, r, c, ra, reject, rejectAll
  <2>8. CASE threw
    <3>1. FinishErroring(s) = e
      <4> HIDE DEF none, late
      <4> QED BY <2>6, <2>8 DEF reject, rejectAll
    <3> QED BY <2>8, <3>1
  <2>9. CASE ~threw /\ none
    <3>1. FinishErroring(s) = reject
      <4> HIDE DEF threw, none, late
      <4> QED BY <2>6, <2>7, <2>9 DEF reject, rejectAll
    <3> QED BY <1>1, <2>9, <3>1 DEF reject
  <2>10. CASE ~threw /\ late
    <3>1. FinishErroring(s) = rejectAll
      <4> HIDE DEF threw, none, late
      <4> QED BY <2>6, <2>7, <2>10 DEF reject, rejectAll
    <3> QED BY <1>1, <2>10, <3>1 DEF rejectAll
  <2>11. CASE ~threw /\ ~none /\ ~late
    <3>1. FinishErroring(s) = c
      <4> HIDE DEF threw, none, late
      <4> QED BY <2>6, <2>11 DEF reject, rejectAll
    <3> QED BY <1>1, <2>11, <3>1
  <2> HIDE DEF threw, none, late
  <2> QED BY <2>8, <2>9, <2>10, <2>11
<1>6. r \in Slots /\ r.keysMatch = s.keysMatch /\ r.state = "errored" /\ r.started = s.started
      /\ r.queue = <<>> /\ r.writeRequests = <<>>
      /\ r.inFlightWriteRequest = s.inFlightWriteRequest
      /\ r.closeRequest = s.closeRequest /\ r.inFlightCloseRequest = s.inFlightCloseRequest
      /\ r.pendingAbortRequest = "none" /\ r.promise = p
      /\ r.sinkCalls = s.sinkCalls /\ r.sinkLog = s.sinkLog /\ r.accepted = s.accepted
      /\ r.sizing = s.sizing
  <2> HIDE DEF e, p
  <2>1. r1 \in Slots
    <3>1. <<>> \in Seq(Chunks)
          OBVIOUS
    <3> QED BY <1>4, <3>1, SeenFields
  <2>2. r2 \in Slots
    <3> HIDE DEF r1
    <3> QED BY <1>3, <2>1, SeenFields
  <2>3. r \in Slots
    <3> HIDE DEF r2
    <3> QED BY <2>2, SeenFields
  <2>4. r.promise = p /\ r.pendingAbortRequest = "none" /\ r.writeRequests = <<>>
        BY <1>4 DEF Slots
  <2> QED BY <1>4, <2>3, <2>4 DEF Slots
<1>7. /\ ra \in Slots /\ ra.promise = pa
      /\ ra.closeRequest = r.closeRequest
      /\ BesideClose(r, ra)
  <2> HIDE DEF r, pa
  <2>1. ra \in Slots
        BY <1>3, <1>6, SeenFields
  <2> QED BY <1>6, <2>1 DEF Slots, BesideClose
<1>8. /\ c \in Slots /\ c.keysMatch = s.keysMatch /\ c.state = "errored" /\ c.started = s.started
      /\ c.queue = <<>> /\ c.writeRequests = <<>>
      /\ c.inFlightWriteRequest = s.inFlightWriteRequest
      /\ c.closeRequest = s.closeRequest /\ c.inFlightCloseRequest = s.inFlightCloseRequest
      /\ c.pendingAbortRequest = "none" /\ c.promise = p
      /\ c.sinkCalls = s.sinkCalls \cup {"abort"}
      /\ c.sinkLog = Append(s.sinkLog, AbortRequest) /\ c.accepted = s.accepted
      /\ c.sizing = s.sizing
  <2> HIDE DEF r, p
  <2>1. s.sinkCalls \cup {"abort"} \in SUBSET SinkCalls
        BY <1>1 DEF SinkCalls
  <2>2. Append(s.sinkLog, AbortRequest) \in Seq(Promises)
        BY <1>1, <1>2
  <2>3. c1 \in Slots
        BY <1>6, <2>1, SeenFields
  <2>4. c \in Slots
    <3>1. c1.sinkLog = s.sinkLog /\ c1.accepted = s.accepted
          BY <1>6 DEF Slots
    <3> HIDE DEF c1
    <3> QED BY <2>2, <2>3, <3>1, SeenFields
  <2> QED BY <1>6, <2>4 DEF Slots
<1> HIDE DEF e, r, ra, c
<1>9. \A q \in Promises : s.promise[q] # "none" => p[q] # "none" /\ pa[q] # "none"
      BY <1>1, <1>2
<1>10. s.keysMatch => \A chunk \in Chunks : p[chunk] # "pending"
  <2> SUFFICES ASSUME s.keysMatch, NEW chunk \in Chunks, p[chunk] = "pending"
               PROVE  FALSE
      OBVIOUS
  <2>1. ~Contains(s.writeRequests, chunk) /\ s.promise[chunk] = "pending"
        BY <1>2
  <2>2. s.inFlightWriteRequest = chunk
        BY <2>1 DEF MayFinish, Loose, PromisesHeld
  <2> QED BY <2>2, Constants DEF MayFinish, InFlight
<1>11. /\ ~Contains(s.writeRequests, CloseRequest) /\ ~Contains(s.writeRequests, AbortRequest)
  <2>1. \A k \in 1..Len(s.writeRequests) : s.writeRequests[k] \in Chunks
        BY <1>1
  <2> QED BY <2>1, Constants DEF Contains
<1>12. p[CloseRequest] = s.promise[CloseRequest] /\ p[AbortRequest] = s.promise[AbortRequest]
      BY <1>2, <1>11
<1>13. \A chunk \in Chunks : pa[chunk] = p[chunk]
      BY <1>2, <1>3, Constants
<1>14. pa[CloseRequest] = p[CloseRequest] /\ pa[AbortRequest] = "rejected"
      BY <1>2, <1>3, Constants
<1>15. s.keysMatch /\ s.promise[CloseRequest] = "pending" => s.closeRequest
      BY DEF MayFinish, Loose, PromisesHeld, InFlight
<1>16. "abort" \notin s.sinkCalls
      BY DEF MayFinish, Loose, CallsMarked
<1>17. s.keysMatch /\ s.promise[AbortRequest] = "pending" => s.pendingAbortRequest # "none"
      BY <1>16 DEF MayFinish, Loose, PromisesHeld
<1>18. CASE FinishErroring(s) = e /\ s.writeRequests # <<>> /\ ~s.keysMatch
  <2>1. PromisesHeld(e)
        BY <1>4, <1>18 DEF PromisesHeld
  <2>2. e.sinkCalls \subseteq s.sinkCalls \cup {"abort"}
        BY <1>4
  <2>3. WritableInvariant(e)
        BY <1>4, <2>1, <2>2, ErroredInvariant DEF MayFinish
  <2> QED BY <1>4, <1>18, <2>3
<1>19. ASSUME NEW u \in Slots, BesideClose(r, u), u.closeRequest = s.closeRequest,
              u.promise \in {p, pa},
              s.keysMatch => u.promise[AbortRequest] # "pending"
       PROVE  LET t == RejectCloseAndClosedPromiseIfNeeded(u)
              IN  WritableInvariant(t) /\ t.state = "errored" /\ t.sizing = s.sizing
  <2> DEFINE t == RejectCloseAndClosedPromiseIfNeeded(u)
  <2>1. /\ t \in Slots /\ BesideClose(u, t)
        /\ u.keysMatch => ~t.closeRequest
        /\ t.promise = IF u.keysMatch /\ u.closeRequest
                       THEN [u.promise EXCEPT ![CloseRequest] = "rejected"] ELSE u.promise
        BY <1>19, RejectCloseEffect
  <2> HIDE DEF t
  <2>2. /\ t.keysMatch = s.keysMatch /\ t.state = "errored" /\ t.started = s.started
        /\ t.writeRequests = <<>>
        /\ t.inFlightWriteRequest = s.inFlightWriteRequest
        /\ t.inFlightCloseRequest = s.inFlightCloseRequest
        /\ t.sinkCalls = s.sinkCalls /\ t.sinkLog = s.sinkLog /\ t.accepted = s.accepted
        /\ t.sizing = s.sizing
        BY <1>6, <1>19, <2>1 DEF BesideClose
  <2>3. u.promise \in [Promises -> PromiseStates] /\ u.keysMatch = s.keysMatch
        BY <1>3, <1>6, <1>19 DEF BesideClose
  <2>4. \A q \in Promises : s.promise[q] # "none" => t.promise[q] # "none"
        BY <1>2, <1>9, <1>19, <2>1, <2>3, ZenonT(40)
  <2>5. PromisesHeld(t)
    <3> SUFFICES ASSUME s.keysMatch PROVE PromisesHeld(t)
        BY <2>2 DEF PromisesHeld
    <3>1. \A chunk \in Chunks : t.promise[chunk] = u.promise[chunk]
          BY <1>2, <2>1, <2>3, Constants
    <3>2. \A chunk \in Chunks : t.promise[chunk] # "pending"
          BY <1>10, <1>13, <1>19, <3>1, ZenonT(40)
    <3>3. t.promise[CloseRequest] # "pending"
          BY <1>2, <1>12, <1>14, <1>15, <1>19, <2>1, <2>3
    <3>4. t.promise[AbortRequest] # "pending"
          BY <1>2, <1>19, <2>1, <2>3, Constants
    <3> QED BY <3>2, <3>3, <3>4 DEF PromisesHeld
  <2>6. t.sinkCalls \subseteq s.sinkCalls \cup {"abort"}
        BY <2>2
  <2>7. WritableInvariant(t)
        BY <2>1, <2>2, <2>4, <2>5, <2>6, ErroredInvariant DEF MayFinish
  <2> QED BY <2>2, <2>7 DEF t
<1>20. CASE FinishErroring(s) = RejectCloseAndClosedPromiseIfNeeded(r)
            /\ s.pendingAbortRequest = "none"
  <2>1. BesideClose(r, r)
        BY DEF BesideClose
  <2>2. s.keysMatch => r.promise[AbortRequest] # "pending"
        BY <1>6, <1>12, <1>17, <1>20
  <2> HIDE DEF p, pa
  <2> QED BY <1>6, <1>19, <1>20, <2>1, <2>2
<1>21. CASE FinishErroring(s) = RejectCloseAndClosedPromiseIfNeeded(ra)
  <2>1. ra.promise[AbortRequest] # "pending"
        BY <1>7, <1>14
  <2>2. ra.closeRequest = s.closeRequest
        BY <1>6, <1>7
  <2> HIDE DEF p, pa
  <2> QED BY <1>7, <1>19, <1>21, <2>1, <2>2
<1>22. CASE FinishErroring(s) = c /\ s.pendingAbortRequest # "none"
  <2>1. PromisesHeld(c)
    <3>1. "abort" \in c.sinkCalls
          BY <1>8
    <3>2. s.keysMatch => \A chunk \in Chunks : c.promise[chunk] # "pending"
          BY <1>8, <1>10
    <3>3. s.keysMatch /\ c.promise[CloseRequest] = "pending" => c.closeRequest
          BY <1>8, <1>12, <1>15
    <3> QED BY <1>8, <3>1, <3>2, <3>3 DEF PromisesHeld
  <2>2. c.sinkCalls \subseteq s.sinkCalls \cup {"abort"}
        BY <1>8
  <2>3. \A q \in Promises : s.promise[q] # "none" => c.promise[q] # "none"
        BY <1>8, <1>9
  <2> HIDE DEF p, pa
  <2>4. WritableInvariant(c)
        BY <1>8, <1>22, <2>1, <2>2, <2>3, ErroredInvariant DEF MayFinish
  <2> QED BY <1>8, <1>22, <2>4
<1> HIDE DEF p, pa
<1> QED BY <1>5, <1>18, <1>20, <1>21, <1>22

LEMMA StartErroringStep ==
    ASSUME NEW s, Loose(s), s.state = "writable", ~Logged(s, AbortRequest),
           Logged(s, CloseRequest) =>
               \/ s.inFlightCloseRequest
               \/ s.started /\ ~InFlight(s) /\ s.pendingAbortRequest = "none"
    PROVE  /\ WritableInvariant(StartErroring(s))
           /\ StartErroring(s).state \in {"erroring", "errored"}
           /\ StartErroring(s).sizing = s.sizing
<1> DEFINE a == Asserted(s, "no stored error", ~s.storedError)
           b == [a EXCEPT !.state = "erroring"]
           c == [b EXCEPT !.storedError = TRUE]
           d == [c EXCEPT !.ready = "rejected"]
<1>1. s \in Slots
      BY DEF Loose
<1>2. StartErroring(s) = IF s.started /\ ~InFlight(s) THEN FinishErroring(d) ELSE d
      BY DEF StartErroring, EnsureReadyPromiseRejected, InFlight, HasOperationMarkedInFlight
<1>3. a \in Slots /\ Same(s, a)
  <2>1. "no stored error" \in Assertions
        BY DEF Assertions
  <2> QED BY <1>1, <2>1, FailedKeeps DEF Asserted
<1> HIDE DEF a
<1>4. b \in Slots
      BY <1>3, SeenFields
<1>5. /\ b.keysMatch = s.keysMatch /\ b.state = "erroring" /\ b.started = s.started
      /\ b.queue = s.queue /\ b.writeRequests = s.writeRequests
      /\ b.inFlightWriteRequest = s.inFlightWriteRequest
      /\ b.closeRequest = s.closeRequest /\ b.inFlightCloseRequest = s.inFlightCloseRequest
      /\ b.pendingAbortRequest = s.pendingAbortRequest /\ b.promise = s.promise
      /\ b.sinkCalls = s.sinkCalls /\ b.sinkLog = s.sinkLog /\ b.accepted = s.accepted
      /\ b.sizing = s.sizing
      BY <1>3 DEF Slots, Same
<1> HIDE DEF b
<1>6. c \in Slots /\ Same(b, c)
      BY <1>4, HiddenFields
<1> HIDE DEF c
<1>7. d \in Slots /\ Same(c, d)
      BY <1>6, HiddenFields
<1> HIDE DEF d
<1>8. /\ d.keysMatch = s.keysMatch /\ d.state = "erroring" /\ d.started = s.started
      /\ d.queue = s.queue /\ d.writeRequests = s.writeRequests
      /\ d.inFlightWriteRequest = s.inFlightWriteRequest
      /\ d.closeRequest = s.closeRequest /\ d.inFlightCloseRequest = s.inFlightCloseRequest
      /\ d.pendingAbortRequest = s.pendingAbortRequest /\ d.promise = s.promise
      /\ d.sinkCalls = s.sinkCalls /\ d.sinkLog = s.sinkLog /\ d.accepted = s.accepted
      /\ d.sizing = s.sizing
      BY <1>5, <1>6, <1>7 DEF Same
<1>9. Loose(d)
      BY <1>7, <1>8 DEF Loose, CallsMarked, LogInOrder, ChunksOnce, InLine, PromisesHeld, InFlight
<1>10. CASE s.started /\ ~InFlight(s)
  <2>1. MayFinish(d)
        BY <1>8, <1>9, <1>10 DEF MayFinish, InFlight, Logged
  <2>2. d.state \in {"writable", "erroring"}
        BY <1>8
  <2>3. /\ WritableInvariant(FinishErroring(d))
        /\ FinishErroring(d).state = "errored" /\ FinishErroring(d).sizing = d.sizing
        BY <2>1, <2>2, FinishErroringStep
  <2> QED BY <1>2, <1>8, <1>10, <2>3
<1>11. CASE ~(s.started /\ ~InFlight(s))
  <2>1. LogMatchesState(d)
        BY <1>8, <1>11 DEF LogMatchesState, Logged
  <2>2. ErroringEnds(d)
        BY <1>8, <1>11 DEF ErroringEnds, InFlight
  <2> QED BY <1>2, <1>8, <1>9, <1>11, <2>1, <2>2 DEF WritableInvariant
<1> QED BY <1>10, <1>11

LEMMA DealWithRejectionStep ==
    ASSUME NEW s, MayFinish(s), s.state \in {"writable", "erroring"}
    PROVE  WritableInvariant(DealWithRejection(s))
<1>1. CASE s.state = "writable"
      BY <1>1, StartErroringStep DEF MayFinish, DealWithRejection
<1>2. CASE s.state = "erroring"
      BY <1>2, FinishErroringStep DEF DealWithRejection, Asserted
<1> QED BY <1>1, <1>2

-----------------------------------------------------------------------------
(* The queue.                                                                 *)

LEMMA SequenceFacts ==
    ASSUME NEW S, NEW x \in Seq(S)
    PROVE  /\ Len(x) \in Nat /\ DOMAIN x = 1..Len(x)
           /\ \A k \in 1..Len(x) : x[k] \in S
           /\ x # <<>> => /\ Len(x) > 0 /\ Head(x) = x[1] /\ Head(x) \in S
                          /\ Tail(x) \in Seq(S) /\ Len(Tail(x)) = Len(x) - 1
                          /\ \A k \in 1..(Len(x) - 1) : Tail(x)[k] = x[k + 1]
           /\ \A e \in S : /\ Append(x, e) \in Seq(S) /\ Len(Append(x, e)) = Len(x) + 1
                           /\ \A k \in 1..Len(x) : Append(x, e)[k] = x[k]
                           /\ Append(x, e)[Len(x) + 1] = e
OBVIOUS

\* The first that waits is handed on.
LEMMA HandedOn ==
    ASSUME NEW S, NEW accepted \in Seq(S), NEW waiting \in Seq(S), NEW n \in Nat,
           waiting # <<>>, WaitsAfter(n, accepted, waiting)
    PROVE  /\ n + 1 \in DOMAIN accepted /\ accepted[n + 1] = Head(waiting)
           /\ WaitsAfter(n + 1, accepted, Tail(waiting))
<1>1. PICK m \in Nat : m = Len(waiting) /\ m > 0
      BY SequenceFacts
<1>2. /\ DOMAIN accepted = 1..(n + m) /\ Len(Tail(waiting)) = m - 1
      /\ DOMAIN Tail(waiting) = 1..(m - 1) /\ DOMAIN waiting = 1..m
      /\ Head(waiting) = waiting[1] /\ \A k \in 1..m : accepted[n + k] = waiting[k]
      BY <1>1, SequenceFacts DEF WaitsAfter
<1>3. ASSUME NEW k \in 1..(m - 1)
      PROVE  accepted[(n + 1) + k] = Tail(waiting)[k]
  <2>1. k + 1 \in 1..m /\ (n + 1) + k = n + (k + 1)
        BY <1>1
  <2>2. Tail(waiting)[k] = waiting[k + 1]
        BY <1>1, SequenceFacts
  <2> QED BY <1>2, <2>1, <2>2
<1>4. 1 \in 1..m /\ n + 1 \in 1..(n + m) /\ n + m = (n + 1) + (m - 1)
      BY <1>1
<1>5. WaitsAfter(n + 1, accepted, Tail(waiting))
      BY <1>1, <1>2, <1>3, <1>4 DEF WaitsAfter
<1> QED BY <1>2, <1>4, <1>5

\* A write that is accepted comes after all that wait.
LEMMA AcceptedLast ==
    ASSUME NEW S, NEW accepted \in Seq(S), NEW waiting \in Seq(S), NEW n \in Nat, NEW e \in S,
           WaitsAfter(n, accepted, waiting)
    PROVE  WaitsAfter(n, Append(accepted, e), Append(waiting, e))
<1>1. PICK m \in Nat : m = Len(waiting)
      BY SequenceFacts
<1>2. /\ Len(accepted) = n + m /\ Len(Append(waiting, e)) = m + 1
      /\ DOMAIN Append(waiting, e) = 1..(m + 1) /\ Append(waiting, e)[m + 1] = e
      /\ \A k \in 1..m : Append(waiting, e)[k] = waiting[k] /\ accepted[n + k] = waiting[k]
  <2>1. /\ Append(waiting, e) \in Seq(S) /\ Len(Append(waiting, e)) = m + 1
        /\ Append(waiting, e)[m + 1] = e
        /\ \A k \in 1..m : Append(waiting, e)[k] = waiting[k]
        BY <1>1, SequenceFacts
  <2>2. DOMAIN Append(waiting, e) = 1..(m + 1) /\ DOMAIN waiting = 1..m
        BY <1>1, <2>1
  <2> QED BY <1>1, <2>1, <2>2 DEF WaitsAfter
<1>3. /\ Len(Append(accepted, e)) = (n + m) + 1 /\ Append(accepted, e)[(n + m) + 1] = e
      /\ \A k \in 1..(n + m) : Append(accepted, e)[k] = accepted[k]
      BY <1>2, SequenceFacts
<1>4. ASSUME NEW k \in 1..(m + 1)
      PROVE  Append(accepted, e)[n + k] = Append(waiting, e)[k]
  <2>1. CASE k = m + 1
    <3>1. n + k = (n + m) + 1
          BY <2>1
    <3> QED BY <1>2, <1>3, <2>1, <3>1
  <2>2. CASE k \in 1..m
    <3>1. n + k \in 1..(n + m)
          BY <2>2
    <3> QED BY <1>2, <1>3, <2>2, <3>1
  <2>3. k = m + 1 \/ k \in 1..m
        OBVIOUS
  <2> QED BY <2>1, <2>2, <2>3
<1>5. (n + m) + 1 = n + (m + 1)
      OBVIOUS
<1> QED BY <1>2, <1>3, <1>4, <1>5 DEF WaitsAfter

\* The sequences of a stream.
LEMMA Sequences ==
    ASSUME NEW s \in Slots
    PROVE  /\ s.queue \in Seq([value : Chunks \cup {CloseRequest}, size : Nat])
           /\ s.writeRequests \in Seq(Chunks)
           /\ s.sinkLog \in Seq(Promises)
           /\ Len(s.queue) \in Nat /\ Len(s.writeRequests) \in Nat /\ Len(s.sinkLog) \in Nat
           /\ DOMAIN s.queue = 1..Len(s.queue)
           /\ DOMAIN s.writeRequests = 1..Len(s.writeRequests)
           /\ DOMAIN s.sinkLog = 1..Len(s.sinkLog)
           /\ \A k \in 1..Len(s.writeRequests) : s.writeRequests[k] \in Chunks
           /\ s.queue = <<>> <=> Len(s.queue) = 0
           /\ s.writeRequests = <<>> <=> Len(s.writeRequests) = 0
<1>1. /\ s.queue \in Seq([value : Chunks \cup {CloseRequest}, size : Nat])
      /\ s.writeRequests \in Seq(Chunks) /\ s.sinkLog \in Seq(Promises)
      BY SlotsFacts
<1>2. \A x : Len(x) = 0 /\ x \in Seq(Chunks) => x = <<>>
      OBVIOUS
<1>3. s.queue = <<>> <=> Len(s.queue) = 0
      BY <1>1
<1> QED BY <1>1, <1>2, <1>3, SequenceFacts

\* What is called is logged: the log of a stream that has not ended stays in order.
LEMMA LogAppend ==
    ASSUME NEW s, NEW t, Loose(s), ~Logged(s, CloseRequest), ~Logged(s, AbortRequest),
           NEW p \in Promises, ~Logged(s, p), t.sinkLog = Append(s.sinkLog, p)
    PROVE  /\ LogInOrder(t)
           /\ DOMAIN t.sinkLog = 1..(Len(s.sinkLog) + 1)
           /\ \A i \in DOMAIN t.sinkLog :
                 \/ i \in DOMAIN s.sinkLog /\ t.sinkLog[i] = s.sinkLog[i]
                 \/ t.sinkLog[i] = p
<1>1. s.sinkLog \in Seq(Promises)
      BY SlotsFacts DEF Loose
<1>2. /\ DOMAIN t.sinkLog = 1..(Len(s.sinkLog) + 1) /\ Len(s.sinkLog) \in Nat
      /\ Len(t.sinkLog) = Len(s.sinkLog) + 1
      /\ DOMAIN s.sinkLog = 1..Len(s.sinkLog)
      /\ \A i \in DOMAIN s.sinkLog : t.sinkLog[i] = s.sinkLog[i]
      /\ t.sinkLog[Len(s.sinkLog) + 1] = p
      BY <1>1
<1>3. \A i \in DOMAIN t.sinkLog : i \in DOMAIN s.sinkLog \/ i = Len(s.sinkLog) + 1
      BY <1>2
<1>4. \A i \in DOMAIN s.sinkLog : s.sinkLog[i] # CloseRequest /\ s.sinkLog[i] # AbortRequest
                                  /\ s.sinkLog[i] # p
      BY DEF Logged
<1>5. \A i \in DOMAIN t.sinkLog :
          t.sinkLog[i] \in {CloseRequest, AbortRequest} => i = Len(t.sinkLog)
      BY <1>2, <1>3, <1>4
<1>6. \A i, j \in DOMAIN s.sinkLog : s.sinkLog[i] = s.sinkLog[j] => i = j
      BY DEF LogInOrder, Loose
<1>7. ASSUME NEW i \in DOMAIN t.sinkLog, NEW j \in DOMAIN t.sinkLog, t.sinkLog[i] = t.sinkLog[j]
      PROVE  i = j
      BY <1>2, <1>3, <1>4, <1>6, <1>7
<1> QED BY <1>2, <1>3, <1>5, <1>7 DEF LogInOrder

\* What AdvanceQueueIfNeeded is called with: all of the invariant, or an erroring
\* stream that it will end.
MayAdvance(s) ==
    /\ Loose(s)
    /\ LogMatchesState(s)
    /\ s.state = "writable" => Matches(s)
    /\ s.state = "erroring" => ~s.inFlightCloseRequest

\* The head of the queue is the first of the requests.
LEMMA HeadOfQueue ==
    ASSUME NEW s, MayAdvance(s), s.state = "writable", s.inFlightWriteRequest = None,
           s.queue # <<>>
    PROVE  /\ ~s.inFlightCloseRequest
           /\ ~Logged(s, CloseRequest) /\ ~Logged(s, AbortRequest)
           /\ Head(s.queue) = s.queue[1]
           /\ Head(s.queue).value = CloseRequest =>
                 s.writeRequests = <<>> /\ s.closeRequest /\ Len(s.queue) = 1
           /\ Head(s.queue).value # CloseRequest =>
                 s.writeRequests # <<>> /\ Head(s.queue).value = s.writeRequests[1]
<1>1. s \in Slots /\ Matches(s) /\ CallsMarked(s) /\ LogMatchesState(s)
      BY DEF MayAdvance, Loose
<1>2. /\ Len(s.queue) \in Nat /\ Len(s.writeRequests) \in Nat /\ Len(s.queue) > 0
      /\ DOMAIN s.writeRequests = 1..Len(s.writeRequests)
      /\ \A k \in 1..Len(s.writeRequests) : s.writeRequests[k] \in Chunks
      /\ s.writeRequests = <<>> <=> Len(s.writeRequests) = 0
      BY <1>1, Sequences
<1>3. /\ Len(s.queue) = Len(s.writeRequests) + (IF s.closeRequest THEN 1 ELSE 0)
      /\ \A k \in 1..Len(s.writeRequests) : s.queue[k].value = s.writeRequests[k]
      /\ s.closeRequest => s.queue[Len(s.queue)].value = CloseRequest
  <2>1. Ahead(s) = 0
        BY DEF Ahead
  <2>2. \A n \in Nat : 0 + n = n
        OBVIOUS
  <2>3. \A k \in 1..Len(s.writeRequests) : s.queue[0 + k].value = s.writeRequests[k]
        BY <1>1, <1>2, <2>1 DEF Matches
  <2>4. \A k \in 1..Len(s.writeRequests) : 0 + k = k
        BY <1>2
  <2>5. \A k \in 1..Len(s.writeRequests) : s.queue[k].value = s.writeRequests[k]
        BY <2>3, <2>4
  <2>6. Len(s.queue) = 0 + Len(s.writeRequests) + (IF s.closeRequest THEN 1 ELSE 0)
        BY <1>1, <2>1 DEF Matches
  <2>7. Len(s.queue) = Len(s.writeRequests) + (IF s.closeRequest THEN 1 ELSE 0)
        BY <1>2, <2>6
  <2> QED BY <1>1, <2>5, <2>7 DEF Matches
<1>4. ~s.inFlightCloseRequest
  <2> SUFFICES ASSUME s.inFlightCloseRequest PROVE FALSE
      OBVIOUS
  <2>1. ~s.closeRequest /\ Len(s.writeRequests) = 0
        BY <1>1, <1>2 DEF CallsMarked
  <2> QED BY <1>2, <1>3, <2>1
<1>5. ~Logged(s, CloseRequest) /\ ~Logged(s, AbortRequest)
      BY <1>1, <1>4 DEF LogMatchesState
<1>6. Head(s.queue) = s.queue[1]
      BY <1>1, Sequences, SequenceFacts
<1>7. CASE Len(s.writeRequests) = 0
      BY <1>2, <1>3, <1>4, <1>5, <1>6, <1>7
<1>8. CASE Len(s.writeRequests) > 0
  <2>1. s.queue[1].value = s.writeRequests[1] /\ s.writeRequests[1] \in Chunks
        BY <1>2, <1>3, <1>8
  <2> QED BY <1>2, <1>4, <1>5, <1>6, <1>8, <2>1, Constants
<1> QED BY <1>2, <1>7, <1>8

\* The first write request goes to the sink.
LEMMA ProcessWriteStep ==
    ASSUME NEW s, MayAdvance(s), s.state = "writable", s.started,
           s.inFlightWriteRequest = None, s.queue # <<>>, Head(s.queue).value # CloseRequest
    PROVE  WritableInvariant(ProcessWrite(s)) /\ ProcessWrite(s).sizing = s.sizing
<1> DEFINE head == s.writeRequests[1]
           a == [s EXCEPT !.inFlightWriteRequest = Head(s.writeRequests)]
           b == [a EXCEPT !.writeRequests = Tail(@)]
           c == [b EXCEPT !.sinkCalls = @ \cup {"write"}]
           t == [c EXCEPT !.sinkLog = Append(@, Head(s.queue).value)]
<1>1. ProcessWrite(s) = t
      BY DEF ProcessWrite, MarkFirstWriteRequestInFlight
<1>2. s \in Slots /\ Loose(s) /\ Matches(s) /\ CallsMarked(s) /\ ChunksOnce(s) /\ PromisesHeld(s)
      BY DEF MayAdvance, Loose
<1>3. /\ s.writeRequests # <<>> /\ Head(s.queue).value = head
      /\ ~s.inFlightCloseRequest
      /\ ~Logged(s, CloseRequest) /\ ~Logged(s, AbortRequest)
      BY HeadOfQueue
<1>4. /\ Len(s.writeRequests) \in Nat /\ Len(s.writeRequests) > 0
      /\ Head(s.writeRequests) = head /\ head \in Chunks
      /\ s.writeRequests \in Seq(Chunks) /\ Tail(s.writeRequests) \in Seq(Chunks)
      /\ Len(Tail(s.writeRequests)) = Len(s.writeRequests) - 1
      /\ \A k \in 1..(Len(s.writeRequests) - 1) : Tail(s.writeRequests)[k] = s.writeRequests[k + 1]
      /\ DOMAIN s.writeRequests = 1..Len(s.writeRequests)
      /\ DOMAIN Tail(s.writeRequests) = 1..(Len(s.writeRequests) - 1)
      /\ \A k \in 1..Len(s.writeRequests) : s.writeRequests[k] \in Chunks
      BY <1>2, <1>3, Sequences, SequenceFacts
<1>5. /\ t \in Slots /\ t.keysMatch = s.keysMatch /\ t.state = s.state /\ t.started = s.started
      /\ t.queue = s.queue /\ t.writeRequests = Tail(s.writeRequests)
      /\ t.inFlightWriteRequest = head
      /\ t.closeRequest = s.closeRequest /\ t.inFlightCloseRequest = s.inFlightCloseRequest
      /\ t.pendingAbortRequest = s.pendingAbortRequest /\ t.promise = s.promise
      /\ t.sinkCalls = s.sinkCalls \cup {"write"} /\ t.sinkLog = Append(s.sinkLog, head)
      /\ t.accepted = s.accepted /\ t.sizing = s.sizing
  <2> HIDE DEF head
  <2>1. a \in Slots
        BY <1>2, <1>4, SeenFields
  <2>2. b \in Slots
    <3>1. a.writeRequests = s.writeRequests
          BY <1>2 DEF Slots
    <3> HIDE DEF a
    <3> QED BY <1>4, <2>1, <3>1, SeenFields
  <2>3. c \in Slots
    <3>1. b.sinkCalls = s.sinkCalls /\ s.sinkCalls \cup {"write"} \in SUBSET SinkCalls
          BY <1>2 DEF Slots, SinkCalls
    <3> HIDE DEF b
    <3> QED BY <2>2, <3>1, SeenFields
  <2>4. t \in Slots
    <3>1. c.sinkLog = s.sinkLog /\ c.accepted = s.accepted
          BY <1>2 DEF Slots
    <3>2. Append(s.sinkLog, head) \in Seq(Promises)
          BY <1>2, <1>4, Sequences, SequenceFacts DEF Promises
    <3> HIDE DEF c
    <3> QED BY <1>3, <2>3, <3>1, <3>2, SeenFields
  <2> QED BY <1>2, <1>3, <1>4, <2>4 DEF Slots
<1> HIDE DEF t, head
<1>6. /\ s.promise[head] # "none" /\ head # s.sizing /\ ~Logged(s, head)
      /\ \A k \in 1..(Len(s.writeRequests) - 1) : s.writeRequests[k + 1] # head
  <2>1. 1 \in DOMAIN s.writeRequests
        BY <1>4
  <2>2. \A k \in 1..(Len(s.writeRequests) - 1) : k + 1 \in DOMAIN s.writeRequests /\ k + 1 # 1
        BY <1>4
  <2> QED BY <1>2, <2>1, <2>2 DEF ChunksOnce, Logged, head
<1>7. head # CloseRequest /\ head # AbortRequest /\ head # None /\ head \in Promises
      BY <1>4, Constants DEF Promises
<1>8. /\ LogInOrder(t)
      /\ \A i \in DOMAIN t.sinkLog :
            \/ i \in DOMAIN s.sinkLog /\ t.sinkLog[i] = s.sinkLog[i]
            \/ t.sinkLog[i] = head
      BY <1>2, <1>3, <1>5, <1>6, <1>7, LogAppend
<1>9. CallsMarked(t)
      BY <1>2, <1>3, <1>5, <1>7 DEF CallsMarked, InFlight
<1>10. ChunksOnce(t)
  <2>1. \A i \in DOMAIN t.sinkLog :
            t.sinkLog[i] \in Chunks => t.promise[t.sinkLog[i]] # "none" /\ t.sinkLog[i] # t.sizing
        BY <1>2, <1>5, <1>6, <1>8 DEF ChunksOnce
  <2>2. \A k \in 1..(Len(s.writeRequests) - 1) :
            k + 1 \in DOMAIN s.writeRequests /\ t.writeRequests[k] = s.writeRequests[k + 1]
        BY <1>4, <1>5
  <2>3. \A k \in DOMAIN t.writeRequests :
            /\ t.promise[t.writeRequests[k]] # "none" /\ t.writeRequests[k] # t.sizing
            /\ \A i \in DOMAIN t.sinkLog : t.sinkLog[i] # t.writeRequests[k]
    <3> SUFFICES ASSUME NEW k \in 1..(Len(s.writeRequests) - 1)
                 PROVE  /\ s.promise[s.writeRequests[k + 1]] # "none"
                        /\ s.writeRequests[k + 1] # s.sizing
                        /\ \A i \in DOMAIN t.sinkLog : t.sinkLog[i] # s.writeRequests[k + 1]
        BY <1>4, <1>5, <2>2, SMTT(30)
    <3>1. k + 1 \in DOMAIN s.writeRequests
          BY <2>2
    <3>2. /\ s.promise[s.writeRequests[k + 1]] # "none" /\ s.writeRequests[k + 1] # s.sizing
          /\ \A i \in DOMAIN s.sinkLog : s.sinkLog[i] # s.writeRequests[k + 1]
          BY <1>2, <3>1 DEF ChunksOnce
    <3> QED BY <1>6, <1>8, <3>2
  <2>4. ASSUME NEW k \in DOMAIN t.writeRequests, NEW l \in DOMAIN t.writeRequests,
               t.writeRequests[k] = t.writeRequests[l]
        PROVE  k = l
    <3>1. k \in 1..(Len(s.writeRequests) - 1) /\ l \in 1..(Len(s.writeRequests) - 1)
          BY <1>4, <1>5
    <3>2. k + 1 = l + 1
          BY <1>2, <2>2, <2>4, <3>1 DEF ChunksOnce
    <3> QED BY <3>1, <3>2
  <2> QED BY <2>1, <2>3, <2>4 DEF ChunksOnce
<1>11. PromisesHeld(t)
  <2>1. ASSUME NEW chunk \in Chunks, Contains(s.writeRequests, chunk)
        PROVE  Contains(t.writeRequests, chunk) \/ chunk = head
    <3>1. PICK k \in 1..Len(s.writeRequests) : s.writeRequests[k] = chunk
          BY <2>1 DEF Contains
    <3>2. CASE k = 1
          BY <3>1, <3>2 DEF head
    <3>3. CASE k # 1
      <4>1. k - 1 \in 1..(Len(s.writeRequests) - 1) /\ (k - 1) + 1 = k
            BY <1>4, <3>3
      <4>2. t.writeRequests[k - 1] = chunk /\ Len(t.writeRequests) = Len(s.writeRequests) - 1
            BY <1>4, <1>5, <3>1, <4>1
      <4> QED BY <4>1, <4>2 DEF Contains
    <3> QED BY <3>2, <3>3
  <2>2. s.keysMatch => \A chunk \in Chunks : s.promise[chunk] = "pending" =>
            Contains(s.writeRequests, chunk) \/ s.inFlightWriteRequest = chunk
        BY <1>2 DEF PromisesHeld
  <2>3. \A chunk \in Chunks : s.inFlightWriteRequest # chunk
        BY Constants
  <2>4. s.keysMatch => \A chunk \in Chunks : t.promise[chunk] = "pending" =>
            Contains(t.writeRequests, chunk) \/ t.inFlightWriteRequest = chunk
        BY <1>5, <2>1, <2>2, <2>3
  <2>5. s.keysMatch => /\ t.promise[CloseRequest] = "pending" =>
                             t.closeRequest \/ t.inFlightCloseRequest
                       /\ t.promise[AbortRequest] = "pending" =>
                             t.pendingAbortRequest # "none" \/ "abort" \in t.sinkCalls
        BY <1>2, <1>5 DEF PromisesHeld
  <2> QED BY <1>5, <2>4, <2>5 DEF PromisesHeld
<1>12. LogMatchesState(t)
      BY <1>3, <1>7, <1>8 DEF LogMatchesState, Logged
<1>13. Matches(t)
  <2>1. Ahead(t) = 1 /\ Ahead(s) = 0
        BY <1>5, <1>7 DEF Ahead
  <2>2. Len(t.queue) = 1 + Len(t.writeRequests) + (IF t.closeRequest THEN 1 ELSE 0)
    <3> DEFINE last == IF s.closeRequest THEN 1 ELSE 0
    <3>1. Len(s.queue) = 0 + Len(s.writeRequests) + last
          BY <1>2, <2>1 DEF Matches
    <3>2. last \in Nat /\ last = (IF t.closeRequest THEN 1 ELSE 0)
          BY <1>5
    <3> HIDE DEF last
    <3>3. Len(t.queue) = Len(s.queue) /\ Len(t.writeRequests) = Len(s.writeRequests) - 1
          BY <1>4, <1>5
    <3>4. \A n, l \in Nat : 1 + (n - 1) + l = 0 + n + l
          OBVIOUS
    <3>5. Len(s.writeRequests) \in Nat
          BY <1>4
    <3>6. Len(t.queue) = 1 + Len(t.writeRequests) + last
          BY <3>1, <3>2, <3>3, <3>4, <3>5
    <3> QED BY <3>2, <3>6
  <2>3. t.queue[1].value = head
    <3>1. Head(s.queue) = s.queue[1]
          BY HeadOfQueue
    <3> QED BY <1>3, <1>5, <3>1
  <2>4. ASSUME NEW k \in DOMAIN t.writeRequests
        PROVE  t.queue[1 + k].value = t.writeRequests[k]
    <3>1. /\ k \in 1..(Len(s.writeRequests) - 1) /\ k + 1 \in 1..Len(s.writeRequests)
          /\ 0 + (k + 1) = 1 + k
          BY <1>4, <1>5
    <3>2. s.queue[0 + (k + 1)].value = s.writeRequests[k + 1]
          BY <1>2, <1>4, <2>1, <3>1 DEF Matches
    <3> QED BY <1>4, <1>5, <3>1, <3>2
  <2>5. t.closeRequest => t.queue[Len(t.queue)].value = CloseRequest
        BY <1>2, <1>5 DEF Matches
  <2> QED BY <1>5, <2>1, <2>2, <2>3, <2>4, <2>5 DEF Matches
<1>14. InLine(t)
  <2> DEFINE n == Len(s.sinkLog)
  <2>1. /\ InLine(s) /\ ~Logged(s, CloseRequest) /\ s.sinkLog \in Seq(Promises)
        /\ n \in Nat /\ DOMAIN s.sinkLog = 1..n /\ s.accepted \in Seq(Chunks)
        BY <1>2, <1>3, Sequences, SlotsFacts DEF Loose
  <2>2. WaitsAfter(n, s.accepted, s.writeRequests)
        BY <2>1 DEF InLine
  <2>3. /\ Len(t.sinkLog) = n + 1 /\ DOMAIN t.sinkLog = 1..(n + 1)
        /\ \A i \in 1..n : t.sinkLog[i] = s.sinkLog[i]
        /\ t.sinkLog[n + 1] = head
        BY <1>5, <1>7, <2>1, SequenceFacts
  <2> HIDE DEF n
  <2>4. s.writeRequests \in Seq(Chunks) /\ s.writeRequests # <<>> /\ Head(s.writeRequests) = head
        BY <1>4
  <2>5. /\ n + 1 \in DOMAIN s.accepted /\ s.accepted[n + 1] = head
        /\ WaitsAfter(n + 1, s.accepted, Tail(s.writeRequests))
        BY <2>1, <2>2, <2>4, HandedOn
  <2>6. ASSUME NEW i \in DOMAIN t.sinkLog, t.sinkLog[i] \in Chunks
        PROVE  i \in DOMAIN s.accepted /\ t.sinkLog[i] = s.accepted[i]
    <3>1. CASE i = n + 1
          BY <2>3, <2>5, <3>1
    <3>2. CASE i \in 1..n
          BY <2>1, <2>3, <2>6, <3>2 DEF InLine
    <3> QED BY <2>1, <2>3, <3>1, <3>2
  <2> QED BY <1>5, <2>3, <2>5, <2>6 DEF InLine
<1> QED BY <1>1, <1>5, <1>8, <1>9, <1>10, <1>11, <1>12, <1>13, <1>14
        DEF WritableInvariant, Loose, ErroringEnds

\* The sink is closed when there is nothing before the close request.
LEMMA ProcessCloseStep ==
    ASSUME NEW s, MayAdvance(s), s.state = "writable", s.started,
           s.inFlightWriteRequest = None, s.queue # <<>>, Head(s.queue).value = CloseRequest
    PROVE  WritableInvariant(ProcessClose(s)) /\ ProcessClose(s).sizing = s.sizing
<1> DEFINE a == [s EXCEPT !.closeRequest = FALSE]
           b == [a EXCEPT !.inFlightCloseRequest = TRUE]
           c == [b EXCEPT !.queue = Tail(@)]
           d == [c EXCEPT !.sinkCalls = @ \cup {"close"}]
           t == [d EXCEPT !.sinkLog = Append(@, CloseRequest)]
<1>1. s \in Slots /\ Loose(s) /\ Matches(s) /\ CallsMarked(s) /\ ChunksOnce(s) /\ PromisesHeld(s)
      BY DEF MayAdvance, Loose
<1>2. /\ ~s.inFlightCloseRequest /\ s.writeRequests = <<>> /\ s.closeRequest
      /\ Len(s.queue) = 1
      /\ ~Logged(s, CloseRequest) /\ ~Logged(s, AbortRequest)
      BY HeadOfQueue
<1>3. ProcessClose(s) = t
      BY <1>2 DEF ProcessClose, MarkCloseRequestInFlight, Asserted
<1>4. /\ Tail(s.queue) \in Seq([value : Chunks \cup {CloseRequest}, size : Nat])
      /\ Len(Tail(s.queue)) = 0
  <2>1. s.queue \in Seq([value : Chunks \cup {CloseRequest}, size : Nat])
        BY <1>1, Sequences
  <2>2. /\ Tail(s.queue) \in Seq([value : Chunks \cup {CloseRequest}, size : Nat])
        /\ Len(Tail(s.queue)) = Len(s.queue) - 1
        BY <2>1, SequenceFacts
  <2> QED BY <1>2, <2>2
<1>5. /\ t \in Slots /\ t.keysMatch = s.keysMatch /\ t.state = s.state /\ t.started = s.started
      /\ t.queue = Tail(s.queue) /\ t.writeRequests = s.writeRequests
      /\ t.inFlightWriteRequest = s.inFlightWriteRequest
      /\ t.closeRequest = FALSE /\ t.inFlightCloseRequest = TRUE
      /\ t.pendingAbortRequest = s.pendingAbortRequest /\ t.promise = s.promise
      /\ t.sinkCalls = s.sinkCalls \cup {"close"} /\ t.sinkLog = Append(s.sinkLog, CloseRequest)
      /\ t.accepted = s.accepted /\ t.sizing = s.sizing
  <2>1. a \in Slots
        BY <1>1, SeenFields
  <2>2. b \in Slots
    <3> HIDE DEF a
    <3> QED BY <2>1, SeenFields
  <2>3. c \in Slots
    <3>1. b.queue = s.queue
          BY <1>1 DEF Slots
    <3> HIDE DEF b
    <3> QED BY <1>4, <2>2, <3>1, SeenFields
  <2>4. d \in Slots
    <3>1. c.sinkCalls = s.sinkCalls /\ s.sinkCalls \cup {"close"} \in SUBSET SinkCalls
          BY <1>1 DEF Slots, SinkCalls
    <3> HIDE DEF c
    <3> QED BY <2>3, <3>1, SeenFields
  <2>5. t \in Slots
    <3>1. d.sinkLog = s.sinkLog /\ d.accepted = s.accepted
          BY <1>1 DEF Slots
    <3>2. Append(s.sinkLog, CloseRequest) \in Seq(Promises)
          BY <1>1, Sequences, SequenceFacts DEF Promises
    <3> HIDE DEF d
    <3> QED BY <2>4, <3>1, <3>2, SeenFields
  <2> QED BY <1>1, <2>5, ZenonT(40) DEF Slots
<1> HIDE DEF t
<1>6. /\ LogInOrder(t)
      /\ \A i \in DOMAIN t.sinkLog :
            \/ i \in DOMAIN s.sinkLog /\ t.sinkLog[i] = s.sinkLog[i]
            \/ t.sinkLog[i] = CloseRequest
  <2>1. CloseRequest \in Promises
        BY DEF Promises
  <2> QED BY <1>1, <1>2, <1>5, <2>1, LogAppend
<1>7. CallsMarked(t)
      BY <1>1, <1>2, <1>5 DEF CallsMarked, InFlight
<1>8. ChunksOnce(t)
  <2>1. \A i \in DOMAIN t.sinkLog :
            t.sinkLog[i] \in Chunks => t.promise[t.sinkLog[i]] # "none" /\ t.sinkLog[i] # t.sizing
        BY <1>1, <1>5, <1>6, Constants DEF ChunksOnce
  <2>2. DOMAIN t.writeRequests = {}
        BY <1>2, <1>5
  <2> QED BY <2>1, <2>2 DEF ChunksOnce
<1>9. PromisesHeld(t)
      BY <1>1, <1>5 DEF PromisesHeld
<1>10. LogMatchesState(t)
      BY <1>2, <1>5, <1>6, Constants DEF LogMatchesState, Logged
<1>11. Matches(t)
  <2>1. Ahead(t) = 0 /\ DOMAIN t.writeRequests = {} /\ Len(t.writeRequests) = 0
        BY <1>2, <1>5 DEF Ahead
  <2>2. ~(t.inFlightWriteRequest # None) /\ ~t.closeRequest
        BY <1>5
  <2>3. Len(t.queue) = 0
        BY <1>4, <1>5
  <2>4. Len(t.queue) = Ahead(t) + Len(t.writeRequests) + (IF t.closeRequest THEN 1 ELSE 0)
        BY <2>1, <2>2, <2>3
  <2> QED BY <2>1, <2>2, <2>4 DEF Matches
<1>12. InLine(t)
  <2>1. Logged(t, CloseRequest)
    <3>1. s.sinkLog \in Seq(Promises)
          BY <1>1, SlotsFacts
    <3>2. Len(s.sinkLog) + 1 \in DOMAIN t.sinkLog /\ t.sinkLog[Len(s.sinkLog) + 1] = CloseRequest
          BY <1>5, <3>1
    <3> QED BY <3>2 DEF Logged
  <2>2. \E p \in {CloseRequest, AbortRequest} : t.sinkLog = Append(s.sinkLog, p)
        BY <1>5
  <2> QED BY <1>1, <1>5, <2>1, <2>2, InLineKeeps DEF Loose
<1> QED BY <1>3, <1>5, <1>6, <1>7, <1>8, <1>9, <1>10, <1>11, <1>12
        DEF WritableInvariant, Loose, ErroringEnds

LEMMA AdvanceStep ==
    ASSUME NEW s, MayAdvance(s)
    PROVE  /\ WritableInvariant(AdvanceQueueIfNeeded(s))
           /\ AdvanceQueueIfNeeded(s).sizing = s.sizing
<1> DEFINE idle == s.started /\ s.inFlightWriteRequest = None
           waits == idle /\ s.state = "writable" /\ s.queue # <<>>
           closes == Head(s.queue).value = CloseRequest
<1>1. CASE idle /\ s.state = "erroring"
  <2>1. MayFinish(s)
        BY <1>1 DEF MayAdvance, MayFinish, InFlight, LogMatchesState
  <2>2. AdvanceQueueIfNeeded(s) = FinishErroring(s)
        BY <1>1 DEF AdvanceQueueIfNeeded
  <2> QED BY <1>1, <2>1, <2>2, FinishErroringStep
<1>2. CASE waits /\ closes
  <2>1. AdvanceQueueIfNeeded(s) = ProcessClose(s)
        BY <1>2 DEF AdvanceQueueIfNeeded
  <2> QED BY <1>2, <2>1, ProcessCloseStep
<1>3. CASE waits /\ ~closes
  <2>1. AdvanceQueueIfNeeded(s) = ProcessWrite(s)
        BY <1>3 DEF AdvanceQueueIfNeeded
  <2> QED BY <1>3, <2>1, ProcessWriteStep
<1>4. CASE ~(idle /\ s.state = "erroring") /\ ~waits
  <2>1. AdvanceQueueIfNeeded(s) = s
    <3> HIDE DEF waits
    <3> QED BY <1>4 DEF AdvanceQueueIfNeeded, waits
  <2>2. ErroringEnds(s)
        BY <1>4 DEF ErroringEnds, InFlight
  <2> QED BY <2>1, <2>2 DEF WritableInvariant, MayAdvance
<1> HIDE DEF idle, waits
<1> QED BY <1>1, <1>2, <1>3, <1>4

-----------------------------------------------------------------------------
(* The program's calls.                                                       *)

\* What leaves the log and the requests alone, and makes no promise "none".
LEMMA LooseKeeps ==
    ASSUME NEW s, NEW t \in Slots, Loose(s), CallsMarked(t), PromisesHeld(t),
           t.sinkLog = s.sinkLog, t.writeRequests = s.writeRequests,
           t.accepted = s.accepted, t.state = "writable" => s.state = "writable",
           t.sizing \in {s.sizing, None} \/ s.promise[t.sizing] = "none",
           \A p \in Promises : s.promise[p] # "none" => t.promise[p] # "none"
    PROVE  Loose(t)
<1>1. s \in Slots /\ ChunksOnce(s) /\ LogInOrder(s)
      BY DEF Loose
<1>2. LogInOrder(t)
      BY <1>1 DEF LogInOrder
<1>3. \A p \in Chunks : p \in Promises /\ p # None
      BY Constants DEF Promises
<1>4. \A i \in DOMAIN t.sinkLog :
          t.sinkLog[i] \in Chunks => t.promise[t.sinkLog[i]] # "none" /\ t.sinkLog[i] # t.sizing
      BY <1>1, <1>3 DEF ChunksOnce
<1>5. \A k \in DOMAIN s.writeRequests : s.writeRequests[k] \in Chunks
      BY <1>1, Sequences
<1>6. \A k \in DOMAIN t.writeRequests :
          /\ t.promise[t.writeRequests[k]] # "none" /\ t.writeRequests[k] # t.sizing
          /\ \A i \in DOMAIN t.sinkLog : t.sinkLog[i] # t.writeRequests[k]
      BY <1>1, <1>3, <1>5 DEF ChunksOnce
<1>7. \A k, l \in DOMAIN t.writeRequests : t.writeRequests[k] = t.writeRequests[l] => k = l
      BY <1>1 DEF ChunksOnce
<1>8. InLine(t)
      BY <1>1, InLineKeeps DEF Loose
<1> QED BY <1>2, <1>4, <1>6, <1>7, <1>8 DEF Loose, ChunksOnce

LEMMA AbortStep ==
    ASSUME NEW s, WritableInvariant(s)
    PROVE  WritableInvariant(AbortStream(s))
<1>1. s \in Slots /\ Loose(s) /\ CallsMarked(s) /\ PromisesHeld(s) /\ LogMatchesState(s)
      /\ ErroringEnds(s)
      BY DEF WritableInvariant, Loose
<1>2. AbortRequest \in Promises /\ s.promise \in [Promises -> PromiseStates]
      BY <1>1, SlotsFacts DEF Promises
<1>3. ASSUME NEW how \in {"made", "madeWhileErroring"}
      PROVE  LET t == [s EXCEPT !.pendingAbortRequest = how, !.promise[AbortRequest] = "pending"]
             IN  /\ Loose(t) /\ LogMatchesState(t) /\ ErroringEnds(t)
                 /\ t.state = s.state /\ t.started = s.started
                 /\ t.inFlightWriteRequest = s.inFlightWriteRequest
                 /\ t.inFlightCloseRequest = s.inFlightCloseRequest
  <2> DEFINE p == [s.promise EXCEPT ![AbortRequest] = "pending"]
             a == [s EXCEPT !.pendingAbortRequest = how]
             t == [a EXCEPT !.promise = p]
  <2>1. p \in [Promises -> PromiseStates]
        BY <1>2 DEF PromiseStates
  <2>2. a \in Slots
        BY <1>1, SeenFields
  <2>3. t = [s EXCEPT !.pendingAbortRequest = how, !.promise[AbortRequest] = "pending"]
        BY <1>1 DEF Slots
  <2>4. t \in Slots
    <3> HIDE DEF a, p
    <3> QED BY <2>1, <2>2, SeenFields
  <2>5. /\ t.keysMatch = s.keysMatch /\ t.state = s.state /\ t.started = s.started
        /\ t.queue = s.queue /\ t.writeRequests = s.writeRequests
        /\ t.inFlightWriteRequest = s.inFlightWriteRequest
        /\ t.closeRequest = s.closeRequest /\ t.inFlightCloseRequest = s.inFlightCloseRequest
        /\ t.pendingAbortRequest = how /\ t.promise = p
        /\ t.sinkCalls = s.sinkCalls /\ t.sinkLog = s.sinkLog /\ t.accepted = s.accepted
        /\ t.sizing = s.sizing
    <3> HIDE DEF p
    <3> QED BY <1>1 DEF Slots
  <2>6. \A q \in Promises : p[q] = IF q = AbortRequest THEN "pending" ELSE s.promise[q]
        BY <1>2
  <2>7. p[CloseRequest] = s.promise[CloseRequest] /\ \A q \in Chunks : p[q] = s.promise[q]
        BY <2>6, Constants DEF Promises
  <2> HIDE DEF t, p
  <2>8. PromisesHeld(t)
        BY <1>1, <2>5, <2>7 DEF PromisesHeld
  <2>9. CallsMarked(t)
        BY <1>1, <2>5 DEF CallsMarked, InFlight
  <2>10. Loose(t)
        BY <1>1, <2>4, <2>5, <2>6, <2>8, <2>9, LooseKeeps
  <2>11. LogMatchesState(t) /\ ErroringEnds(t)
        BY <1>1, <2>5 DEF LogMatchesState, Logged, ErroringEnds, InFlight
  <2> QED BY <2>3, <2>5, <2>10, <2>11
<1> DEFINE made == [s EXCEPT !.pendingAbortRequest = "made",
                             !.promise[AbortRequest] = "pending"]
           late == [s EXCEPT !.pendingAbortRequest = "madeWhileErroring",
                             !.promise[AbortRequest] = "pending"]
<1>4. CASE s.pendingAbortRequest = "none" /\ s.state = "erroring"
  <2>1. AbortStream(s) = late
        BY <1>4 DEF AbortStream
  <2>2. Loose(late) /\ LogMatchesState(late) /\ ErroringEnds(late) /\ late.state = "erroring"
        BY <1>3, <1>4
  <2> HIDE DEF late
  <2> QED BY <2>1, <2>2 DEF WritableInvariant
<1>5. CASE s.pendingAbortRequest = "none" /\ s.state = "writable"
  <2>1. AbortStream(s) = StartErroring(made)
        BY <1>5 DEF AbortStream
  <2>2. /\ Loose(made) /\ LogMatchesState(made) /\ made.state = "writable"
        BY <1>3, <1>5
  <2> HIDE DEF made
  <2>3. ~Logged(made, AbortRequest) /\ (Logged(made, CloseRequest) => made.inFlightCloseRequest)
        BY <2>2 DEF LogMatchesState
  <2> QED BY <2>1, <2>2, <2>3, StartErroringStep
<1>6. CASE ~(s.pendingAbortRequest = "none" /\ s.state \in {"erroring", "writable"})
  <2>1. AbortStream(s) = s
        BY <1>6 DEF AbortStream
  <2> QED BY <2>1
<1> QED BY <1>4, <1>5, <1>6

LEMMA ErrorStep ==
    ASSUME NEW s, WritableInvariant(s), s.state = "writable"
    PROVE  /\ WritableInvariant(StartErroring(s))
           /\ StartErroring(s).state \in {"erroring", "errored"}
           /\ StartErroring(s).sizing = s.sizing
<1>1. ~Logged(s, AbortRequest) /\ (Logged(s, CloseRequest) => s.inFlightCloseRequest)
      BY DEF WritableInvariant, LogMatchesState
<1> QED BY <1>1, StartErroringStep DEF WritableInvariant

\* Enqueueing.
LEMMA EnqueueEffect ==
    ASSUME NEW s \in Slots, NEW value \in Chunks \cup {CloseRequest}, NEW size \in Nat
    PROVE  LET t == EnqueueValueWithSize(s, value, size)
           IN  /\ t \in Slots
               /\ t.keysMatch = s.keysMatch /\ t.state = s.state /\ t.started = s.started
               /\ t.writeRequests = s.writeRequests
               /\ t.inFlightWriteRequest = s.inFlightWriteRequest
               /\ t.closeRequest = s.closeRequest
               /\ t.inFlightCloseRequest = s.inFlightCloseRequest
               /\ t.pendingAbortRequest = s.pendingAbortRequest /\ t.promise = s.promise
               /\ t.sinkCalls = s.sinkCalls /\ t.sinkLog = s.sinkLog /\ t.accepted = s.accepted
               /\ t.sizing = s.sizing
               /\ Len(t.queue) = Len(s.queue) + 1 /\ t.queue # <<>>
               /\ \A k \in 1..Len(s.queue) : t.queue[k] = s.queue[k]
               /\ t.queue[Len(s.queue) + 1].value = value
<1> DEFINE pair == [value |-> value, size |-> size]
           t == [s EXCEPT !.queue = Append(@, pair)]
<1>1. EnqueueValueWithSize(s, value, size) = t
      BY DEF EnqueueValueWithSize
<1>2. pair \in [value : Chunks \cup {CloseRequest}, size : Nat] /\ pair.value = value
      OBVIOUS
<1> HIDE DEF pair
<1>3. s.queue \in Seq([value : Chunks \cup {CloseRequest}, size : Nat]) /\ Len(s.queue) \in Nat
      BY Sequences
<1>4. /\ Append(s.queue, pair) \in Seq([value : Chunks \cup {CloseRequest}, size : Nat])
      /\ Len(Append(s.queue, pair)) = Len(s.queue) + 1
      /\ \A k \in 1..Len(s.queue) : Append(s.queue, pair)[k] = s.queue[k]
      /\ Append(s.queue, pair)[Len(s.queue) + 1] = pair
      BY <1>2, <1>3, SequenceFacts
<1>5. t \in Slots /\ t.queue = Append(s.queue, pair)
  <2>1. t \in Slots
        BY <1>4, SeenFields
  <2> QED BY <2>1 DEF Slots
<1>6. /\ t.keysMatch = s.keysMatch /\ t.state = s.state /\ t.started = s.started
      /\ t.writeRequests = s.writeRequests
      /\ t.inFlightWriteRequest = s.inFlightWriteRequest
      /\ t.closeRequest = s.closeRequest
      /\ t.inFlightCloseRequest = s.inFlightCloseRequest
      /\ t.pendingAbortRequest = s.pendingAbortRequest /\ t.promise = s.promise
      /\ t.sinkCalls = s.sinkCalls /\ t.sinkLog = s.sinkLog /\ t.accepted = s.accepted
      /\ t.sizing = s.sizing
      BY DEF Slots
<1> HIDE DEF t
<1>7. t.queue # <<>>
  <2>1. Len(t.queue) # 0 /\ Len(<<>>) = 0
        BY <1>3, <1>4, <1>5
  <2> QED BY <2>1
<1> QED BY <1>1, <1>2, <1>4, <1>5, <1>6, <1>7

\* What close() does before it advances the queue.
CloseEnqueued(s) ==
    LET requested == [s EXCEPT !.closeRequest = TRUE, !.promise[CloseRequest] = "pending"]
    IN  EnqueueValueWithSize(IF s.backpressure /\ s.state = "writable"
                             THEN ReadyPromiseResolve(requested) ELSE requested,
                             CloseRequest, 0)

LEMMA CloseEnqueuedStep ==
    ASSUME NEW s, WritableInvariant(s), ~CloseQueuedOrInFlight(s),
           s.state \in {"writable", "erroring"}
    PROVE  MayAdvance(CloseEnqueued(s))
<1> DEFINE p == [s.promise EXCEPT ![CloseRequest] = "pending"]
           a == [s EXCEPT !.closeRequest = TRUE]
           b == [a EXCEPT !.promise = p]
           c == IF s.backpressure /\ s.state = "writable" THEN ReadyPromiseResolve(b) ELSE b
           t == EnqueueValueWithSize(c, CloseRequest, 0)
<1>1. s \in Slots /\ Loose(s) /\ CallsMarked(s) /\ PromisesHeld(s) /\ LogMatchesState(s)
      /\ ~s.closeRequest /\ ~s.inFlightCloseRequest
      BY DEF WritableInvariant, Loose, CloseQueuedOrInFlight
<1>2. CloseRequest \in Promises /\ s.promise \in [Promises -> PromiseStates]
      BY <1>1, SlotsFacts DEF Promises
<1>3. CloseEnqueued(s) = t
  <2>1. [s EXCEPT !.closeRequest = TRUE, !.promise[CloseRequest] = "pending"] = b
        BY <1>1 DEF Slots
  <2> HIDE DEF b
  <2> QED BY <2>1 DEF CloseEnqueued
<1>4. p \in [Promises -> PromiseStates]
      BY <1>2 DEF PromiseStates
<1>5. b \in Slots
  <2>1. a \in Slots
        BY <1>1, SeenFields
  <2> HIDE DEF a, p
  <2> QED BY <1>4, <2>1, SeenFields
<1>6. /\ b.keysMatch = s.keysMatch /\ b.state = s.state /\ b.started = s.started
      /\ b.queue = s.queue /\ b.writeRequests = s.writeRequests
      /\ b.inFlightWriteRequest = s.inFlightWriteRequest
      /\ b.closeRequest = TRUE /\ b.inFlightCloseRequest = s.inFlightCloseRequest
      /\ b.pendingAbortRequest = s.pendingAbortRequest /\ b.promise = p
      /\ b.sinkCalls = s.sinkCalls /\ b.sinkLog = s.sinkLog /\ b.accepted = s.accepted
      /\ b.sizing = s.sizing
  <2> HIDE DEF p
  <2> QED BY <1>1 DEF Slots
<1>7. \A q \in Promises : p[q] = IF q = CloseRequest THEN "pending" ELSE s.promise[q]
      BY <1>2
<1>8. p[AbortRequest] = s.promise[AbortRequest] /\ \A q \in Chunks : p[q] = s.promise[q]
      BY <1>7, Constants DEF Promises
<1> HIDE DEF b, p
<1>9. c \in Slots /\ Same(b, c)
  <2>1. Same(b, b)
        BY DEF Same
  <2> QED BY <1>5, <2>1, ReadyPromisesKeep
<1> HIDE DEF c
<1>10. /\ c.keysMatch = s.keysMatch /\ c.state = s.state /\ c.started = s.started
       /\ c.queue = s.queue /\ c.writeRequests = s.writeRequests
       /\ c.inFlightWriteRequest = s.inFlightWriteRequest
       /\ c.closeRequest = TRUE /\ c.inFlightCloseRequest = s.inFlightCloseRequest
       /\ c.pendingAbortRequest = s.pendingAbortRequest /\ c.promise = p
       /\ c.sinkCalls = s.sinkCalls /\ c.sinkLog = s.sinkLog /\ c.accepted = s.accepted
       /\ c.sizing = s.sizing
      BY <1>6, <1>9 DEF Same
<1>11. /\ t \in Slots
       /\ t.keysMatch = s.keysMatch /\ t.state = s.state /\ t.started = s.started
       /\ t.writeRequests = s.writeRequests
       /\ t.inFlightWriteRequest = s.inFlightWriteRequest
       /\ t.closeRequest = TRUE /\ t.inFlightCloseRequest = s.inFlightCloseRequest
       /\ t.pendingAbortRequest = s.pendingAbortRequest /\ t.promise = p
       /\ t.sinkCalls = s.sinkCalls /\ t.sinkLog = s.sinkLog /\ t.accepted = s.accepted
       /\ t.sizing = s.sizing
       /\ Len(t.queue) = Len(s.queue) + 1 /\ t.queue # <<>>
       /\ \A k \in 1..Len(s.queue) : t.queue[k] = s.queue[k]
       /\ t.queue[Len(s.queue) + 1].value = CloseRequest
  <2>1. CloseRequest \in Chunks \cup {CloseRequest} /\ 0 \in Nat
        OBVIOUS
  <2>2. /\ t \in Slots
        /\ t.keysMatch = c.keysMatch /\ t.state = c.state /\ t.started = c.started
        /\ t.writeRequests = c.writeRequests
        /\ t.inFlightWriteRequest = c.inFlightWriteRequest
        /\ t.closeRequest = c.closeRequest /\ t.inFlightCloseRequest = c.inFlightCloseRequest
        /\ t.pendingAbortRequest = c.pendingAbortRequest /\ t.promise = c.promise
        /\ t.sinkCalls = c.sinkCalls /\ t.sinkLog = c.sinkLog /\ t.accepted = c.accepted
        /\ t.sizing = c.sizing
        /\ Len(t.queue) = Len(c.queue) + 1 /\ t.queue # <<>>
        /\ \A k \in 1..Len(c.queue) : t.queue[k] = c.queue[k]
        /\ t.queue[Len(c.queue) + 1].value = CloseRequest
        BY <1>9, <2>1, EnqueueEffect, SMTT(30)
  <2> HIDE DEF t
  <2> QED BY <1>10, <2>2
<1> HIDE DEF t
<1>12. CallsMarked(t)
      BY <1>1, <1>11 DEF CallsMarked, InFlight
<1>13. PromisesHeld(t)
      BY <1>1, <1>8, <1>11 DEF PromisesHeld
<1>14. Loose(t)
      BY <1>1, <1>7, <1>11, <1>12, <1>13, LooseKeeps
<1>15. LogMatchesState(t)
      BY <1>1, <1>11 DEF LogMatchesState, Logged
<1>16. ASSUME s.state = "writable"
       PROVE  Matches(t)
  <2>1. /\ Len(s.queue) \in Nat /\ Len(s.writeRequests) \in Nat
        /\ DOMAIN s.writeRequests = 1..Len(s.writeRequests)
        BY <1>1, Sequences
  <2>2. Ahead(t) = Ahead(s) /\ Ahead(s) \in {0, 1}
        BY <1>11 DEF Ahead
  <2>3. Matches(s)
        BY <1>16 DEF WritableInvariant
  <2>4. Len(s.queue) = Ahead(s) + Len(s.writeRequests)
    <3>1. Len(s.queue) = Ahead(s) + Len(s.writeRequests) + 0
          BY <1>1, <2>3 DEF Matches
    <3> QED BY <2>1, <2>2, <3>1
  <2>5. Len(t.queue) = Ahead(t) + Len(t.writeRequests) + (IF t.closeRequest THEN 1 ELSE 0)
    <3>1. Len(t.queue) = Ahead(s) + Len(s.writeRequests) + 1
          BY <1>11, <2>4
    <3> QED BY <1>11, <2>2, <3>1
  <2>6. t.inFlightWriteRequest # None => t.queue[1].value = t.inFlightWriteRequest
    <3> SUFFICES ASSUME s.inFlightWriteRequest # None
                 PROVE  t.queue[1].value = s.inFlightWriteRequest
        BY <1>11
    <3>1. Ahead(s) = 1
          BY DEF Ahead
    <3>2. 1 \in 1..Len(s.queue)
          BY <2>1, <2>4, <3>1
    <3> QED BY <1>11, <2>3, <3>2 DEF Matches
  <2>7. ASSUME NEW k \in DOMAIN t.writeRequests
        PROVE  t.queue[Ahead(t) + k].value = t.writeRequests[k]
    <3>1. Ahead(s) + k \in 1..Len(s.queue)
          BY <1>11, <2>1, <2>2, <2>4
    <3> QED BY <1>11, <2>2, <2>3, <3>1, SMTT(30) DEF Matches
  <2>8. t.queue[Len(t.queue)].value = CloseRequest
        BY <1>11
  <2> QED BY <2>5, <2>6, <2>7, <2>8 DEF Matches
<1>17. MayAdvance(t)
      BY <1>1, <1>11, <1>14, <1>15, <1>16 DEF MayAdvance
<1> QED BY <1>3, <1>17

LEMMA CloseStep ==
    ASSUME NEW s, WritableInvariant(s), ~CloseQueuedOrInFlight(s),
           s.state \in {"writable", "erroring"}
    PROVE  WritableInvariant(CloseStream(s))
<1>1. CloseStream(s) = AdvanceQueueIfNeeded(CloseEnqueued(s))
      BY DEF CloseStream, ControllerClose, CloseEnqueued
<1> QED BY <1>1, CloseEnqueuedStep, AdvanceStep

\* write() asks for the size of a chunk that was not written before.
LEMMA SizingStep ==
    ASSUME NEW s, WritableInvariant(s), NEW chunk \in Chunks, s.promise[chunk] = "none"
    PROVE  WritableInvariant(Sizing(s, chunk))
<1> DEFINE a == [s EXCEPT !.sizing = chunk]
           t == [a EXCEPT !.sizingWriter = TRUE]
<1>1. s \in Slots /\ Loose(s) /\ CallsMarked(s) /\ PromisesHeld(s)
      BY DEF WritableInvariant, Loose
<1>2. Sizing(s, chunk) = t
      BY DEF Sizing
<1>3. a \in Slots
      BY <1>1, SeenFields
<1>4. /\ a.keysMatch = s.keysMatch /\ a.state = s.state /\ a.started = s.started
      /\ a.queue = s.queue /\ a.writeRequests = s.writeRequests
      /\ a.inFlightWriteRequest = s.inFlightWriteRequest
      /\ a.closeRequest = s.closeRequest /\ a.inFlightCloseRequest = s.inFlightCloseRequest
      /\ a.pendingAbortRequest = s.pendingAbortRequest /\ a.promise = s.promise
      /\ a.sinkCalls = s.sinkCalls /\ a.sinkLog = s.sinkLog /\ a.accepted = s.accepted
      /\ a.sizing = chunk
      BY <1>1 DEF Slots
<1> HIDE DEF a
<1>5. t \in Slots /\ Same(a, t)
      BY <1>3, HiddenFields
<1>6. CallsMarked(a) /\ PromisesHeld(a)
      BY <1>1, <1>4 DEF CallsMarked, PromisesHeld, InFlight
<1>7. Loose(a)
      BY <1>1, <1>3, <1>4, <1>6, LooseKeeps
<1>8. LogMatchesState(a) /\ (a.state = "writable" => Matches(a)) /\ ErroringEnds(a)
  <2>1. LogMatchesState(a)
        BY <1>4 DEF WritableInvariant, LogMatchesState, Logged
  <2>2. a.state = "writable" => Matches(a)
        BY <1>4 DEF WritableInvariant, Matches, Ahead
  <2>3. ErroringEnds(a)
        BY <1>4 DEF WritableInvariant, ErroringEnds, InFlight
  <2> QED BY <2>1, <2>2, <2>3
<1>9. WritableInvariant(a)
      BY <1>7, <1>8 DEF WritableInvariant
<1> QED BY <1>2, <1>5, <1>9, SameInvariant

\* The write ends without having become a request.
LEMMA RefusedStep ==
    ASSUME NEW s, WritableInvariant(s), s.sizing # None,
           NEW outcome \in {"rejected", "thrown"}
    PROVE  WritableInvariant([s EXCEPT !.sizing = None, !.sizingWriter = FALSE,
                                       !.promise[s.sizing] = outcome])
<1> DEFINE p == [s.promise EXCEPT ![s.sizing] = outcome]
           a == [s EXCEPT !.sizing = None]
           b == [a EXCEPT !.promise = p]
           t == [b EXCEPT !.sizingWriter = FALSE]
<1>1. s \in Slots /\ Loose(s) /\ CallsMarked(s) /\ PromisesHeld(s)
      BY DEF WritableInvariant, Loose
<1>2. s.sizing \in Chunks /\ s.sizing \in Promises /\ s.promise \in [Promises -> PromiseStates]
      BY <1>1, SlotsFacts DEF Promises
<1>3. [s EXCEPT !.sizing = None, !.sizingWriter = FALSE, !.promise[s.sizing] = outcome] = t
      BY <1>1 DEF Slots
<1>4. p \in [Promises -> PromiseStates]
      BY <1>2 DEF PromiseStates
<1>5. b \in Slots
  <2>1. a \in Slots
        BY <1>1, SeenFields
  <2> HIDE DEF a, p
  <2> QED BY <1>4, <2>1, SeenFields
<1>6. /\ b.keysMatch = s.keysMatch /\ b.state = s.state /\ b.started = s.started
      /\ b.queue = s.queue /\ b.writeRequests = s.writeRequests
      /\ b.inFlightWriteRequest = s.inFlightWriteRequest
      /\ b.closeRequest = s.closeRequest /\ b.inFlightCloseRequest = s.inFlightCloseRequest
      /\ b.pendingAbortRequest = s.pendingAbortRequest /\ b.promise = p
      /\ b.sinkCalls = s.sinkCalls /\ b.sinkLog = s.sinkLog /\ b.accepted = s.accepted
      /\ b.sizing = None
  <2> HIDE DEF p
  <2> QED BY <1>1 DEF Slots
<1>7. \A q \in Promises : p[q] = IF q = s.sizing THEN outcome ELSE s.promise[q]
      BY <1>2
<1>8. /\ p[CloseRequest] = s.promise[CloseRequest] /\ p[AbortRequest] = s.promise[AbortRequest]
      /\ \A q \in Chunks : p[q] = "pending" => s.promise[q] = "pending"
      BY <1>2, <1>7, Constants DEF Promises
<1> HIDE DEF b, p
<1>9. t \in Slots /\ Same(b, t)
      BY <1>5, HiddenFields
<1>10. CallsMarked(b) /\ PromisesHeld(b)
      BY <1>1, <1>6, <1>8 DEF CallsMarked, PromisesHeld, InFlight
<1>11. \A q \in Promises : s.promise[q] # "none" => b.promise[q] # "none"
      BY <1>6, <1>7
<1>12. Loose(b)
      BY <1>1, <1>5, <1>6, <1>10, <1>11, LooseKeeps
<1>13. LogMatchesState(b) /\ (b.state = "writable" => Matches(b)) /\ ErroringEnds(b)
  <2>1. LogMatchesState(b)
        BY <1>6 DEF WritableInvariant, LogMatchesState, Logged
  <2>2. b.state = "writable" => Matches(b)
        BY <1>6 DEF WritableInvariant, Matches, Ahead
  <2>3. ErroringEnds(b)
        BY <1>6 DEF WritableInvariant, ErroringEnds, InFlight
  <2> QED BY <2>1, <2>2, <2>3
<1>14. WritableInvariant(b)
      BY <1>12, <1>13 DEF WritableInvariant
<1> QED BY <1>3, <1>9, <1>14, SameInvariant

\* The write that size() was called for becomes the last of the requests.
LEMMA RequestedStep ==
    ASSUME NEW s, WritableInvariant(s), s.sizing # None, ~CloseQueuedOrInFlight(s),
           s.state = "writable"
    PROVE  LET t == AddWriteRequest([s EXCEPT !.sizing = None, !.sizingWriter = FALSE], s.sizing)
           IN  /\ Loose(t)
               /\ t.state = s.state /\ t.started = s.started /\ t.queue = s.queue
               /\ t.writeRequests = Append(s.writeRequests, s.sizing)
               /\ t.inFlightWriteRequest = s.inFlightWriteRequest
               /\ t.closeRequest = s.closeRequest
               /\ t.inFlightCloseRequest = s.inFlightCloseRequest
               /\ t.pendingAbortRequest = s.pendingAbortRequest
               /\ t.sinkLog = s.sinkLog /\ t.sizing = None
<1> DEFINE p == [s.promise EXCEPT ![s.sizing] = "pending"]
           requests == Append(s.writeRequests, s.sizing)
           a == [s EXCEPT !.sizing = None]
           b == [a EXCEPT !.promise = p]
           c == [b EXCEPT !.writeRequests = requests]
           d == [c EXCEPT !.accepted = Append(@, s.sizing)]
           t == [d EXCEPT !.sizingWriter = FALSE]
<1>1. /\ s \in Slots /\ Loose(s) /\ CallsMarked(s) /\ PromisesHeld(s) /\ ChunksOnce(s)
      /\ LogInOrder(s) /\ ~s.inFlightCloseRequest
      BY DEF WritableInvariant, Loose, CloseQueuedOrInFlight
<1>2. s.sizing \in Chunks /\ s.sizing \in Promises /\ s.promise \in [Promises -> PromiseStates]
      BY <1>1, SlotsFacts DEF Promises
<1>3. AddWriteRequest([s EXCEPT !.sizing = None, !.sizingWriter = FALSE], s.sizing) = t
      BY <1>1 DEF AddWriteRequest, Slots
<1>4. p \in [Promises -> PromiseStates]
      BY <1>2 DEF PromiseStates
<1>5. /\ requests \in Seq(Chunks) /\ Len(s.writeRequests) \in Nat
      /\ Len(requests) = Len(s.writeRequests) + 1
      /\ DOMAIN s.writeRequests = 1..Len(s.writeRequests)
      /\ DOMAIN requests = 1..(Len(s.writeRequests) + 1)
      /\ \A k \in 1..Len(s.writeRequests) :
            requests[k] = s.writeRequests[k] /\ s.writeRequests[k] \in Chunks
      /\ requests[Len(s.writeRequests) + 1] = s.sizing
  <2>1. s.writeRequests \in Seq(Chunks)
        BY <1>1, Sequences
  <2>2. requests \in Seq(Chunks)
        BY <1>2, <2>1, SequenceFacts
  <2> QED BY <1>2, <2>1, <2>2, SequenceFacts
<1>6. c \in Slots
  <2>1. a \in Slots
        BY <1>1, SeenFields
  <2>2. b \in Slots
    <3> HIDE DEF a, p
    <3> QED BY <1>4, <2>1, SeenFields
  <2> HIDE DEF b, requests
  <2> QED BY <1>5, <2>2, SeenFields
<1>7. /\ c.keysMatch = s.keysMatch /\ c.state = s.state /\ c.started = s.started
      /\ c.queue = s.queue /\ c.writeRequests = requests
      /\ c.inFlightWriteRequest = s.inFlightWriteRequest
      /\ c.closeRequest = s.closeRequest /\ c.inFlightCloseRequest = s.inFlightCloseRequest
      /\ c.pendingAbortRequest = s.pendingAbortRequest /\ c.promise = p
      /\ c.sinkCalls = s.sinkCalls /\ c.sinkLog = s.sinkLog /\ c.accepted = s.accepted
      /\ c.sizing = None
  <2> HIDE DEF p, requests
  <2> QED BY <1>1 DEF Slots
<1>8. \A q \in Promises : p[q] = IF q = s.sizing THEN "pending" ELSE s.promise[q]
      BY <1>2
<1> HIDE DEF c, p, requests
<1>16. s.accepted \in Seq(Chunks) /\ Append(s.accepted, s.sizing) \in Seq(Chunks)
      BY <1>1, <1>2, SlotsFacts
<1>17. d \in Slots
      BY <1>6, <1>7, <1>16, SeenFields
<1>18. /\ d.keysMatch = c.keysMatch /\ d.state = c.state /\ d.started = c.started
       /\ d.queue = c.queue /\ d.writeRequests = c.writeRequests
       /\ d.inFlightWriteRequest = c.inFlightWriteRequest
       /\ d.closeRequest = c.closeRequest /\ d.inFlightCloseRequest = c.inFlightCloseRequest
       /\ d.pendingAbortRequest = c.pendingAbortRequest /\ d.promise = c.promise
       /\ d.sinkCalls = c.sinkCalls /\ d.sinkLog = c.sinkLog
       /\ d.accepted = Append(s.accepted, s.sizing) /\ d.sizing = c.sizing
      BY <1>6, <1>7 DEF Slots
<1> HIDE DEF d
<1>9. t \in Slots /\ Same(d, t)
      BY <1>17, HiddenFields
<1>10. CallsMarked(c)
      BY <1>1, <1>7 DEF CallsMarked, InFlight
<1>11. PromisesHeld(c)
  <2>1. \A q \in Chunks : Contains(s.writeRequests, q) => Contains(requests, q)
    <3> SUFFICES ASSUME NEW q \in Chunks, Contains(s.writeRequests, q)
                 PROVE  Contains(requests, q)
        OBVIOUS
    <3>1. PICK k \in 1..Len(s.writeRequests) : s.writeRequests[k] = q
          BY DEF Contains
    <3>2. k \in 1..Len(requests) /\ requests[k] = q
          BY <1>5, <3>1
    <3> QED BY <3>2 DEF Contains
  <2>2. Contains(requests, s.sizing)
    <3>1. Len(s.writeRequests) + 1 \in 1..Len(requests)
          BY <1>5
    <3> QED BY <1>5, <3>1 DEF Contains
  <2>3. p[CloseRequest] = s.promise[CloseRequest] /\ p[AbortRequest] = s.promise[AbortRequest]
        BY <1>2, <1>8, Constants DEF Promises
  <2>4. \A q \in Chunks : q = s.sizing \/ p[q] = s.promise[q]
        BY <1>8 DEF Promises
  <2> QED BY <1>1, <1>7, <2>1, <2>2, <2>3, <2>4 DEF PromisesHeld
<1>12. ChunksOnce(c)
  <2>1. s.sizing # None
        OBVIOUS
  <2>2. \A q \in Chunks : q # None /\ q \in Promises
        BY Constants DEF Promises
  <2>3. \A q \in Promises : s.promise[q] # "none" => p[q] # "none"
        BY <1>8
  <2>4. p[s.sizing] # "none"
        BY <1>2, <1>8
  <2>5. \A i \in DOMAIN c.sinkLog :
            c.sinkLog[i] \in Chunks => c.promise[c.sinkLog[i]] # "none" /\ c.sinkLog[i] # c.sizing
        BY <1>1, <1>7, <2>2, <2>3 DEF ChunksOnce
  <2>6. \A i \in DOMAIN s.sinkLog : s.sinkLog[i] # s.sizing
        BY <1>1, <1>2 DEF ChunksOnce
  <2>7. \A k \in DOMAIN s.writeRequests :
            /\ p[s.writeRequests[k]] # "none" /\ s.writeRequests[k] # None
            /\ s.writeRequests[k] # s.sizing
            /\ \A i \in DOMAIN s.sinkLog : s.sinkLog[i] # s.writeRequests[k]
        BY <1>1, <1>5, <2>2, <2>3 DEF ChunksOnce
  <2>8. \A k \in DOMAIN requests : k \in DOMAIN s.writeRequests \/ k = Len(s.writeRequests) + 1
        BY <1>5
  <2>9. \A k \in DOMAIN requests :
            \/ k \in DOMAIN s.writeRequests /\ requests[k] = s.writeRequests[k]
            \/ requests[k] = s.sizing
        BY <1>5, <2>8
  <2>10. \A k \in DOMAIN c.writeRequests :
            /\ c.promise[c.writeRequests[k]] # "none" /\ c.writeRequests[k] # c.sizing
            /\ \A i \in DOMAIN c.sinkLog : c.sinkLog[i] # c.writeRequests[k]
        BY <1>7, <2>1, <2>4, <2>6, <2>7, <2>9
  <2>11. ASSUME NEW k \in DOMAIN requests, NEW l \in DOMAIN requests, requests[k] = requests[l]
         PROVE  k = l
    <3>1. \A i, j \in DOMAIN s.writeRequests : s.writeRequests[i] = s.writeRequests[j] => i = j
          BY <1>1 DEF ChunksOnce
    <3> QED BY <1>5, <2>7, <2>8, <2>11, <3>1
  <2> QED BY <1>7, <2>5, <2>10, <2>11 DEF ChunksOnce
<1>13. LogInOrder(c)
      BY <1>1, <1>7 DEF LogInOrder
<1>19. InLine(d)
  <2> DEFINE n == Len(s.sinkLog)
  <2>1. /\ InLine(s) /\ ~Logged(s, CloseRequest) /\ n \in Nat /\ s.writeRequests \in Seq(Chunks)
        BY <1>1, Sequences DEF Loose, WritableInvariant, LogMatchesState
  <2>2. WaitsAfter(n, s.accepted, s.writeRequests)
        BY <2>1 DEF InLine
  <2> HIDE DEF n
  <2>3. WaitsAfter(n, d.accepted, requests)
        BY <1>2, <1>16, <1>18, <2>1, <2>2, AcceptedLast DEF requests
  <2>4. ASSUME NEW i \in DOMAIN s.sinkLog, s.sinkLog[i] \in Chunks
        PROVE  i \in DOMAIN d.accepted /\ s.sinkLog[i] = d.accepted[i]
    <3>1. i \in DOMAIN s.accepted /\ s.sinkLog[i] = s.accepted[i]
          BY <2>1, <2>4 DEF InLine
    <3>2. i \in DOMAIN d.accepted /\ d.accepted[i] = s.accepted[i]
          BY <1>2, <1>16, <1>18, <3>1, SequenceFacts
    <3> QED BY <3>1, <3>2
  <2>5. d.sinkLog = s.sinkLog /\ d.writeRequests = requests
        BY <1>7, <1>18
  <2> QED BY <2>3, <2>4, <2>5 DEF InLine, n
<1>14. Loose(d)
  <2>1. CallsMarked(d) /\ PromisesHeld(d) /\ ChunksOnce(d) /\ LogInOrder(d)
        BY <1>10, <1>11, <1>12, <1>13, <1>18
           DEF CallsMarked, InFlight, PromisesHeld, ChunksOnce, LogInOrder
  <2> QED BY <1>17, <1>19, <2>1 DEF Loose
<1>15. Loose(t)
      BY <1>9, <1>14, SameInvariant
<1> HIDE DEF t
<1> QED BY <1>3, <1>7, <1>9, <1>15, <1>18 DEF Same, requests

\* size() has returned, whatever it returned.
\* A write that is accepted, and what it does before it advances the queue.
Accepts(s, size) ==
    /\ s.sizingWriter /\ s.state = "writable" /\ ~CloseQueuedOrInFlight(s)
    /\ size \in Sizes

WriteRequested(s) ==
    AddWriteRequest([s EXCEPT !.sizing = None, !.sizingWriter = FALSE], s.sizing)

WriteEnqueued(s, size) == EnqueueValueWithSize(WriteRequested(s), s.sizing, size)

LEMMA WriteSizedStep ==
    ASSUME NEW s, WritableInvariant(s), s.sizing # None, NEW size
    PROVE  /\ WritableInvariant(WriteSized(s, size))
           /\ Accepts(s, size) => MayAdvance(UpdateBackpressure(WriteEnqueued(s, size)))
<1> DEFINE returned == [s EXCEPT !.sizing = None, !.sizingWriter = FALSE]
           refused == \/ ~s.sizingWriter
                      \/ s.state # "writable"
                      \/ CloseQueuedOrInFlight(s)
           requested == AddWriteRequest(returned, s.sizing)
<1>1. s \in Slots /\ Loose(s) /\ LogMatchesState(s)
      BY DEF WritableInvariant, Loose
<1>2. CASE refused
  <2>1. WriteSized(s, size) = [returned EXCEPT !.promise[s.sizing] = "rejected"]
        BY <1>2 DEF WriteSized
  <2>2. [returned EXCEPT !.promise[s.sizing] = "rejected"] =
            [s EXCEPT !.sizing = None, !.sizingWriter = FALSE, !.promise[s.sizing] = "rejected"]
        BY <1>1 DEF Slots
  <2>3. ~Accepts(s, size)
        BY <1>2 DEF Accepts
  <2> HIDE DEF returned
  <2> QED BY <2>1, <2>2, <2>3, RefusedStep
<1>3. ASSUME ~refused
      PROVE  /\ Loose(requested)
             /\ requested.state = "writable" /\ requested.started = s.started
             /\ requested.queue = s.queue
             /\ requested.writeRequests = Append(s.writeRequests, s.sizing)
             /\ requested.inFlightWriteRequest = s.inFlightWriteRequest
             /\ ~requested.closeRequest /\ ~requested.inFlightCloseRequest
             /\ requested.sinkLog = s.sinkLog
             /\ LogMatchesState(requested)
  <2>1. s.state = "writable" /\ ~s.closeRequest /\ ~s.inFlightCloseRequest
        BY <1>3 DEF CloseQueuedOrInFlight
  <2>2. /\ Loose(requested)
        /\ requested.state = s.state /\ requested.started = s.started
        /\ requested.queue = s.queue
        /\ requested.writeRequests = Append(s.writeRequests, s.sizing)
        /\ requested.inFlightWriteRequest = s.inFlightWriteRequest
        /\ requested.closeRequest = s.closeRequest
        /\ requested.inFlightCloseRequest = s.inFlightCloseRequest
        /\ requested.sinkLog = s.sinkLog
        BY <1>3, RequestedStep
  <2> HIDE DEF requested
  <2>3. LogMatchesState(requested)
        BY <1>1, <2>1, <2>2 DEF LogMatchesState, Logged
  <2> QED BY <2>1, <2>2, <2>3
<1> HIDE DEF requested
<1>4. CASE ~refused /\ size \notin Sizes
  <2>1. WriteSized(s, size) = StartErroring(requested)
        BY <1>4 DEF WriteSized, requested
  <2>2. ~Logged(requested, AbortRequest) /\ ~Logged(requested, CloseRequest)
        BY <1>3, <1>4 DEF LogMatchesState
  <2>3. ~Accepts(s, size)
        BY <1>4 DEF Accepts
  <2> QED BY <1>3, <1>4, <2>1, <2>2, <2>3, StartErroringStep
<1>5. CASE ~refused /\ size \in Sizes
  <2> DEFINE u == EnqueueValueWithSize(requested, s.sizing, size)
             v == UpdateBackpressure(u)
  <2>1. /\ WriteSized(s, size) = AdvanceQueueIfNeeded(v)
        /\ u = WriteEnqueued(s, size)
    <3>1. WriteSized(s, size) = AdvanceQueueIfNeeded(v)
          BY <1>5 DEF WriteSized, requested
    <3> QED BY <3>1 DEF WriteEnqueued, WriteRequested, requested
  <2>2. requested \in Slots /\ s.sizing \in Chunks /\ size \in Nat
        BY <1>1, <1>3, <1>5, SlotsFacts, WritableStreamAssumption DEF Loose
  <2>3. /\ u \in Slots
        /\ u.keysMatch = requested.keysMatch /\ u.state = requested.state
        /\ u.started = requested.started
        /\ u.writeRequests = requested.writeRequests
        /\ u.inFlightWriteRequest = requested.inFlightWriteRequest
        /\ u.closeRequest = requested.closeRequest
        /\ u.inFlightCloseRequest = requested.inFlightCloseRequest
        /\ u.pendingAbortRequest = requested.pendingAbortRequest
        /\ u.promise = requested.promise
        /\ u.sinkCalls = requested.sinkCalls /\ u.sinkLog = requested.sinkLog
        /\ u.accepted = requested.accepted
        /\ u.sizing = requested.sizing
        /\ Len(u.queue) = Len(requested.queue) + 1 /\ u.queue # <<>>
        /\ \A k \in 1..Len(requested.queue) : u.queue[k] = requested.queue[k]
        /\ u.queue[Len(requested.queue) + 1].value = s.sizing
    <3>1. s.sizing \in Chunks \cup {CloseRequest}
          BY <2>2
    <3> QED BY <2>2, <3>1, EnqueueEffect
  <2> HIDE DEF u
  <2>4. CallsMarked(u)
        BY <1>3, <1>5, <2>3 DEF Loose, CallsMarked, InFlight
  <2>5. Loose(u)
    <3>1. PromisesHeld(u)
          BY <1>3, <1>5, <2>3 DEF Loose, PromisesHeld
    <3>2. Loose(requested)
          BY <1>3, <1>5
    <3> QED BY <2>3, <2>4, <3>1, <3>2, LooseKeeps
  <2>6. LogMatchesState(u)
        BY <1>3, <1>5, <2>3 DEF LogMatchesState, Logged
  <2>7. Matches(u)
    <3>1. /\ Len(s.queue) \in Nat /\ Len(s.writeRequests) \in Nat
          /\ s.writeRequests \in Seq(Chunks)
          /\ DOMAIN s.writeRequests = 1..Len(s.writeRequests)
          BY <1>1, Sequences
    <3>2. Ahead(u) = Ahead(s) /\ Ahead(s) \in {0, 1}
          BY <1>3, <1>5, <2>3 DEF Ahead
    <3>3. Matches(s) /\ ~s.closeRequest
          BY <1>5 DEF WritableInvariant, CloseQueuedOrInFlight
    <3>4. Len(s.queue) = Ahead(s) + Len(s.writeRequests)
      <4>1. Len(s.queue) = Ahead(s) + Len(s.writeRequests) + 0
            BY <3>3 DEF Matches
      <4> QED BY <3>1, <3>2, <4>1
    <3>5. /\ u.writeRequests = Append(s.writeRequests, s.sizing)
          /\ Len(u.writeRequests) = Len(s.writeRequests) + 1
          /\ DOMAIN u.writeRequests = 1..(Len(s.writeRequests) + 1)
          /\ \A k \in 1..Len(s.writeRequests) : u.writeRequests[k] = s.writeRequests[k]
          /\ u.writeRequests[Len(s.writeRequests) + 1] = s.sizing
      <4>1. u.writeRequests = Append(s.writeRequests, s.sizing)
            BY <1>3, <1>5, <2>3
      <4> QED BY <2>2, <3>1, <4>1
    <3>6. /\ Len(u.queue) = Len(s.queue) + 1
          /\ \A k \in 1..Len(s.queue) : u.queue[k] = s.queue[k]
          /\ u.queue[Len(s.queue) + 1].value = s.sizing
          /\ ~u.closeRequest /\ u.inFlightWriteRequest = s.inFlightWriteRequest
          BY <1>3, <1>5, <2>3
    <3>7. Len(u.queue) = Ahead(u) + Len(u.writeRequests) + (IF u.closeRequest THEN 1 ELSE 0)
      <4>1. Len(u.queue) = Ahead(s) + (Len(s.writeRequests) + 1) + 0
            BY <3>1, <3>2, <3>4, <3>6
      <4> QED BY <3>2, <3>5, <3>6, <4>1
    <3>8. u.inFlightWriteRequest # None => u.queue[1].value = u.inFlightWriteRequest
      <4> SUFFICES ASSUME s.inFlightWriteRequest # None
                   PROVE  u.queue[1].value = s.inFlightWriteRequest
          BY <3>6
      <4>1. Ahead(s) = 1
            BY DEF Ahead
      <4>2. 1 \in 1..Len(s.queue)
            BY <3>1, <3>4, <4>1
      <4> QED BY <3>3, <3>6, <4>2 DEF Matches
    <3>9. ASSUME NEW k \in DOMAIN u.writeRequests
          PROVE  u.queue[Ahead(u) + k].value = u.writeRequests[k]
      <4>1. CASE k = Len(s.writeRequests) + 1
        <5>1. Ahead(s) + k = Len(s.queue) + 1
              BY <3>1, <3>2, <3>4, <4>1
        <5> QED BY <3>2, <3>5, <3>6, <4>1, <5>1
      <4>2. CASE k \in 1..Len(s.writeRequests)
        <5>1. Ahead(s) + k \in 1..Len(s.queue)
              BY <3>1, <3>2, <3>4, <4>2
        <5>2. s.queue[Ahead(s) + k].value = s.writeRequests[k]
              BY <3>1, <3>3, <4>2 DEF Matches
        <5> QED BY <3>2, <3>5, <3>6, <4>2, <5>1, <5>2
      <4> QED BY <3>1, <3>5, <4>1, <4>2
    <3> QED BY <3>6, <3>7, <3>8, <3>9 DEF Matches
  <2>8. WritableInvariant(u)
        BY <1>3, <1>5, <2>3, <2>5, <2>6, <2>7 DEF WritableInvariant, ErroringEnds
  <2>9. v \in Slots /\ Same(u, v)
        BY <2>3, UpdateBackpressureKeeps
  <2> HIDE DEF v
  <2>10. WritableInvariant(v)
        BY <2>8, <2>9, SameInvariant
  <2>11. MayAdvance(v)
    <3>1. v.state = "writable"
          BY <1>3, <1>5, <2>3, <2>9 DEF Same
    <3> QED BY <2>10, <3>1 DEF WritableInvariant, MayAdvance
  <2>12. MayAdvance(UpdateBackpressure(WriteEnqueued(s, size)))
        BY <2>1, <2>11 DEF v
  <2> QED BY <2>1, <2>11, <2>12, AdvanceStep
<1> QED BY <1>2, <1>4, <1>5

LEMMA SizeThrewStep ==
    ASSUME NEW s, WritableInvariant(s), s.sizing # None
    PROVE  WritableInvariant(SizeThrew(s))
<1> DEFINE errored == ErrorIfNeeded(s)
<1>1. WritableInvariant(errored) /\ errored.sizing = s.sizing
      BY ErrorStep DEF ErrorIfNeeded
<1> HIDE DEF errored
<1>2. WritableInvariant(WriteSized(errored, 1))
      BY <1>1, WriteSizedStep
<1>3. WritableInvariant([errored EXCEPT !.sizing = None, !.sizingWriter = FALSE,
                                        !.promise[errored.sizing] = "thrown"])
      BY <1>1, RefusedStep
<1> QED BY <1>1, <1>2, <1>3 DEF errored, SizeThrew

-----------------------------------------------------------------------------
(* The reactions to the promises of the sink.                                 *)

LEMMA SettledEffect ==
    ASSUME NEW s \in Slots, NEW call
    PROVE  LET t == Settled(s, call)
           IN  /\ t \in Slots
               /\ t.keysMatch = s.keysMatch /\ t.state = s.state /\ t.started = s.started
               /\ t.queue = s.queue /\ t.writeRequests = s.writeRequests
               /\ t.inFlightWriteRequest = s.inFlightWriteRequest
               /\ t.closeRequest = s.closeRequest
               /\ t.inFlightCloseRequest = s.inFlightCloseRequest
               /\ t.pendingAbortRequest = s.pendingAbortRequest /\ t.promise = s.promise
               /\ t.sinkCalls = s.sinkCalls \ {call} /\ t.sinkLog = s.sinkLog
               /\ t.accepted = s.accepted
               /\ t.sizing = s.sizing
<1>1. s.sinkCalls \ {call} \in SUBSET SinkCalls
      BY SlotsFacts
<1> DEFINE calls == s.sinkCalls \ {call}
           t == [s EXCEPT !.sinkCalls = calls]
<1>2. Settled(s, call) = t
      BY DEF Settled
<1> HIDE DEF calls
<1>3. t \in Slots
      BY <1>1, SeenFields DEF calls
<1>4. /\ t.keysMatch = s.keysMatch /\ t.state = s.state /\ t.started = s.started
      /\ t.queue = s.queue /\ t.writeRequests = s.writeRequests
      /\ t.inFlightWriteRequest = s.inFlightWriteRequest
      /\ t.closeRequest = s.closeRequest
      /\ t.inFlightCloseRequest = s.inFlightCloseRequest
      /\ t.pendingAbortRequest = s.pendingAbortRequest /\ t.promise = s.promise
      /\ t.sinkCalls = calls /\ t.sinkLog = s.sinkLog /\ t.accepted = s.accepted
      /\ t.sizing = s.sizing
      BY DEF Slots
<1> HIDE DEF t
<1> QED BY <1>2, <1>3, <1>4 DEF calls

\* Where the keys do not match the call has settled, and that is all.
LEMMA SettledStep ==
    ASSUME NEW s, WritableInvariant(s), NEW call \in {"write", "close", "abort"},
           ~s.keysMatch
    PROVE  WritableInvariant(Settled(s, call))
<1> DEFINE t == Settled(s, call)
<1>1. s \in Slots /\ Loose(s) /\ CallsMarked(s)
      BY DEF WritableInvariant, Loose
<1>2. /\ t \in Slots
      /\ t.keysMatch = s.keysMatch /\ t.state = s.state /\ t.started = s.started
      /\ t.queue = s.queue /\ t.writeRequests = s.writeRequests
      /\ t.inFlightWriteRequest = s.inFlightWriteRequest
      /\ t.closeRequest = s.closeRequest
      /\ t.inFlightCloseRequest = s.inFlightCloseRequest
      /\ t.pendingAbortRequest = s.pendingAbortRequest /\ t.promise = s.promise
      /\ t.sinkCalls = s.sinkCalls \ {call} /\ t.sinkLog = s.sinkLog /\ t.accepted = s.accepted
      /\ t.sizing = s.sizing
      BY <1>1, SettledEffect
<1> HIDE DEF t
<1>3. CallsMarked(t)
  <2>1. s.sinkCalls = {"start"} => s.sinkCalls \ {call} = {"start"}
        OBVIOUS
  <2> QED BY <1>1, <1>2, <2>1 DEF CallsMarked, InFlight
<1>4. PromisesHeld(t)
      BY <1>2 DEF PromisesHeld
<1>5. Loose(t)
      BY <1>1, <1>2, <1>3, <1>4, LooseKeeps
<1>6. LogMatchesState(t)
      BY <1>2 DEF WritableInvariant, LogMatchesState, Logged
<1>7. t.state = "writable" => Matches(t)
      BY <1>2 DEF WritableInvariant, Matches, Ahead
<1>8. ErroringEnds(t)
      BY <1>2 DEF ErroringEnds
<1>9. WritableInvariant(t)
      BY <1>5, <1>6, <1>7, <1>8 DEF WritableInvariant
<1> QED BY <1>9 DEF t

LEMMA StartStep ==
    ASSUME NEW s, WritableInvariant(s), "start" \in s.sinkCalls
    PROVE  /\ WritableInvariant(FinishStart(s)) /\ WritableInvariant(FailStart(s))
           /\ MayAdvance(MarkStarted(s)) /\ MayFinish(MarkStarted(s))
<1> DEFINE a == Settled(s, "start")
           b == Asserted(a, "not finished", s.state \in {"writable", "erroring"})
           t == [b EXCEPT !.started = TRUE]
<1>1. s \in Slots /\ Loose(s) /\ CallsMarked(s) /\ PromisesHeld(s)
      BY DEF WritableInvariant, Loose
<1>2. /\ ~s.started /\ s.sinkCalls = {"start"} /\ s.sinkLog = <<>>
      /\ s.state \in {"writable", "erroring"} /\ ~InFlight(s)
      BY <1>1 DEF CallsMarked
<1>3. MarkStarted(s) = t
      BY DEF MarkStarted
<1>4. /\ a \in Slots
      /\ a.keysMatch = s.keysMatch /\ a.state = s.state /\ a.started = s.started
      /\ a.queue = s.queue /\ a.writeRequests = s.writeRequests
      /\ a.inFlightWriteRequest = s.inFlightWriteRequest
      /\ a.closeRequest = s.closeRequest
      /\ a.inFlightCloseRequest = s.inFlightCloseRequest
      /\ a.pendingAbortRequest = s.pendingAbortRequest /\ a.promise = s.promise
      /\ a.sinkCalls = s.sinkCalls \ {"start"} /\ a.sinkLog = s.sinkLog /\ a.accepted = s.accepted
      /\ a.sizing = s.sizing
      BY <1>1, SettledEffect
<1> HIDE DEF a
<1>5. b = a
      BY <1>2 DEF Asserted
<1> HIDE DEF b
<1>6. /\ t \in Slots
      /\ t.keysMatch = s.keysMatch /\ t.state = s.state /\ t.started = TRUE
      /\ t.queue = s.queue /\ t.writeRequests = s.writeRequests
      /\ t.inFlightWriteRequest = s.inFlightWriteRequest
      /\ t.closeRequest = s.closeRequest
      /\ t.inFlightCloseRequest = s.inFlightCloseRequest
      /\ t.pendingAbortRequest = s.pendingAbortRequest /\ t.promise = s.promise
      /\ t.sinkCalls = {} /\ t.sinkLog = s.sinkLog /\ t.accepted = s.accepted
      /\ t.sizing = s.sizing
  <2>1. t \in Slots
        BY <1>4, <1>5, SeenFields
  <2>2. s.sinkCalls \ {"start"} = {}
        BY <1>2
  <2> QED BY <1>4, <1>5, <2>1, <2>2, ZenonT(40) DEF Slots
<1> HIDE DEF t
<1>7. CallsMarked(t)
      BY <1>1, <1>2, <1>6 DEF CallsMarked, InFlight
<1>8. PromisesHeld(t)
      BY <1>1, <1>2, <1>6 DEF PromisesHeld
<1>9. Loose(t)
      BY <1>1, <1>6, <1>7, <1>8, LooseKeeps
<1>10. ~Logged(t, CloseRequest) /\ ~Logged(t, AbortRequest) /\ ~InFlight(t)
       /\ t.state \in {"writable", "erroring"}
      BY <1>2, <1>6 DEF Logged, InFlight
<1>11. t.state = "writable" => Matches(t)
  <2>1. s.state = "writable" => Matches(s)
        BY DEF WritableInvariant
  <2>2. Matches(s) => Matches(t)
    <3>1. /\ t.queue = s.queue /\ t.writeRequests = s.writeRequests
          /\ t.inFlightWriteRequest = s.inFlightWriteRequest
          /\ t.closeRequest = s.closeRequest
          BY <1>6
    <3> QED BY ONLY <3>1 DEF Matches, Ahead
  <2> QED BY <1>6, <2>1, <2>2
<1>12. MayAdvance(t)
      BY <1>9, <1>10, <1>11 DEF MayAdvance, LogMatchesState, InFlight
<1>13. MayFinish(t)
      BY <1>6, <1>9, <1>10 DEF MayFinish
<1> QED BY <1>3, <1>10, <1>12, <1>13, AdvanceStep, DealWithRejectionStep
        DEF FinishStart, FailStart

\* The write in flight has settled; the chunk may leave the queue.
LEMMA WriteEndsEffect ==
    ASSUME NEW s, WritableInvariant(s), "write" \in s.sinkCalls, s.keysMatch,
           NEW outcome \in {"fulfilled", "rejected"},
           NEW queue \in {s.queue, Tail(s.queue)}
    PROVE  LET t == [Settled(s, "write") EXCEPT
                        !.promise[s.inFlightWriteRequest] = outcome,
                        !.inFlightWriteRequest = None,
                        !.queue = queue]
           IN  /\ Loose(t) /\ LogMatchesState(t)
               /\ t.keysMatch = s.keysMatch /\ t.state = s.state
               /\ t.state \in {"writable", "erroring"} /\ t.started
               /\ t.queue = queue /\ t.writeRequests = s.writeRequests
               /\ t.inFlightWriteRequest = None
               /\ t.closeRequest = s.closeRequest
               /\ ~t.inFlightCloseRequest
<1> DEFINE p == [s.promise EXCEPT ![s.inFlightWriteRequest] = outcome]
           a == Settled(s, "write")
           b == [a EXCEPT !.promise = p]
           c == [b EXCEPT !.inFlightWriteRequest = None]
           t == [c EXCEPT !.queue = queue]
<1>1. s \in Slots /\ Loose(s) /\ CallsMarked(s) /\ PromisesHeld(s) /\ LogMatchesState(s)
      BY DEF WritableInvariant, Loose
<1>2. /\ s.inFlightWriteRequest # None /\ s.queue # <<>> /\ ~s.inFlightCloseRequest
      /\ s.state \in {"writable", "erroring"} /\ s.started
      BY <1>1 DEF CallsMarked, InFlight
<1>3. /\ s.inFlightWriteRequest \in Chunks /\ s.inFlightWriteRequest \in Promises
      /\ s.promise \in [Promises -> PromiseStates]
      BY <1>1, <1>2, SlotsFacts DEF Promises
<1>4. /\ a \in Slots
      /\ a.keysMatch = s.keysMatch /\ a.state = s.state /\ a.started = s.started
      /\ a.queue = s.queue /\ a.writeRequests = s.writeRequests
      /\ a.inFlightWriteRequest = s.inFlightWriteRequest
      /\ a.closeRequest = s.closeRequest
      /\ a.inFlightCloseRequest = s.inFlightCloseRequest
      /\ a.pendingAbortRequest = s.pendingAbortRequest /\ a.promise = s.promise
      /\ a.sinkCalls = s.sinkCalls \ {"write"} /\ a.sinkLog = s.sinkLog
      /\ a.accepted = s.accepted
      /\ a.sizing = s.sizing
  <2>1. s \in Slots
        BY <1>1
  <2> QED BY <2>1, SettledEffect
<1> HIDE DEF a
<1>5. [a EXCEPT !.promise[s.inFlightWriteRequest] = outcome,
                !.inFlightWriteRequest = None, !.queue = queue] = t
      BY <1>4 DEF Slots
<1>6. queue \in Seq([value : Chunks \cup {CloseRequest}, size : Nat])
  <2>1. s.queue \in Seq([value : Chunks \cup {CloseRequest}, size : Nat])
        BY <1>1, Sequences
  <2>2. Tail(s.queue) \in Seq([value : Chunks \cup {CloseRequest}, size : Nat])
        BY <1>2, <2>1, SequenceFacts
  <2> QED BY <2>1, <2>2
<1>7. p \in [Promises -> PromiseStates]
      BY <1>3 DEF PromiseStates
<1>8. t \in Slots
  <2>1. b \in Slots
    <3> HIDE DEF p
    <3> QED BY <1>4, <1>7, SeenFields
  <2>2. c \in Slots
    <3> HIDE DEF b
    <3> QED BY <2>1, SeenFields
  <2> HIDE DEF c
  <2> QED BY <1>6, <2>2, SeenFields
<1>9. /\ t.keysMatch = s.keysMatch /\ t.state = s.state /\ t.started = s.started
      /\ t.queue = queue /\ t.writeRequests = s.writeRequests
      /\ t.inFlightWriteRequest = None
      /\ t.closeRequest = s.closeRequest
      /\ t.inFlightCloseRequest = s.inFlightCloseRequest
      /\ t.pendingAbortRequest = s.pendingAbortRequest /\ t.promise = p
      /\ t.sinkCalls = s.sinkCalls \ {"write"} /\ t.sinkLog = s.sinkLog /\ t.accepted = s.accepted
      /\ t.sizing = s.sizing
  <2> HIDE DEF p
  <2> QED BY <1>4 DEF Slots
<1>10. \A q \in Promises : p[q] = IF q = s.inFlightWriteRequest THEN outcome ELSE s.promise[q]
      BY <1>3
<1>11. /\ p[CloseRequest] = s.promise[CloseRequest] /\ p[AbortRequest] = s.promise[AbortRequest]
       /\ \A q \in Chunks : p[q] = "pending" =>
             q # s.inFlightWriteRequest /\ s.promise[q] = "pending"
      BY <1>3, <1>10, Constants DEF Promises
<1> HIDE DEF t, p
<1>12. CallsMarked(t)
      BY <1>1, <1>2, <1>9 DEF CallsMarked, InFlight
<1>13. PromisesHeld(t)
      BY <1>1, <1>9, <1>11 DEF PromisesHeld
<1>14. \A q \in Promises : s.promise[q] # "none" => t.promise[q] # "none"
      BY <1>9, <1>10
<1>15. Loose(t)
      BY <1>1, <1>8, <1>9, <1>12, <1>13, <1>14, LooseKeeps
<1>16. LogMatchesState(t)
      BY <1>1, <1>9 DEF LogMatchesState, Logged
<1> QED BY <1>2, <1>5, <1>9, <1>15, <1>16 DEF a

\* What the end of a write does before it advances the queue.
WriteEnded(s) ==
    [Settled(s, "write") EXCEPT !.promise[s.inFlightWriteRequest] = "fulfilled",
                                !.inFlightWriteRequest = None,
                                !.queue = Tail(s.queue)]

WriteUpdated(s) ==
    IF WriteEnded(s).state = "writable" /\ ~CloseQueuedOrInFlight(WriteEnded(s))
    THEN UpdateBackpressure(WriteEnded(s)) ELSE WriteEnded(s)

LEMMA WriteStep ==
    ASSUME NEW s, WritableInvariant(s), "write" \in s.sinkCalls
    PROVE  /\ WritableInvariant(FinishInFlightWrite(s))
           /\ WritableInvariant(FinishInFlightWriteWithError(s))
           /\ s.keysMatch => /\ FinishInFlightWrite(s) = AdvanceQueueIfNeeded(WriteUpdated(s))
                             /\ MayAdvance(WriteUpdated(s))
<1> DEFINE a == Settled(s, "write")
           t == [a EXCEPT !.promise[s.inFlightWriteRequest] = "fulfilled",
                          !.inFlightWriteRequest = None,
                          !.queue = Tail(s.queue)]
           u == [a EXCEPT !.promise[s.inFlightWriteRequest] = "rejected",
                          !.inFlightWriteRequest = None,
                          !.queue = s.queue]
           v == IF t.state = "writable" /\ ~CloseQueuedOrInFlight(t)
                THEN UpdateBackpressure(t) ELSE t
<1>1. s \in Slots /\ Loose(s) /\ CallsMarked(s)
      BY DEF WritableInvariant, Loose
<1>2. s.inFlightWriteRequest # None /\ s.queue # <<>>
      BY <1>1 DEF CallsMarked, InFlight
<1>3. CASE ~s.keysMatch
      BY <1>3, SettledStep DEF FinishInFlightWrite, FinishInFlightWriteWithError
<1>4. CASE s.keysMatch
  <2>1. a \in Slots /\ a.queue = s.queue /\ a.promise = s.promise
        BY <1>1, SettledEffect
  <2>2. FinishInFlightWriteWithError(s) = DealWithRejection(u)
    <3>1. [a EXCEPT !.promise[s.inFlightWriteRequest] = "rejected",
                    !.inFlightWriteRequest = None] = u
      <4> HIDE DEF a
      <4> QED BY <2>1 DEF Slots
    <3> HIDE DEF u
    <3> QED BY <1>4, <3>1 DEF FinishInFlightWriteWithError
  <2>3. FinishInFlightWrite(s) = AdvanceQueueIfNeeded(v)
    <3>1. [a EXCEPT !.promise[s.inFlightWriteRequest] = "fulfilled",
                    !.inFlightWriteRequest = None,
                    !.queue = Tail(@)] = t
      <4> HIDE DEF a
      <4> QED BY <2>1 DEF Slots
    <3> HIDE DEF t
    <3> QED BY <1>4, <3>1 DEF FinishInFlightWrite
  <2> DEFINE w == WriteUpdated(s)
  <2>12. v = w
        BY DEF WriteUpdated, WriteEnded
  <2> HIDE DEF w
  <2>4. /\ Loose(u) /\ LogMatchesState(u)
        /\ u.state \in {"writable", "erroring"} /\ u.started
        /\ u.inFlightWriteRequest = None /\ ~u.inFlightCloseRequest
        BY <1>4, WriteEndsEffect
  <2>5. /\ Loose(t) /\ LogMatchesState(t)
        /\ t.keysMatch = s.keysMatch /\ t.state = s.state
        /\ t.state \in {"writable", "erroring"} /\ t.started
        /\ t.queue = Tail(s.queue) /\ t.writeRequests = s.writeRequests
        /\ t.inFlightWriteRequest = None
        /\ t.closeRequest = s.closeRequest
        /\ ~t.inFlightCloseRequest
        BY <1>4, WriteEndsEffect
  <2> HIDE DEF t, u
  <2>6. MayFinish(u)
        BY <2>4 DEF MayFinish, InFlight, LogMatchesState
  <2>7. WritableInvariant(DealWithRejection(u))
        BY <2>4, <2>6, DealWithRejectionStep
  <2>8. ASSUME t.state = "writable"
        PROVE  Matches(t)
    <3>1. Matches(s)
          BY <2>5, <2>8 DEF WritableInvariant
    <3>2. /\ s.queue \in Seq([value : Chunks \cup {CloseRequest}, size : Nat])
          /\ Len(s.queue) \in Nat /\ Len(s.writeRequests) \in Nat
          /\ DOMAIN s.writeRequests = 1..Len(s.writeRequests)
          BY <1>1, Sequences
    <3>3. /\ Len(t.queue) = Len(s.queue) - 1
          /\ \A k \in 1..(Len(s.queue) - 1) : t.queue[k] = s.queue[k + 1]
          BY <1>2, <2>5, <3>2, SequenceFacts
    <3>4. Ahead(s) = 1 /\ Ahead(t) = 0
          BY <1>2, <2>5 DEF Ahead
    <3> DEFINE last == IF s.closeRequest THEN 1 ELSE 0
    <3>5. Len(s.queue) = 1 + Len(s.writeRequests) + last
          BY <3>1, <3>4 DEF Matches
    <3>6. last \in {0, 1} /\ last = (IF t.closeRequest THEN 1 ELSE 0)
          BY <2>5
    <3>7. s.closeRequest => last = 1
          OBVIOUS
    <3> HIDE DEF last
    <3>8. Len(t.queue) = 0 + Len(t.writeRequests) + last
      <4>1. \A n \in Nat, l \in {0, 1} : (1 + n + l) - 1 = 0 + n + l
            OBVIOUS
      <4> QED BY <2>5, <3>2, <3>3, <3>5, <3>6, <4>1
    <3>9. ASSUME NEW k \in DOMAIN t.writeRequests
          PROVE  t.queue[0 + k].value = t.writeRequests[k]
      <4>1. k \in 1..Len(s.writeRequests) /\ 0 + k = k /\ 1 + k = k + 1
            BY <2>5, <3>2
      <4>2. k \in 1..(Len(s.queue) - 1)
        <5>1. \A n \in Nat, l \in {0, 1} : \A i \in 1..n : i \in 1..((1 + n + l) - 1)
              OBVIOUS
        <5>2. k \in 1..((1 + Len(s.writeRequests) + last) - 1)
              BY <3>2, <3>6, <4>1, <5>1
        <5> QED BY <3>5, <5>2
      <4>3. s.queue[1 + k].value = s.writeRequests[k]
            BY <3>1, <3>2, <3>4, <4>1 DEF Matches
      <4> QED BY <2>5, <3>3, <4>1, <4>2, <4>3
    <3>10. t.closeRequest => t.queue[Len(t.queue)].value = CloseRequest
      <4> SUFFICES ASSUME s.closeRequest PROVE t.queue[Len(t.queue)].value = CloseRequest
          BY <2>5
      <4>1. s.queue[Len(s.queue)].value = CloseRequest
            BY <3>1 DEF Matches
      <4>2. Len(s.queue) - 1 \in 1..(Len(s.queue) - 1) /\ (Len(s.queue) - 1) + 1 = Len(s.queue)
            BY <3>2, <3>5, <3>7
      <4> QED BY <3>3, <4>1, <4>2
    <3>11. ~(t.inFlightWriteRequest # None)
          BY <2>5
    <3> QED BY <3>4, <3>6, <3>8, <3>9, <3>10, <3>11 DEF Matches
  <2>9. MayAdvance(t)
        BY <2>5, <2>8 DEF MayAdvance
  <2>10. v \in Slots /\ Same(t, v)
    <3>1. Same(t, t) /\ t \in Slots
          BY <2>5 DEF Same, Loose
    <3> QED BY <3>1, UpdateBackpressureKeeps
  <2> HIDE DEF v
  <2>11. MayAdvance(v)
    <3>1. Loose(v) /\ LogMatchesState(v) /\ (Matches(t) => Matches(v))
          BY <2>9, <2>10, SameInvariant DEF MayAdvance
    <3> QED BY <2>9, <2>10, <3>1 DEF MayAdvance, Same
  <2> QED BY <2>2, <2>3, <2>7, <2>11, <2>12, AdvanceStep DEF w
<1> QED BY <1>3, <1>4

\* What the failure of a close does before it deals with the rejection.
CloseFailed(s) ==
    LET aborted == s.pendingAbortRequest # "none"
    IN  [Settled(s, "close") EXCEPT
            !.promise[CloseRequest] = "rejected",
            !.promise[AbortRequest] = IF aborted THEN "rejected" ELSE @,
            !.inFlightCloseRequest = FALSE,
            !.pendingAbortRequest = "none"]

LEMMA CloseEndsStep ==
    ASSUME NEW s, WritableInvariant(s), "close" \in s.sinkCalls
    PROVE  /\ WritableInvariant(FinishInFlightClose(s))
           /\ WritableInvariant(FinishInFlightCloseWithError(s))
           /\ s.keysMatch => MayFinish(CloseFailed(s))
<1>1. /\ s \in Slots /\ Loose(s) /\ CallsMarked(s) /\ PromisesHeld(s) /\ LogMatchesState(s)
      BY DEF WritableInvariant, Loose
<1>2. /\ s.inFlightWriteRequest = None /\ s.inFlightCloseRequest /\ ~s.closeRequest
      /\ s.state \in {"writable", "erroring"} /\ s.started
      /\ "abort" \notin s.sinkCalls /\ ~Logged(s, AbortRequest)
      BY <1>1 DEF CallsMarked, InFlight, LogMatchesState
<1>3. CASE ~s.keysMatch
      BY <1>3, SettledStep DEF FinishInFlightClose, FinishInFlightCloseWithError
<1>4. CASE s.keysMatch
  <2> DEFINE a == Settled(s, "close")
             aborted == s.pendingAbortRequest # "none"
  <2>1. /\ a \in Slots
        /\ a.keysMatch = s.keysMatch /\ a.state = s.state /\ a.started = s.started
        /\ a.queue = s.queue /\ a.writeRequests = s.writeRequests
        /\ a.inFlightWriteRequest = s.inFlightWriteRequest
        /\ a.closeRequest = s.closeRequest
        /\ a.inFlightCloseRequest = s.inFlightCloseRequest
        /\ a.pendingAbortRequest = s.pendingAbortRequest /\ a.promise = s.promise
        /\ a.sinkCalls = s.sinkCalls \ {"close"} /\ a.sinkLog = s.sinkLog /\ a.accepted = s.accepted
        /\ a.sizing = s.sizing
        BY <1>1, SettledEffect
  <2> HIDE DEF a
  <2>2. /\ s.promise \in [Promises -> PromiseStates]
        /\ AbortRequest \in Promises /\ CloseRequest \in Promises
        BY <1>1, SlotsFacts DEF Promises
  <2>3. ~aborted => s.promise[AbortRequest] # "pending"
        BY <1>1, <1>2, <1>4 DEF PromisesHeld
  <2>4. ASSUME NEW outcome \in {"fulfilled", "rejected"}
        PROVE  LET p == [s.promise EXCEPT ![CloseRequest] = outcome,
                             ![AbortRequest] = IF aborted THEN outcome ELSE @]
               IN  /\ p \in [Promises -> PromiseStates]
                   /\ \A q \in Promises : s.promise[q] # "none" => p[q] # "none"
                   /\ \A q \in Chunks : p[q] = s.promise[q]
                   /\ p[CloseRequest] # "pending" /\ p[AbortRequest] # "pending"
    <3> DEFINE p1 == [s.promise EXCEPT ![CloseRequest] = outcome]
               abort == IF aborted THEN outcome ELSE p1[AbortRequest]
               p == [p1 EXCEPT ![AbortRequest] = abort]
    <3>1. /\ p1 \in [Promises -> PromiseStates]
          /\ \A q \in Promises : p1[q] = IF q = CloseRequest THEN outcome ELSE s.promise[q]
          BY <2>2 DEF PromiseStates
    <3>2. /\ abort \in PromiseStates /\ abort # "pending"
          /\ s.promise[AbortRequest] # "none" => abort # "none"
      <4> HIDE DEF p1, aborted
      <4>1. p1[AbortRequest] = s.promise[AbortRequest] /\ p1[AbortRequest] \in PromiseStates
            BY <2>2, <3>1, Constants
      <4> QED BY <2>3, <4>1 DEF PromiseStates
    <3> HIDE DEF p1, abort
    <3>3. /\ p \in [Promises -> PromiseStates]
          /\ \A q \in Promises : p[q] = IF q = AbortRequest THEN abort ELSE p1[q]
          BY <2>2, <3>1, <3>2
    <3>4. [s.promise EXCEPT ![CloseRequest] = outcome,
                             ![AbortRequest] = IF aborted THEN outcome ELSE @] = p
      <4> HIDE DEF aborted
      <4> QED BY DEF p1, abort
    <3> HIDE DEF p
    <3>5. /\ \A q \in Promises : s.promise[q] # "none" => p[q] # "none"
          /\ \A q \in Chunks : p[q] = s.promise[q]
          /\ p[CloseRequest] # "pending" /\ p[AbortRequest] # "pending"
          BY <2>2, <3>1, <3>2, <3>3, Constants DEF Promises
    <3> HIDE DEF aborted
    <3> QED BY <3>3, <3>4, <3>5
  <2> DEFINE promise(outcome) == [s.promise EXCEPT ![CloseRequest] = outcome,
                                      ![AbortRequest] = IF aborted THEN outcome ELSE @]
  <2>5. \A outcome \in {"fulfilled", "rejected"} :
            /\ promise(outcome) \in [Promises -> PromiseStates]
            /\ \A q \in Promises : s.promise[q] # "none" => promise(outcome)[q] # "none"
            /\ \A q \in Chunks : promise(outcome)[q] = s.promise[q]
            /\ promise(outcome)[CloseRequest] # "pending"
            /\ promise(outcome)[AbortRequest] # "pending"
        BY <2>4
  <2>6. ASSUME NEW outcome \in {"fulfilled", "rejected"},
               NEW state \in {s.state, "closed"}, NEW stored \in BOOLEAN
        PROVE  LET t == [a EXCEPT !.promise = promise(outcome), !.inFlightCloseRequest = FALSE,
                             !.storedError = stored, !.pendingAbortRequest = "none",
                             !.state = state]
               IN  /\ Loose(t) /\ t.keysMatch = s.keysMatch /\ t.state = state /\ t.started
                   /\ ~InFlight(t) /\ ~Logged(t, AbortRequest)
                   /\ t.pendingAbortRequest = "none"
    <3> DEFINE p == promise(outcome)
               b == [a EXCEPT !.promise = p]
               c == [b EXCEPT !.inFlightCloseRequest = FALSE]
               d == [c EXCEPT !.pendingAbortRequest = "none"]
               e == [d EXCEPT !.state = state]
               t == [e EXCEPT !.storedError = stored]
    <3>1. /\ p \in [Promises -> PromiseStates]
          /\ \A q \in Promises : s.promise[q] # "none" => p[q] # "none"
          /\ \A q \in Chunks : p[q] = s.promise[q]
          /\ p[CloseRequest] # "pending" /\ p[AbortRequest] # "pending"
          BY <2>5
    <3> HIDE DEF promise
    <3>2. [a EXCEPT !.promise = promise(outcome), !.inFlightCloseRequest = FALSE,
                    !.storedError = stored, !.pendingAbortRequest = "none", !.state = state] = t
          BY <2>1 DEF Slots
    <3>3. e \in Slots
      <4>1. b \in Slots
        <5> HIDE DEF p
        <5> QED BY <2>1, <3>1, SeenFields
      <4>2. c \in Slots
        <5> HIDE DEF b
        <5> QED BY <4>1, SeenFields
      <4>3. d \in Slots
        <5> HIDE DEF c
        <5> QED BY <4>2, SeenFields
      <4>4. state \in {"writable", "erroring", "errored", "closed"}
            BY <1>2
      <4> HIDE DEF d
      <4> QED BY <4>3, <4>4, SeenFields
    <3>4. /\ e.keysMatch = s.keysMatch /\ e.state = state /\ e.started = s.started
          /\ e.queue = s.queue /\ e.writeRequests = s.writeRequests
          /\ e.inFlightWriteRequest = s.inFlightWriteRequest
          /\ e.closeRequest = s.closeRequest /\ e.inFlightCloseRequest = FALSE
          /\ e.pendingAbortRequest = "none" /\ e.promise = p
          /\ e.sinkCalls = s.sinkCalls \ {"close"} /\ e.sinkLog = s.sinkLog
          /\ e.accepted = s.accepted
          /\ e.sizing = s.sizing
      <4> HIDE DEF p
      <4> QED BY <2>1 DEF Slots
    <3> HIDE DEF e, p
    <3>5. t \in Slots /\ Same(e, t)
          BY <3>3, HiddenFields
    <3>6. CallsMarked(e)
          BY <1>1, <1>2, <3>4 DEF CallsMarked, InFlight
    <3>7. PromisesHeld(e)
          BY <1>1, <3>1, <3>4 DEF PromisesHeld
    <3>8. Loose(e)
          BY <1>1, <3>1, <3>3, <3>4, <3>6, <3>7, LooseKeeps
    <3>9. Loose(t)
          BY <3>5, <3>8, SameInvariant
    <3> HIDE DEF t
    <3>10. ~Logged(t, AbortRequest) /\ ~InFlight(t)
          BY <1>2, <3>4, <3>5 DEF Same, Logged, InFlight
    <3>11. t.keysMatch = s.keysMatch /\ t.state = state /\ t.started
           /\ t.pendingAbortRequest = "none"
          BY <1>2, <3>4, <3>5 DEF Same
    <3> QED BY <3>2, <3>9, <3>10, <3>11
  <2> DEFINE t == [a EXCEPT !.promise = promise("fulfilled"), !.inFlightCloseRequest = FALSE,
                             !.storedError = FALSE, !.pendingAbortRequest = "none",
                             !.state = "closed"]
             u == [a EXCEPT !.promise = promise("rejected"), !.inFlightCloseRequest = FALSE,
                             !.storedError = a.storedError, !.pendingAbortRequest = "none",
                             !.state = s.state]
  <2>7. FinishInFlightClose(s) = ClosedPromiseResolve(t)
    <3>1. [a EXCEPT !.promise[CloseRequest] = "fulfilled",
                    !.promise[AbortRequest] = IF aborted THEN "fulfilled" ELSE @,
                    !.inFlightCloseRequest = FALSE,
                    !.storedError = FALSE,
                    !.pendingAbortRequest = "none",
                    !.state = "closed"] = t
      <4> HIDE DEF aborted
      <4> QED BY <2>1 DEF Slots
    <3> HIDE DEF t
    <3> QED BY <1>4, <3>1 DEF FinishInFlightClose, a
  <2>8. FinishInFlightCloseWithError(s) = DealWithRejection(u) /\ CloseFailed(s) = u
    <3>1. [a EXCEPT !.promise[CloseRequest] = "rejected",
                    !.promise[AbortRequest] = IF aborted THEN "rejected" ELSE @,
                    !.inFlightCloseRequest = FALSE,
                    !.pendingAbortRequest = "none"] = u
      <4> HIDE DEF aborted
      <4> QED BY <2>1, ZenonT(40) DEF Slots
    <3> HIDE DEF u
    <3> QED BY <1>4, <3>1 DEF FinishInFlightCloseWithError, CloseFailed, a
  <2> HIDE DEF promise, aborted
  <2>9. /\ Loose(t) /\ t.keysMatch = s.keysMatch /\ t.state = "closed"
        /\ ~InFlight(t) /\ ~Logged(t, AbortRequest)
        BY <2>6
  <2>10. /\ Loose(u) /\ u.state = s.state /\ u.started
         /\ ~InFlight(u) /\ ~Logged(u, AbortRequest)
         /\ u.pendingAbortRequest = "none"
    <3>1. a.storedError \in BOOLEAN
          BY <2>1, SlotsFacts
    <3> QED BY <2>6, <3>1
  <2> HIDE DEF t, u
  <2>11. WritableInvariant(t)
        BY <2>9 DEF WritableInvariant, LogMatchesState, ErroringEnds
  <2>12. WritableInvariant(ClosedPromiseResolve(t))
    <3>1. t \in Slots
          BY <2>9 DEF Loose
    <3> QED BY <2>11, <3>1, ClosedPromisesKeep, SameInvariant
  <2>13. MayFinish(u)
        BY <2>10 DEF MayFinish
  <2>14. WritableInvariant(DealWithRejection(u))
        BY <1>2, <2>10, <2>13, DealWithRejectionStep
  <2> QED BY <2>7, <2>8, <2>12, <2>13, <2>14
<1> QED BY <1>3, <1>4

LEMMA AbortEndsStep ==
    ASSUME NEW s, WritableInvariant(s), "abort" \in s.sinkCalls,
           NEW outcome \in {"fulfilled", "rejected"}
    PROVE  WritableInvariant(FinishAbort(s, outcome))
<1>1. /\ s \in Slots /\ Loose(s) /\ CallsMarked(s) /\ PromisesHeld(s)
      BY DEF WritableInvariant, Loose
<1>2. s.state = "errored" /\ s.started /\ ~InFlight(s)
      BY <1>1 DEF CallsMarked
<1>3. CASE ~s.keysMatch
      BY <1>3, SettledStep DEF FinishAbort
<1>4. CASE s.keysMatch
  <2> DEFINE a == Settled(s, "abort")
             p == [s.promise EXCEPT ![AbortRequest] = outcome]
             b == [a EXCEPT !.promise = p]
             t == RejectCloseAndClosedPromiseIfNeeded(b)
  <2>1. /\ a \in Slots
        /\ a.keysMatch = s.keysMatch /\ a.state = s.state /\ a.started = s.started
        /\ a.queue = s.queue /\ a.writeRequests = s.writeRequests
        /\ a.inFlightWriteRequest = s.inFlightWriteRequest
        /\ a.closeRequest = s.closeRequest
        /\ a.inFlightCloseRequest = s.inFlightCloseRequest
        /\ a.pendingAbortRequest = s.pendingAbortRequest /\ a.promise = s.promise
        /\ a.sinkCalls = s.sinkCalls \ {"abort"} /\ a.sinkLog = s.sinkLog /\ a.accepted = s.accepted
        /\ a.sizing = s.sizing
        BY <1>1, SettledEffect
  <2> HIDE DEF a
  <2>2. /\ s.promise \in [Promises -> PromiseStates]
        /\ AbortRequest \in Promises /\ CloseRequest \in Promises
        BY <1>1, SlotsFacts DEF Promises
  <2>3. /\ p \in [Promises -> PromiseStates]
        /\ \A q \in Promises : p[q] = IF q = AbortRequest THEN outcome ELSE s.promise[q]
        BY <2>2 DEF PromiseStates
  <2>4. FinishAbort(s, outcome) = t
    <3>1. [a EXCEPT !.promise[AbortRequest] = outcome] = b
          BY <2>1
    <3> HIDE DEF b
    <3> QED BY <1>4, <3>1 DEF FinishAbort, a
  <2> HIDE DEF p
  <2>5. b \in Slots
        BY <2>1, <2>3, SeenFields
  <2>6. /\ b.keysMatch = s.keysMatch /\ b.state = s.state /\ b.started = s.started
        /\ b.writeRequests = s.writeRequests
        /\ b.inFlightWriteRequest = s.inFlightWriteRequest
        /\ b.closeRequest = s.closeRequest
        /\ b.inFlightCloseRequest = s.inFlightCloseRequest
        /\ b.pendingAbortRequest = s.pendingAbortRequest /\ b.promise = p
        /\ b.sinkCalls = s.sinkCalls \ {"abort"} /\ b.sinkLog = s.sinkLog /\ b.accepted = s.accepted
        /\ b.sizing = s.sizing
        BY <2>1 DEF Slots
  <2> HIDE DEF b
  <2>7. /\ t \in Slots /\ BesideClose(b, t)
        /\ b.keysMatch => ~t.closeRequest
        /\ t.promise = IF b.keysMatch /\ b.closeRequest
                       THEN [b.promise EXCEPT ![CloseRequest] = "rejected"] ELSE b.promise
        BY <2>5, RejectCloseEffect
  <2> HIDE DEF t
  <2>8. /\ t.state = "errored" /\ t.started
        /\ t.writeRequests = s.writeRequests
        /\ t.inFlightWriteRequest = s.inFlightWriteRequest
        /\ t.inFlightCloseRequest = s.inFlightCloseRequest
        /\ t.sinkCalls = s.sinkCalls \ {"abort"} /\ t.sinkLog = s.sinkLog /\ t.accepted = s.accepted
        /\ t.sizing = s.sizing
        BY <1>2, <2>6, <2>7 DEF BesideClose
  <2>9. \A q \in Promises : t.promise[q] = IF s.closeRequest /\ q = CloseRequest THEN "rejected"
                                           ELSE p[q]
        BY <1>4, <2>2, <2>3, <2>6, <2>7
  <2>10. CallsMarked(t)
        BY <1>1, <1>2, <2>8 DEF CallsMarked, InFlight
  <2>11. PromisesHeld(t)
    <3>1. \A q \in Chunks : t.promise[q] = s.promise[q]
          BY <2>3, <2>9, Constants DEF Promises
    <3>2. t.promise[CloseRequest] # "pending"
      <4>1. s.promise[CloseRequest] = "pending" => s.closeRequest
            BY <1>1, <1>2, <1>4 DEF PromisesHeld, InFlight
      <4> QED BY <2>2, <2>3, <2>9, <4>1, Constants
    <3>3. t.promise[AbortRequest] # "pending"
          BY <2>2, <2>3, <2>9, Constants
    <3> QED BY <1>1, <1>4, <2>8, <3>1, <3>2, <3>3 DEF PromisesHeld
  <2>12. \A q \in Promises : s.promise[q] # "none" => t.promise[q] # "none"
        BY <2>3, <2>9
  <2>13. Loose(t)
        BY <1>1, <2>7, <2>8, <2>10, <2>11, <2>12, LooseKeeps
  <2>14. WritableInvariant(t)
        BY <2>8, <2>13 DEF WritableInvariant, LogMatchesState, ErroringEnds
  <2> QED BY <2>4, <2>14
<1> QED BY <1>3, <1>4

-----------------------------------------------------------------------------
(* The theorems.                                                              *)

LEMMA InitialStep ==
    ASSUME NEW keysMatch \in BOOLEAN
    PROVE  WritableInvariant(NewStream(keysMatch))
<1> DEFINE s == NewStream(keysMatch)
           p == [q \in Promises |-> "none"]
<1>1. /\ s.keysMatch = keysMatch /\ s.state = "writable" /\ ~s.started
      /\ s.queue = <<>> /\ s.writeRequests = <<>> /\ s.inFlightWriteRequest = None
      /\ s.closeRequest = FALSE /\ s.inFlightCloseRequest = FALSE
      /\ s.promise = p /\ s.sinkCalls = {"start"} /\ s.sinkLog = <<>>
      /\ s.accepted = <<>>
  <2> HIDE DEF p
  <2> QED BY DEF NewStream, p
<1>2. s \in Slots
  <2>1. p \in [Promises -> PromiseStates]
        BY DEF PromiseStates
  <2>2. /\ <<>> \in Seq([value : Chunks \cup {CloseRequest}, size : Nat])
        /\ <<>> \in Seq(Chunks) /\ <<>> \in Seq(Promises)
        OBVIOUS
  <2>3. {"start"} \in SUBSET SinkCalls /\ {} \in SUBSET Assertions
        BY DEF SinkCalls
  <2>4. (HighWaterMark = 0) \in BOOLEAN
        OBVIOUS
  <2> DEFINE pressed == HighWaterMark = 0
  <2> HIDE DEF p, pressed
  <2>5. NewStream(keysMatch) =
            [   keysMatch |-> keysMatch, state |-> "writable", storedError |-> FALSE,
                writer |-> FALSE, ready |-> "rejected", closed |-> "rejected",
                backpressure |-> pressed, started |-> FALSE,
                queue |-> <<>>, writeRequests |-> <<>>, inFlightWriteRequest |-> None,
                closeRequest |-> FALSE, inFlightCloseRequest |-> FALSE,
                pendingAbortRequest |-> "none",
                promise |-> p,
                sinkCalls |-> {"start"}, sinkLog |-> <<>>, accepted |-> <<>>,
                sizing |-> None, sizingWriter |-> FALSE, failed |-> {}]
        BY DEF NewStream, p, pressed
  <2>6. pressed \in BOOLEAN
        BY <2>4 DEF pressed
  <2> QED BY <2>1, <2>2, <2>3, <2>5, <2>6 DEF Slots
<1> HIDE DEF s
<1>3. DOMAIN s.sinkLog = {} /\ DOMAIN s.writeRequests = {} /\ Len(s.queue) = 0
      /\ Len(s.writeRequests) = 0 /\ Len(s.sinkLog) = 0 /\ Len(s.accepted) = 0
      BY <1>1
<1>4. \A q \in Promises : s.promise[q] = "none"
      BY <1>1
<1> HIDE DEF p
<1>5. CallsMarked(s)
      BY <1>1 DEF CallsMarked, InFlight
<1>6. LogInOrder(s) /\ ChunksOnce(s) /\ InLine(s)
      BY <1>3 DEF LogInOrder, ChunksOnce, InLine, WaitsAfter
<1>7. PromisesHeld(s)
      BY <1>4 DEF PromisesHeld, Promises
<1>8. LogMatchesState(s)
      BY <1>3 DEF LogMatchesState, Logged
<1>9. Matches(s)
  <2>1. ~s.closeRequest /\ Ahead(s) = 0
        BY <1>1 DEF Ahead
  <2>2. Len(s.queue) = Ahead(s) + Len(s.writeRequests) + (IF s.closeRequest THEN 1 ELSE 0)
        BY <1>3, <2>1
  <2>3. ~(s.inFlightWriteRequest # None)
        BY <1>1
  <2> QED BY <1>3, <2>1, <2>2, <2>3 DEF Matches
<1>10. ErroringEnds(s)
      BY <1>1 DEF ErroringEnds
<1>11. WritableInvariant(s)
      BY <1>2, <1>5, <1>6, <1>7, <1>8, <1>9, <1>10 DEF WritableInvariant, Loose
<1> QED BY <1>11 DEF s

LEMMA NextStep ==
    ASSUME WritableInvariant(stream), [Next]_stream
    PROVE  WritableInvariant(stream)'
<1>1. stream \in Slots
      BY DEF WritableInvariant, Loose
<1>2. CASE GetWriter
      BY <1>1, <1>2, AcquireKeeps, SameInvariant DEF GetWriter
<1>3. CASE ReleaseLock
      BY <1>1, <1>3, ReleaseKeeps, SameInvariant DEF ReleaseLock
<1>4. CASE Abort
      BY <1>4, AbortStep DEF Abort
<1>5. CASE Close
      BY <1>5, CloseStep DEF Close
<1>6. CASE ControllerError
      BY <1>6, ErrorStep DEF ControllerError
<1>7. ASSUME NEW chunk \in Chunks, Write(chunk)
      PROVE  WritableInvariant(stream)'
      BY <1>7, SizingStep DEF Write
<1>8. CASE SizeReturns
      BY <1>8, WriteSizedStep DEF SizeReturns
<1>9. CASE SizeThrows
      BY <1>9, SizeThrewStep DEF SizeThrows
<1>10. CASE SinkSettles
  <2>1. CASE StartSettles
        BY <2>1, StartStep DEF StartSettles, Reaction
  <2>2. CASE WriteSettles
        BY <2>2, WriteStep DEF WriteSettles, Reaction
  <2>3. CASE CloseSettles
        BY <2>3, CloseEndsStep DEF CloseSettles, Reaction
  <2>4. CASE AbortSettles
        BY <2>4, AbortEndsStep DEF AbortSettles, Reaction
  <2> QED BY <1>10, <2>1, <2>2, <2>3, <2>4 DEF SinkSettles
<1>11. CASE UNCHANGED stream
      BY <1>11
<1> QED BY <1>2, <1>3, <1>4, <1>5, <1>6, <1>7, <1>8, <1>9, <1>10, <1>11 DEF Next

\* The invariant, the type of the slots included, holds in every reachable state.
THEOREM WritableInvariantHolds == SafeSpec => []WritableInvariant(stream)
<1>1. Init => WritableInvariant(stream)
      BY InitialStep, WritableStreamAssumption DEF Init
<1>2. WritableInvariant(stream) /\ [Next]_stream => WritableInvariant(stream)'
      BY NextStep
<1> QED BY <1>1, <1>2, PTL DEF SafeSpec

\* The slots of the stream have the values that writable.js gives them.
THEOREM TypeCorrect == SafeSpec => []TypeOK
<1>1. WritableInvariant(stream) => TypeOK
      BY DEF WritableInvariant, Loose, TypeOK
<1> QED BY <1>1, WritableInvariantHolds, PTL

LEMMA MatchesConcatenation ==
    ASSUME NEW s \in Slots, Matches(s)
    PROVE  Values(s.queue) =
               (IF s.inFlightWriteRequest = None THEN <<>> ELSE <<s.inFlightWriteRequest>>)
               \o s.writeRequests
               \o (IF s.closeRequest THEN <<CloseRequest>> ELSE <<>>)
<1> DEFINE before == IF s.inFlightWriteRequest = None THEN <<>> ELSE <<s.inFlightWriteRequest>>
           after == IF s.closeRequest THEN <<CloseRequest>> ELSE <<>>
           last == IF s.closeRequest THEN 1 ELSE 0
           S == Chunks \cup {CloseRequest}
           all == before \o s.writeRequests \o after
<1>1. /\ s.queue \in Seq([value : S, size : Nat])
      /\ Len(s.queue) \in Nat /\ Len(s.writeRequests) \in Nat
      /\ DOMAIN s.queue = 1..Len(s.queue)
      /\ DOMAIN s.writeRequests = 1..Len(s.writeRequests)
      /\ s.writeRequests \in Seq(Chunks)
      BY Sequences
<1>2. /\ before \in Seq(S) /\ Len(before) = Ahead(s) /\ Ahead(s) \in {0, 1}
      /\ s.inFlightWriteRequest # None => before[1] = s.inFlightWriteRequest
      /\ Ahead(s) = 1 <=> s.inFlightWriteRequest # None
  <2>1. s.inFlightWriteRequest # None => s.inFlightWriteRequest \in S
        BY SlotsFacts
  <2>2. CASE s.inFlightWriteRequest = None
        BY <2>2 DEF Ahead
  <2>3. CASE s.inFlightWriteRequest # None
        BY <2>1, <2>3 DEF Ahead
  <2> QED BY <2>2, <2>3
<1>3. /\ after \in Seq(S) /\ Len(after) = last /\ last \in {0, 1}
      /\ s.closeRequest => after[1] = CloseRequest
      /\ last = 1 <=> s.closeRequest
  <2>1. CASE s.closeRequest
    <3>1. after = <<CloseRequest>> /\ last = 1
          BY <2>1
    <3> QED BY <2>1, <3>1
  <2>2. CASE ~s.closeRequest
    <3>1. after = <<>> /\ last = 0
          BY <2>2
    <3> QED BY <2>2, <3>1
  <2> QED BY <2>1, <2>2
<1>4. s.writeRequests \in Seq(S)
      BY <1>1
<1>5. Len(s.queue) = Ahead(s) + Len(s.writeRequests) + last
      BY DEF Matches
<1> HIDE DEF before, after, last
<1>6. /\ all \in Seq(S)
      /\ Len(all) = Ahead(s) + Len(s.writeRequests) + last
      /\ \A i \in 1..Len(all) : all[i] =
            IF i <= Ahead(s) THEN before[i]
            ELSE IF i <= Ahead(s) + Len(s.writeRequests) THEN s.writeRequests[i - Ahead(s)]
            ELSE after[i - (Ahead(s) + Len(s.writeRequests))]
  <2> DEFINE front == before \o s.writeRequests
  <2>1. /\ front \in Seq(S) /\ Len(front) = Ahead(s) + Len(s.writeRequests)
        /\ \A i \in 1..(Ahead(s) + Len(s.writeRequests)) : front[i] =
              IF i <= Ahead(s) THEN before[i] ELSE s.writeRequests[i - Ahead(s)]
        BY <1>2, <1>4
  <2> HIDE DEF front
  <2>2. /\ front \o after \in Seq(S)
        /\ Len(front \o after) = Len(front) + last
        /\ \A i \in 1..(Len(front) + last) : (front \o after)[i] =
              IF i <= Len(front) THEN front[i] ELSE after[i - Len(front)]
        BY <1>3, <2>1
  <2>3. all = front \o after
        BY DEF front
  <2> HIDE DEF all
  <2> QED BY <1>1, <1>2, <1>3, <2>1, <2>2, <2>3, SMTT(30)
<1>7. \A i \in 1..Len(s.queue) : all[i] = s.queue[i].value
  <2> SUFFICES ASSUME NEW i \in 1..Len(s.queue)
               PROVE  all[i] = s.queue[i].value
      OBVIOUS
  <2> HIDE DEF all
  <2>1. CASE i <= Ahead(s)
    <3>1. i = 1 /\ Ahead(s) = 1
          BY <1>1, <1>2, <2>1
    <3>2. s.queue[1].value = s.inFlightWriteRequest
          BY <1>2, <3>1 DEF Matches
    <3> QED BY <1>2, <1>5, <1>6, <2>1, <3>1, <3>2
  <2>2. CASE ~(i <= Ahead(s)) /\ i <= Ahead(s) + Len(s.writeRequests)
    <3>1. i - Ahead(s) \in 1..Len(s.writeRequests) /\ Ahead(s) + (i - Ahead(s)) = i
          BY <1>1, <1>2, <2>2, SMTT(30)
    <3>2. s.queue[Ahead(s) + (i - Ahead(s))].value = s.writeRequests[i - Ahead(s)]
          BY <1>1, <3>1 DEF Matches
    <3> QED BY <1>5, <1>6, <2>2, <3>1, <3>2
  <2>3. CASE ~(i <= Ahead(s) + Len(s.writeRequests))
    <3>1. last = 1 /\ i = Len(s.queue) /\ i - (Ahead(s) + Len(s.writeRequests)) = 1
          BY <1>1, <1>2, <1>3, <1>5, <2>3
    <3>2. s.queue[i].value = CloseRequest
          BY <1>3, <3>1 DEF Matches
    <3>3. ~(i <= Ahead(s))
          BY <1>1, <1>2, <2>3
    <3> QED BY <1>3, <1>5, <1>6, <2>3, <3>1, <3>2, <3>3
  <2> QED BY <2>1, <2>2, <2>3
<1>8. DOMAIN all = 1..Len(s.queue) /\ all = [i \in 1..Len(s.queue) |-> all[i]]
  <2> HIDE DEF all
  <2> QED BY <1>5, <1>6
<1>9. Values(s.queue) = [i \in 1..Len(s.queue) |-> s.queue[i].value]
      BY <1>1 DEF Values
<1>10. all = Values(s.queue)
  <2> HIDE DEF all
  <2> QED BY <1>7, <1>8, <1>9
<1> QED BY <1>10 DEF before, after

\* While the stream is writable the controller's queue holds the write in flight, the
\* waiting writes and the waiting close, in this order: a promise is settled for the
\* chunk that the sink got.
THEOREM QueueMatchesRequestsCorrect == SafeSpec => []QueueMatchesRequests
<1>1. WritableInvariant(stream) => QueueMatchesRequests
  <2> SUFFICES ASSUME WritableInvariant(stream), stream.state = "writable"
               PROVE  Matches(stream) /\ stream \in Slots
      BY MatchesConcatenation DEF QueueMatchesRequests
  <2> QED BY DEF WritableInvariant, Loose
<1> QED BY <1>1, WritableInvariantHolds, PTL

\* The sink has one call at a time, every chunk once, and close() or abort() once and
\* after everything else.
THEOREM SinkProtocolCorrect == SafeSpec => []SinkProtocol
<1>1. WritableInvariant(stream) => SinkProtocol
  <2> SUFFICES ASSUME WritableInvariant(stream) PROVE SinkProtocol
      OBVIOUS
  <2>1. /\ stream \in Slots /\ CallsMarked(stream) /\ LogInOrder(stream)
        /\ LogMatchesState(stream)
        BY DEF WritableInvariant, Loose
  <2>2. stream.sinkCalls \in SUBSET SinkCalls
        BY <2>1, SlotsFacts
  <2>3. \E call \in SinkCalls : stream.sinkCalls \subseteq {call}
    <3>1. "start" \in stream.sinkCalls => stream.sinkCalls = {"start"}
          BY <2>1 DEF CallsMarked
    <3>2. "write" \in stream.sinkCalls =>
              "close" \notin stream.sinkCalls /\ "abort" \notin stream.sinkCalls
          BY <2>1 DEF CallsMarked, InFlight
    <3>3. "close" \in stream.sinkCalls => "abort" \notin stream.sinkCalls
          BY <2>1 DEF CallsMarked, InFlight
    <3> QED BY <2>2, <3>1, <3>2, <3>3 DEF SinkCalls
  <2>4. Cardinality(stream.sinkCalls) <= 1
    <3>1. PICK call \in SinkCalls : stream.sinkCalls \subseteq {call}
          BY <2>3
    <3>2. stream.sinkCalls = {} \/ stream.sinkCalls = {call}
          BY <3>1
    <3>3. Cardinality({}) = 0 /\ Cardinality({call}) = 1
          BY FS_EmptySet, FS_Singleton
    <3> QED BY <3>2, <3>3
  <2>5. ASSUME NEW i \in DOMAIN stream.sinkLog,
               stream.sinkLog[i] \in {CloseRequest, AbortRequest}
        PROVE  i = Len(stream.sinkLog) /\ "write" \notin stream.sinkCalls
    <3>1. i = Len(stream.sinkLog)
          BY <2>1, <2>5 DEF LogInOrder
    <3>2. Logged(stream, CloseRequest) \/ Logged(stream, AbortRequest)
          BY <2>5 DEF Logged
    <3>3. stream.inFlightCloseRequest \/ stream.state \in {"closed", "errored"}
          BY <2>1, <3>2 DEF LogMatchesState
    <3>4. "write" \notin stream.sinkCalls
          BY <2>1, <3>3 DEF CallsMarked, InFlight
    <3> QED BY <3>1, <3>4
  <2>6. InLine(stream)
        BY DEF WritableInvariant, Loose
  <2> QED BY <2>1, <2>4, <2>5, <2>6 DEF SinkProtocol, LogInOrder, InLine
<1> QED BY <1>1, WritableInvariantHolds, PTL

\* A pending promise of write(), close() or abort() is still held by what will settle
\* it, and an erroring stream still waits for something, where the keys agree.
THEOREM NothingForgottenCorrect == SafeSpec => []NothingForgotten
<1>1. WritableInvariant(stream) => NothingForgotten
      BY DEF WritableInvariant, Loose, PromisesHeld, ErroringEnds, InFlight, NothingForgotten,
             CloseQueuedOrInFlight, HasOperationMarkedInFlight
<1> QED BY <1>1, WritableInvariantHolds, PTL

-----------------------------------------------------------------------------
(* The backpressure, the promises of the writer, and the assertions.          *)

\* With the keys made to agree, the assertion of a closed promise may fail.
Excepted(s) == IF s.keysMatch THEN {"closed promise pending"} ELSE {}

\* No error is stored in a writable stream, the closed promise of a writer is
\* pending until the stream has ended, and no other assertion has failed.
Honest(s) ==
    /\ s.state = "writable" => ~s.storedError
    /\ s.writer /\ s.state \in {"writable", "erroring"} => s.closed = "pending"
    /\ s.failed \subseteq Excepted(s)

Open(s) == s.state = "writable" /\ ~CloseQueuedOrInFlight(s)

\* What the stream tells its producer agrees: the backpressure with the queue, the
\* ready promise with the backpressure.
ReadyAgrees(s) == s.writer => (s.ready = "pending" <=> s.backpressure)

Told(s) ==
    /\ Honest(s)
    /\ Open(s) => ReadyAgrees(s) /\ (s.backpressure <=> GetBackpressure(s))

\* All that Told looks at.
SameTold(s, t) ==
    /\ t.keysMatch = s.keysMatch /\ t.state = s.state /\ t.storedError = s.storedError
    /\ t.writer = s.writer /\ t.ready = s.ready /\ t.closed = s.closed
    /\ t.backpressure = s.backpressure /\ t.queue = s.queue
    /\ t.closeRequest = s.closeRequest
    /\ t.inFlightCloseRequest = s.inFlightCloseRequest
    /\ t.failed = s.failed

LEMMA SameToldStep ==
    ASSUME NEW s, NEW t, SameTold(s, t), Told(s)
    PROVE  Told(t)
<1>1. Honest(t)
      BY DEF SameTold, Told, Honest, Excepted
<1>2. Open(t) => Open(s)
      BY DEF SameTold, Open, CloseQueuedOrInFlight
<1>3. GetBackpressure(t) <=> GetBackpressure(s)
      BY DEF SameTold, GetBackpressure, QueueTotalSize
<1>4. ReadyAgrees(s) => ReadyAgrees(t)
      BY DEF SameTold, ReadyAgrees
<1>5. t.backpressure = s.backpressure
      BY DEF SameTold
<1> QED BY <1>1, <1>2, <1>3, <1>4, <1>5 DEF Told

LEMMA EndedTold ==
    ASSUME NEW t, t.state \in {"errored", "closed"}, t.failed \subseteq Excepted(t)
    PROVE  Told(t)
BY DEF Told, Honest, Open

LEMMA ErroringTold ==
    ASSUME NEW t, t.state = "erroring", Honest(t)
    PROVE  Told(t)
BY DEF Told, Open

\* The assertion of the closed promise fails only where it is excepted.
LEMMA ClosedPromiseFailed ==
    ASSUME NEW s \in Slots, s.failed \subseteq Excepted(s),
           ~s.keysMatch /\ s.writer => s.closed = "pending"
    PROVE  /\ ClosedPromiseReject(s).failed \subseteq Excepted(s)
           /\ ClosedPromiseResolve(s).failed \subseteq Excepted(s)
<1> DEFINE a == Asserted(s, "closed promise pending", s.closed = "pending")
<1>1. a \in Slots
      BY FailedKeeps DEF Asserted, Assertions
<1>2. s.writer => a.failed \subseteq Excepted(s)
  <2>1. CASE s.closed = "pending"
        BY <2>1 DEF Asserted
  <2>2. CASE s.closed # "pending" /\ s.writer
    <3>1. a.failed = s.failed \cup {"closed promise pending"}
          BY <2>2 DEF Asserted, Slots
    <3>2. s.keysMatch
          BY <2>2, SlotsFacts
    <3> QED BY <3>1, <3>2 DEF Excepted
  <2> QED BY <2>1, <2>2
<1>3. /\ ClosedPromiseReject(s) = IF s.writer THEN [a EXCEPT !.closed = "rejected"] ELSE s
      /\ ClosedPromiseResolve(s) = IF s.writer THEN [a EXCEPT !.closed = "fulfilled"] ELSE s
      BY DEF ClosedPromiseReject, ClosedPromiseResolve
<1> HIDE DEF a
<1>4. /\ [a EXCEPT !.closed = "rejected"].failed = a.failed
      /\ [a EXCEPT !.closed = "fulfilled"].failed = a.failed
      BY <1>1 DEF Slots
<1> QED BY <1>2, <1>3, <1>4

LEMMA RejectCloseFailed ==
    ASSUME NEW s \in Slots, s.failed \subseteq Excepted(s),
           ~s.keysMatch /\ s.writer => s.closed = "pending"
    PROVE  LET t == RejectCloseAndClosedPromiseIfNeeded(s)
           IN  t.keysMatch = s.keysMatch /\ t.state = s.state /\ t.failed \subseteq Excepted(t)
<1> DEFINE t == RejectCloseAndClosedPromiseIfNeeded(s)
           b == [s EXCEPT !.promise[CloseRequest] = IF s.closeRequest THEN "rejected" ELSE @,
                          !.closeRequest = FALSE]
<1>1. t.keysMatch = s.keysMatch /\ t.state = s.state
      BY RejectCloseEffect DEF BesideClose
<1>2. Excepted(t) = Excepted(s)
      BY <1>1 DEF Excepted
<1>3. t.failed \subseteq Excepted(s)
  <2>1. CASE s.closeRequest /\ ~s.keysMatch
        BY <2>1 DEF RejectCloseAndClosedPromiseIfNeeded
  <2>2. CASE ~(s.closeRequest /\ ~s.keysMatch)
    <3>1. t = ClosedPromiseReject(b)
          BY <2>2 DEF RejectCloseAndClosedPromiseIfNeeded
    <3>2. b \in Slots
      <4> DEFINE p == IF s.closeRequest THEN [s.promise EXCEPT ![CloseRequest] = "rejected"]
                      ELSE s.promise
                 c == [s EXCEPT !.promise = p]
                 d == [c EXCEPT !.closeRequest = FALSE]
      <4>1. s.promise \in [Promises -> PromiseStates] /\ CloseRequest \in Promises
            BY SlotsFacts DEF Promises
      <4>2. p \in [Promises -> PromiseStates]
            BY <4>1 DEF PromiseStates
      <4>3. [s.promise EXCEPT ![CloseRequest] = IF s.closeRequest THEN "rejected" ELSE @] = p
            BY <4>1
      <4>4. b = d
            BY <4>3 DEF Slots
      <4>5. c \in Slots
        <5> HIDE DEF p
        <5> QED BY <4>2, SeenFields
      <4> HIDE DEF b, c
      <4>6. d \in Slots
            BY <4>5, SeenFields
      <4> QED BY <4>4, <4>6
    <3>3. b.keysMatch = s.keysMatch /\ b.writer = s.writer /\ b.closed = s.closed
          /\ b.failed = s.failed
          BY DEF Slots
    <3> HIDE DEF b
    <3>4. Excepted(b) = Excepted(s)
          BY <3>3 DEF Excepted
    <3>5. ClosedPromiseReject(b).failed \subseteq Excepted(b)
          BY <3>2, <3>3, <3>4, ClosedPromiseFailed
    <3> QED BY <3>1, <3>4, <3>5
  <2> QED BY <2>1, <2>2
<1> HIDE DEF t
<1>4. t.keysMatch = s.keysMatch /\ t.state = s.state /\ t.failed \subseteq Excepted(t)
      BY <1>1, <1>2, <1>3
<1> QED BY <1>4 DEF t

\* The assertions and the promise of abort() behind which erroring ends.
LEMMA FinishErroringTold ==
    ASSUME NEW s \in Slots, ~HasOperationMarkedInFlight(s), s.failed \subseteq Excepted(s),
           s.writer => s.closed = "pending"
    PROVE  Told(FinishErroring(s))
<1> DEFINE e1 == [s EXCEPT !.state = "errored"]
           e == [e1 EXCEPT !.queue = <<>>]
           p == [q \in Promises |->
                    IF Contains(s.writeRequests, q) THEN "rejected" ELSE s.promise[q]]
           r1 == [e EXCEPT !.writeRequests = <<>>]
           r2 == [r1 EXCEPT !.promise = p]
           r == [r2 EXCEPT !.pendingAbortRequest = "none"]
           pa == [p EXCEPT ![AbortRequest] = "rejected"]
           ra == [r EXCEPT !.promise = pa]
           c == [r EXCEPT !.sinkCalls = @ \cup {"abort"}, !.sinkLog = Append(@, AbortRequest)]
           reject(t) == RejectCloseAndClosedPromiseIfNeeded(t)
<1>1. /\ s.promise \in [Promises -> PromiseStates] /\ AbortRequest \in Promises
      /\ s.keysMatch \in BOOLEAN
      BY SlotsFacts DEF Promises
<1>2. p \in [Promises -> PromiseStates] /\ pa \in [Promises -> PromiseStates]
      BY <1>1 DEF PromiseStates
<1>3. e \in Slots /\ e.promise = s.promise
  <2>1. e1 \in Slots
        BY SeenFields
  <2>2. <<>> \in Seq([value : Chunks \cup {CloseRequest}, size : Nat])
        OBVIOUS
  <2>3. e \in Slots
    <3> HIDE DEF e1
    <3> QED BY <2>1, <2>2, SeenFields
  <2> QED BY <2>3 DEF Slots
<1>4. /\ e.keysMatch = s.keysMatch /\ e.state = "errored" /\ e.failed = s.failed
      /\ e.writer = s.writer /\ e.closed = s.closed
      BY DEF Slots
<1>5. r \in Slots
  <2> HIDE DEF e, p
  <2>1. <<>> \in Seq(Chunks)
        OBVIOUS
  <2>2. r1 \in Slots
        BY <1>3, <2>1, SeenFields
  <2>3. r2 \in Slots
    <3> HIDE DEF r1
    <3> QED BY <1>2, <2>2, SeenFields
  <2> HIDE DEF r2
  <2> QED BY <2>3, SeenFields
<1>6. /\ r.keysMatch = s.keysMatch /\ r.state = "errored" /\ r.failed = s.failed
      /\ r.writer = s.writer /\ r.closed = s.closed /\ r.promise = p
  <2> HIDE DEF e, p
  <2> QED BY <1>3, <1>4 DEF Slots
<1>7. ra \in Slots
  <2> HIDE DEF r, pa
  <2> QED BY <1>2, <1>5, SeenFields
<1>8. /\ ra.keysMatch = s.keysMatch /\ ra.state = "errored" /\ ra.failed = s.failed
      /\ ra.writer = s.writer /\ ra.closed = s.closed
  <2> HIDE DEF r, pa
  <2> QED BY <1>5, <1>6 DEF Slots
<1>9. c.keysMatch = s.keysMatch /\ c.state = "errored" /\ c.failed = s.failed
  <2> HIDE DEF r
  <2> QED BY <1>5, <1>6 DEF Slots
<1>10. FinishErroring(s) \in {e, reject(r), reject(ra), c}
  <2>1. Asserted(s, "nothing in flight", ~HasOperationMarkedInFlight(s)) = s
        BY DEF Asserted
  <2>2. [s EXCEPT !.state = "errored", !.queue = <<>>] = e
        OBVIOUS
  <2>3. [e EXCEPT !.writeRequests = <<>>,
                  !.promise = [q \in Promises |->
                      IF Contains(s.writeRequests, q) THEN "rejected" ELSE @[q]],
                  !.pendingAbortRequest = "none"] = r
    <3> HIDE DEF e
    <3> QED BY <1>3 DEF Slots
  <2>4. [r EXCEPT !.promise[AbortRequest] = "rejected"] = ra
    <3> HIDE DEF r, p
    <3> QED BY <1>6
  <2> DEFINE threw == s.writeRequests # <<>> /\ ~s.keysMatch
             none == s.pendingAbortRequest = "none"
             late == s.pendingAbortRequest = "madeWhileErroring" /\ s.keysMatch
  <2>5. FinishErroring(s) =
            CASE threw -> e
              [] ~threw /\ none -> reject(r)
              [] ~threw /\ late -> reject(ra)
              [] OTHER -> c
    <3> HIDE DEF e, r, ra
    <3> QED BY <2>1, <2>2, <2>3, <2>4, ZenonT(40) DEF FinishErroring
  <2>6. ~(none /\ late)
        OBVIOUS
  <2> DEFINE rejected == reject(r)
             rejectedAll == reject(ra)
  <2> HIDE DEF e, r, c, ra, rejected, rejectedAll
  <2>7. FinishErroring(s) =
            CASE threw -> e
              [] ~threw /\ none -> rejected
              [] ~threw /\ late -> rejectedAll
              [] OTHER -> c
        BY <2>5 DEF rejected, rejectedAll
  <2> HIDE DEF threw, none, late
  <2>8. FinishErroring(s) \in {e, rejected, rejectedAll, c}
    <3>1. CASE threw
          BY <2>7, <3>1
    <3>2. CASE ~threw /\ none
          BY <2>6, <2>7, <3>2
    <3>3. CASE ~threw /\ late
          BY <2>6, <2>7, <3>3
    <3>4. CASE ~threw /\ ~none /\ ~late
          BY <2>7, <3>4
    <3> QED BY <3>1, <3>2, <3>3, <3>4
  <2> QED BY <2>8 DEF rejected, rejectedAll
<1> HIDE DEF e, r, ra, c
<1>11. Told(e) /\ Told(c)
  <2>1. Excepted(e) = Excepted(s) /\ Excepted(c) = Excepted(s)
        BY <1>4, <1>9 DEF Excepted
  <2> QED BY <1>4, <1>9, <2>1, EndedTold
<1>12. ASSUME NEW t \in {r, ra}
       PROVE  Told(reject(t))
  <2>1. /\ t \in Slots /\ t.state = "errored" /\ t.keysMatch = s.keysMatch
        /\ t.failed = s.failed /\ t.writer = s.writer /\ t.closed = s.closed
        BY <1>5, <1>6, <1>7, <1>8
  <2>2. t.failed \subseteq Excepted(t)
        BY <2>1 DEF Excepted
  <2>3. /\ reject(t).state = "errored" /\ reject(t).failed \subseteq Excepted(reject(t))
        BY <2>1, <2>2, RejectCloseFailed
  <2> QED BY <2>3, EndedTold
<1> QED BY <1>10, <1>11, <1>12

LEMMA StartErroringTold ==
    ASSUME NEW s \in Slots, Honest(s), s.state = "writable"
    PROVE  Told(StartErroring(s))
<1> DEFINE a == [s EXCEPT !.state = "erroring"]
           b == [a EXCEPT !.storedError = TRUE]
           d == [b EXCEPT !.ready = "rejected"]
<1>1. StartErroring(s) =
          IF s.started /\ ~HasOperationMarkedInFlight(s) THEN FinishErroring(d) ELSE d
  <2>1. Asserted(s, "no stored error", ~s.storedError) = s
        BY DEF Asserted, Honest
  <2> QED BY <2>1 DEF StartErroring, EnsureReadyPromiseRejected
<1>2. a \in Slots
      BY SeenFields
<1>3. d \in Slots
  <2> HIDE DEF a
  <2>1. b \in Slots
        BY <1>2, HiddenFields
  <2> HIDE DEF b
  <2> QED BY <2>1, HiddenFields
<1>4. /\ d.keysMatch = s.keysMatch /\ d.state = "erroring" /\ d.failed = s.failed
      /\ d.writer = s.writer /\ d.closed = s.closed
      /\ d.inFlightWriteRequest = s.inFlightWriteRequest
      /\ d.inFlightCloseRequest = s.inFlightCloseRequest
      BY DEF Slots
<1> HIDE DEF d
<1>5. d.writer => d.closed = "pending"
      BY <1>4 DEF Honest
<1>6. d.failed \subseteq Excepted(d)
      BY <1>4 DEF Honest, Excepted
<1>7. Told(d)
      BY <1>4, <1>5, <1>6, ErroringTold DEF Honest
<1>8. ~HasOperationMarkedInFlight(s) => Told(FinishErroring(d))
  <2>1. HasOperationMarkedInFlight(d) <=> HasOperationMarkedInFlight(s)
        BY <1>4 DEF HasOperationMarkedInFlight
  <2> QED BY <1>3, <1>5, <1>6, <2>1, FinishErroringTold
<1> QED BY <1>1, <1>7, <1>8

LEMMA DealWithRejectionTold ==
    ASSUME NEW s \in Slots, Honest(s), s.state \in {"writable", "erroring"},
           ~HasOperationMarkedInFlight(s)
    PROVE  Told(DealWithRejection(s))
<1>1. CASE s.state = "writable"
      BY <1>1, StartErroringTold DEF DealWithRejection
<1>2. CASE s.state = "erroring"
      BY <1>2, FinishErroringTold DEF DealWithRejection, Asserted, Honest
<1> QED BY <1>1, <1>2

\* The ready promise follows the backpressure, and its assertions hold.
LEMMA UpdateTold ==
    ASSUME NEW s \in Slots, Honest(s), Open(s), ReadyAgrees(s)
    PROVE  Told(UpdateBackpressure(s))
<1> DEFINE pressed == GetBackpressure(s)
           a == [s EXCEPT !.backpressure = pressed]
           t == UpdateBackpressure(s)
<1>1. pressed \in BOOLEAN
      BY DEF GetBackpressure
<1>2. s.writer \in BOOLEAN /\ s.backpressure \in BOOLEAN
      BY SlotsFacts
<1> HIDE DEF pressed
<1>3. a \in Slots
      BY <1>1, HiddenFields
<1>4. /\ a.keysMatch = s.keysMatch /\ a.state = s.state /\ a.storedError = s.storedError
      /\ a.writer = s.writer /\ a.ready = s.ready /\ a.closed = s.closed
      /\ a.backpressure = pressed /\ a.queue = s.queue
      /\ a.closeRequest = s.closeRequest
      /\ a.inFlightCloseRequest = s.inFlightCloseRequest
      /\ a.failed = s.failed
      BY DEF Slots
<1> DEFINE View(u) == /\ u.keysMatch = s.keysMatch /\ u.state = s.state
                      /\ u.storedError = s.storedError
                      /\ u.writer = s.writer /\ u.closed = s.closed
                      /\ u.backpressure = pressed /\ u.queue = s.queue
                      /\ u.failed = s.failed
<1>5. View(t) /\ ReadyAgrees(t)
  <2>1. CASE ~s.writer \/ pressed = s.backpressure
    <3>1. t = a
          BY <1>2, <2>1 DEF UpdateBackpressure, pressed
    <3> HIDE DEF a, t
    <3> QED BY <1>4, <2>1, <3>1 DEF ReadyAgrees
  <2>2. CASE s.writer /\ pressed /\ ~s.backpressure
    <3>1. t = ReadyPromiseReset(a)
          BY <1>2, <2>2 DEF UpdateBackpressure, pressed
    <3> HIDE DEF a
    <3>2. a.ready # "pending"
          BY <1>4, <2>2 DEF ReadyAgrees
    <3>3. t = [a EXCEPT !.ready = "pending"]
          BY <3>1, <3>2 DEF ReadyPromiseReset, Asserted
    <3> HIDE DEF t
    <3>4. View(t) /\ t.ready = "pending"
          BY <1>3, <1>4, <3>3 DEF Slots
    <3> QED BY <2>2, <3>4 DEF ReadyAgrees
  <2>3. CASE s.writer /\ ~pressed /\ s.backpressure
    <3>1. t = ReadyPromiseResolve(a)
          BY <1>2, <2>3 DEF UpdateBackpressure, pressed
    <3> HIDE DEF a
    <3>2. a.ready = "pending"
          BY <1>4, <2>3 DEF ReadyAgrees
    <3>3. t = [a EXCEPT !.ready = "fulfilled"]
          BY <3>1, <3>2 DEF ReadyPromiseResolve, Asserted
    <3> HIDE DEF t
    <3>4. View(t) /\ t.ready = "fulfilled"
          BY <1>3, <1>4, <3>3 DEF Slots
    <3> QED BY <2>3, <3>4 DEF ReadyAgrees
  <2> QED BY <1>1, <1>2, <2>1, <2>2, <2>3
<1> HIDE DEF t
<1>6. Honest(t)
      BY <1>5 DEF Honest, Excepted
<1>7. t.backpressure <=> GetBackpressure(t)
      BY <1>5 DEF GetBackpressure, QueueTotalSize, pressed
<1>8. Told(t)
      BY <1>5, <1>6, <1>7 DEF Told
<1> QED BY <1>8 DEF t

LEMMA AdvanceTold ==
    ASSUME NEW s, MayAdvance(s), Told(s)
    PROVE  Told(AdvanceQueueIfNeeded(s))
<1> DEFINE idle == s.started /\ s.inFlightWriteRequest = None
           waits == idle /\ s.state = "writable" /\ s.queue # <<>>
           closes == Head(s.queue).value = CloseRequest
<1>1. s \in Slots /\ Honest(s)
      BY DEF MayAdvance, Loose, Told
<1>2. CASE idle /\ s.state = "erroring"
  <2>1. AdvanceQueueIfNeeded(s) = FinishErroring(s)
        BY <1>2 DEF AdvanceQueueIfNeeded
  <2>2. ~HasOperationMarkedInFlight(s)
        BY <1>2 DEF HasOperationMarkedInFlight, MayAdvance
  <2> QED BY <1>1, <1>2, <2>1, <2>2, FinishErroringTold DEF Honest
<1>3. CASE waits /\ closes
  <2> DEFINE t == ProcessClose(s)
             m == [s EXCEPT !.closeRequest = FALSE, !.inFlightCloseRequest = TRUE]
  <2>1. AdvanceQueueIfNeeded(s) = t
        BY <1>3 DEF AdvanceQueueIfNeeded
  <2>2. s.closeRequest /\ Len(s.queue) = 1
        BY <1>3, HeadOfQueue
  <2>3. t = [m EXCEPT !.queue = Tail(@), !.sinkCalls = @ \cup {"close"},
                      !.sinkLog = Append(@, CloseRequest)]
        BY <2>2 DEF ProcessClose, MarkCloseRequestInFlight, Asserted
  <2>4. /\ t.keysMatch = s.keysMatch /\ t.state = s.state /\ t.storedError = s.storedError
        /\ t.writer = s.writer /\ t.closed = s.closed
        /\ t.inFlightCloseRequest = TRUE /\ t.failed = s.failed
        BY <1>1, <2>3 DEF Slots
  <2> HIDE DEF t
  <2>5. Honest(t) /\ ~Open(t)
        BY <1>1, <2>4 DEF Honest, Excepted, Open, CloseQueuedOrInFlight
  <2> QED BY <2>1, <2>5 DEF Told
<1>4. CASE waits /\ ~closes
  <2>1. AdvanceQueueIfNeeded(s) = ProcessWrite(s)
        BY <1>4 DEF AdvanceQueueIfNeeded
  <2>2. SameTold(s, ProcessWrite(s))
        BY <1>1 DEF ProcessWrite, MarkFirstWriteRequestInFlight, SameTold, Slots
  <2> QED BY <2>1, <2>2, SameToldStep
<1>5. CASE ~(idle /\ s.state = "erroring") /\ ~waits
  <2> HIDE DEF waits
  <2>1. AdvanceQueueIfNeeded(s) = s
        BY <1>5 DEF AdvanceQueueIfNeeded, waits
  <2> QED BY <2>1
<1> HIDE DEF idle, waits
<1> QED BY <1>2, <1>3, <1>4, <1>5

\* What the program does.
LEMMA AcquireTold ==
    ASSUME NEW s \in Slots, Told(s)
    PROVE  Told(AcquireWriter(s))
<1> DEFINE ready == InitialReadyPromise(s)
           closed == InitialClosedPromise(s)
           t == [s EXCEPT !.writer = TRUE, !.ready = ready, !.closed = closed]
<1>1. AcquireWriter(s) = t
      BY DEF AcquireWriter
<1>2. s.state \in {"writable", "erroring"} => closed = "pending"
      BY DEF InitialClosedPromise
<1>3. Open(s) => (ready = "pending" <=> s.backpressure)
  <2>1. CASE Open(s) /\ s.backpressure
        BY <2>1 DEF Open, InitialReadyPromise
  <2>2. CASE Open(s) /\ ~s.backpressure
        BY <2>2 DEF Open, InitialReadyPromise
  <2> QED BY <2>1, <2>2
<1> HIDE DEF ready, closed
<1>4. /\ t.keysMatch = s.keysMatch /\ t.state = s.state /\ t.storedError = s.storedError
      /\ t.writer = TRUE /\ t.ready = ready /\ t.closed = closed
      /\ t.backpressure = s.backpressure /\ t.queue = s.queue
      /\ t.closeRequest = s.closeRequest
      /\ t.inFlightCloseRequest = s.inFlightCloseRequest
      /\ t.failed = s.failed
      BY DEF Slots
<1> HIDE DEF t
<1>5. Honest(t)
      BY <1>2, <1>4 DEF Told, Honest, Excepted
<1>6. Open(t) => Open(s) /\ ReadyAgrees(t)
      BY <1>3, <1>4 DEF Open, CloseQueuedOrInFlight, ReadyAgrees
<1>7. GetBackpressure(t) <=> GetBackpressure(s)
      BY <1>4 DEF GetBackpressure, QueueTotalSize
<1> QED BY <1>1, <1>4, <1>5, <1>6, <1>7 DEF Told

LEMMA ReleaseTold ==
    ASSUME NEW s \in Slots, Told(s)
    PROVE  Told(ReleaseWriter(s))
<1> DEFINE t == ReleaseWriter(s)
<1>1. /\ t.keysMatch = s.keysMatch /\ t.state = s.state /\ t.storedError = s.storedError
      /\ t.writer = FALSE /\ t.backpressure = s.backpressure /\ t.queue = s.queue
      /\ t.closeRequest = s.closeRequest
      /\ t.inFlightCloseRequest = s.inFlightCloseRequest
      /\ t.failed = s.failed
      BY DEF ReleaseWriter, EnsureReadyPromiseRejected, EnsureClosedPromiseRejected, Slots
<1> HIDE DEF t
<1>2. Honest(t)
      BY <1>1 DEF Told, Honest, Excepted
<1>3. ReadyAgrees(t) /\ (Open(t) => Open(s))
      BY <1>1 DEF Open, CloseQueuedOrInFlight, ReadyAgrees
<1>4. GetBackpressure(t) <=> GetBackpressure(s)
      BY <1>1 DEF GetBackpressure, QueueTotalSize
<1>5. Told(t)
      BY <1>1, <1>2, <1>3, <1>4 DEF Told
<1> QED BY <1>5 DEF t

LEMMA AbortTold ==
    ASSUME NEW s \in Slots, Told(s)
    PROVE  Told(AbortStream(s))
<1>1. ASSUME NEW how \in {"made", "madeWhileErroring"}
      PROVE  LET t == [s EXCEPT !.pendingAbortRequest = how, !.promise[AbortRequest] = "pending"]
             IN  t \in Slots /\ SameTold(s, t)
  <2> DEFINE p == [s.promise EXCEPT ![AbortRequest] = "pending"]
             a == [s EXCEPT !.pendingAbortRequest = how]
             t == [a EXCEPT !.promise = p]
  <2>1. p \in [Promises -> PromiseStates]
        BY SlotsFacts DEF PromiseStates
  <2>2. a \in Slots
        BY SeenFields
  <2>3. t = [s EXCEPT !.pendingAbortRequest = how, !.promise[AbortRequest] = "pending"]
        BY DEF Slots
  <2>4. t \in Slots
    <3> HIDE DEF a, p
    <3> QED BY <2>1, <2>2, SeenFields
  <2>5. SameTold(s, t)
    <3> HIDE DEF p
    <3> QED BY DEF SameTold, Slots
  <2> QED BY <2>3, <2>4, <2>5
<1> DEFINE made == [s EXCEPT !.pendingAbortRequest = "made",
                             !.promise[AbortRequest] = "pending"]
           late == [s EXCEPT !.pendingAbortRequest = "madeWhileErroring",
                             !.promise[AbortRequest] = "pending"]
<1>2. made \in Slots /\ SameTold(s, made) /\ SameTold(s, late)
      BY <1>1
<1>3. CASE s.pendingAbortRequest = "none" /\ s.state = "erroring"
  <2>1. AbortStream(s) = late
        BY <1>3 DEF AbortStream
  <2> HIDE DEF late
  <2> QED BY <1>2, <2>1, SameToldStep
<1>4. CASE s.pendingAbortRequest = "none" /\ s.state = "writable"
  <2>1. AbortStream(s) = StartErroring(made)
        BY <1>4 DEF AbortStream
  <2> HIDE DEF made
  <2>2. Told(made) /\ made.state = "writable"
        BY <1>2, <1>4, SameToldStep DEF SameTold
  <2> QED BY <1>2, <2>1, <2>2, StartErroringTold DEF Told
<1>5. CASE ~(s.pendingAbortRequest = "none" /\ s.state \in {"erroring", "writable"})
  <2>1. AbortStream(s) = s
        BY <1>5 DEF AbortStream
  <2> QED BY <2>1
<1> QED BY <1>3, <1>4, <1>5

LEMMA CloseTold ==
    ASSUME NEW s, WritableInvariant(s), Told(s), s.writer, ~CloseQueuedOrInFlight(s),
           s.state \in {"writable", "erroring"}
    PROVE  Told(CloseStream(s))
<1> DEFINE b == [s EXCEPT !.closeRequest = TRUE, !.promise[CloseRequest] = "pending"]
           r == [b EXCEPT !.ready = "fulfilled"]
           t == CloseEnqueued(s)
<1>1. s \in Slots
      BY DEF WritableInvariant, Loose
<1>2. \/ t = EnqueueValueWithSize(b, CloseRequest, 0)
      \/ t = EnqueueValueWithSize(r, CloseRequest, 0)
  <2>1. CASE s.backpressure /\ s.state = "writable"
    <3>1. s.ready = "pending"
          BY <2>1 DEF Told, Open, ReadyAgrees
    <3>2. b.ready = s.ready
          BY <1>1 DEF Slots
    <3> HIDE DEF b
    <3>3. ReadyPromiseResolve(b) = r
          BY <3>1, <3>2 DEF ReadyPromiseResolve, Asserted
    <3> QED BY <2>1, <3>3 DEF CloseEnqueued, b
  <2>2. CASE ~(s.backpressure /\ s.state = "writable")
        BY <2>2 DEF CloseEnqueued
  <2> QED BY <2>1, <2>2
<1>3. /\ t.keysMatch = s.keysMatch /\ t.state = s.state /\ t.storedError = s.storedError
      /\ t.writer = s.writer /\ t.closed = s.closed
      /\ t.closeRequest = TRUE /\ t.failed = s.failed
  <2> HIDE DEF t
  <2>1. CASE t = EnqueueValueWithSize(b, CloseRequest, 0)
        BY <1>1, <2>1 DEF EnqueueValueWithSize, Slots
  <2>2. CASE t = EnqueueValueWithSize(r, CloseRequest, 0)
        BY <1>1, <2>2 DEF EnqueueValueWithSize, Slots
  <2> QED BY <1>2, <2>1, <2>2
<1> HIDE DEF t
<1>4. Told(t)
      BY <1>3 DEF Told, Honest, Excepted, Open, CloseQueuedOrInFlight
<1>5. MayAdvance(t)
      BY CloseEnqueuedStep DEF t
<1>6. CloseStream(s) = AdvanceQueueIfNeeded(t)
      BY DEF CloseStream, ControllerClose, CloseEnqueued, t
<1> QED BY <1>4, <1>5, <1>6, AdvanceTold

LEMMA WriteSizedTold ==
    ASSUME NEW s, WritableInvariant(s), Told(s), s.sizing # None, NEW size
    PROVE  Told(WriteSized(s, size))
<1> DEFINE r == WriteRequested(s)
           e == WriteEnqueued(s, size)
           refused == [s EXCEPT !.sizing = None, !.sizingWriter = FALSE,
                                !.promise[s.sizing] = "rejected"]
<1>1. s \in Slots
      BY DEF WritableInvariant, Loose
<1>2. SameTold(s, refused)
      BY <1>1 DEF SameTold, Slots
<1>3. SameTold(s, r)
      BY <1>1 DEF SameTold, Slots, WriteRequested, AddWriteRequest
<1>4. CASE ~s.sizingWriter \/ s.state # "writable" \/ CloseQueuedOrInFlight(s)
  <2>1. WriteSized(s, size) = refused
    <3>1. WriteSized(s, size) = [[s EXCEPT !.sizing = None, !.sizingWriter = FALSE]
                                    EXCEPT !.promise[s.sizing] = "rejected"]
          BY <1>4 DEF WriteSized
    <3> QED BY <1>1, <3>1 DEF Slots
  <2> HIDE DEF refused
  <2> QED BY <1>2, <2>1, SameToldStep
<1>5. CASE Open(s) /\ s.sizingWriter
  <2>1. r \in Slots
        BY <1>5, RequestedStep DEF WriteRequested, Open, Loose
  <2>2. Told(r) /\ r.state = "writable" /\ Open(r)
    <3> HIDE DEF r
    <3> QED BY <1>3, <1>5, SameToldStep DEF SameTold, Open, CloseQueuedOrInFlight
  <2>3. CASE size \notin Sizes
    <3>1. WriteSized(s, size) = StartErroring(r)
          BY <1>5, <2>3 DEF WriteSized, WriteRequested, Open
    <3> HIDE DEF r
    <3> QED BY <2>1, <2>2, <3>1, StartErroringTold DEF Told
  <2>4. CASE size \in Sizes
    <3>1. WriteSized(s, size) = AdvanceQueueIfNeeded(UpdateBackpressure(e))
          BY <1>5, <2>4 DEF WriteSized, WriteEnqueued, WriteRequested, Open
    <3>2. MayAdvance(UpdateBackpressure(e))
          BY <1>5, <2>4, WriteSizedStep DEF Accepts, Open
    <3>3. s.sizing \in Chunks \cup {CloseRequest} /\ size \in Nat
          BY <1>1, <2>4, SlotsFacts, WritableStreamAssumption
    <3> HIDE DEF r
    <3>4. e = EnqueueValueWithSize(r, s.sizing, size)
          BY DEF WriteEnqueued, r
    <3> HIDE DEF e
    <3>5. e \in Slots
          BY <2>1, <3>3, <3>4, EnqueueEffect
    <3>6. /\ e.keysMatch = r.keysMatch /\ e.state = r.state /\ e.storedError = r.storedError
          /\ e.writer = r.writer /\ e.ready = r.ready /\ e.closed = r.closed
          /\ e.backpressure = r.backpressure
          /\ e.closeRequest = r.closeRequest
          /\ e.inFlightCloseRequest = r.inFlightCloseRequest
          /\ e.failed = r.failed
          BY <2>1, <3>4 DEF EnqueueValueWithSize, Slots
    <3>7. Honest(e) /\ Open(e) /\ ReadyAgrees(e)
          BY <2>2, <3>6 DEF Told, Honest, Excepted, Open, CloseQueuedOrInFlight, ReadyAgrees
    <3> QED BY <3>1, <3>2, <3>5, <3>7, UpdateTold, AdvanceTold
  <2> QED BY <2>3, <2>4
<1> QED BY <1>4, <1>5 DEF Open

\* An exception of size() is an error first, and a write of size 1 after it.
LEMMA SizeThrewTold ==
    ASSUME NEW s, WritableInvariant(s), Told(s), s.sizing # None
    PROVE  Told(SizeThrew(s))
<1> DEFINE errored == ErrorIfNeeded(s)
           t == [errored EXCEPT !.sizing = None, !.sizingWriter = FALSE,
                                !.promise[s.sizing] = "thrown"]
<1>1. WritableInvariant(errored) /\ errored.sizing = s.sizing
      BY ErrorStep DEF ErrorIfNeeded
<1>2. Told(errored)
      BY StartErroringTold DEF ErrorIfNeeded, Told, WritableInvariant, Loose
<1> HIDE DEF errored
<1>3. Told(WriteSized(errored, 1))
      BY <1>1, <1>2, WriteSizedTold
<1>4. SameTold(errored, t)
      BY <1>1 DEF SameTold, Slots, WritableInvariant, Loose
<1> HIDE DEF t
<1>5. Told(t)
      BY <1>2, <1>4, SameToldStep
<1> QED BY <1>3, <1>5 DEF errored, t, SizeThrew

\* The reactions to the promises of the sink.
LEMMA SettledSame ==
    ASSUME NEW s \in Slots, NEW call
    PROVE  SameTold(s, Settled(s, call))
BY DEF SameTold, Settled, Slots

LEMMA StartTold ==
    ASSUME NEW s, WritableInvariant(s), Told(s), "start" \in s.sinkCalls
    PROVE  Told(FinishStart(s)) /\ Told(FailStart(s))
<1> DEFINE t == MarkStarted(s)
<1>1. s \in Slots /\ CallsMarked(s)
      BY DEF WritableInvariant, Loose
<1>2. s.state \in {"writable", "erroring"}
      BY <1>1 DEF CallsMarked
<1>3. t = [Settled(s, "start") EXCEPT !.started = TRUE]
      BY <1>2 DEF MarkStarted, Asserted
<1>4. SameTold(s, t)
      BY <1>1, <1>3 DEF SameTold, Settled, Slots
<1>5. MayAdvance(t) /\ MayFinish(t)
      BY StartStep
<1> HIDE DEF t
<1>6. Told(t) /\ t.state \in {"writable", "erroring"}
      BY <1>2, <1>4, SameToldStep DEF SameTold
<1>7. Told(AdvanceQueueIfNeeded(t))
      BY <1>5, <1>6, AdvanceTold
<1>8. Told(DealWithRejection(t))
  <2>1. t \in Slots /\ ~HasOperationMarkedInFlight(t)
        BY <1>5 DEF MayFinish, Loose, InFlight, HasOperationMarkedInFlight
  <2> QED BY <1>6, <2>1, DealWithRejectionTold DEF Told
<1> QED BY <1>7, <1>8 DEF FinishStart, FailStart, t

LEMMA WriteEndsTold ==
    ASSUME NEW s, WritableInvariant(s), Told(s), "write" \in s.sinkCalls
    PROVE  Told(FinishInFlightWrite(s)) /\ Told(FinishInFlightWriteWithError(s))
<1> DEFINE a == Settled(s, "write")
           t == WriteEnded(s)
           u == [a EXCEPT !.promise[s.inFlightWriteRequest] = "rejected",
                          !.inFlightWriteRequest = None]
<1>1. s \in Slots
      BY DEF WritableInvariant, Loose
<1>2. a \in Slots /\ a.queue = s.queue /\ SameTold(s, a)
      BY <1>1, SettledEffect, SettledSame
<1>3. CASE ~s.keysMatch
  <2> HIDE DEF a
  <2> QED BY <1>2, <1>3, SameToldStep
          DEF FinishInFlightWrite, FinishInFlightWriteWithError, a
<1>4. CASE s.keysMatch
  <2>1. /\ Loose(u) /\ u.state \in {"writable", "erroring"}
        /\ u.inFlightWriteRequest = None /\ ~u.inFlightCloseRequest
    <3> DEFINE v == [a EXCEPT !.promise[s.inFlightWriteRequest] = "rejected",
                              !.inFlightWriteRequest = None,
                              !.queue = s.queue]
    <3>1. v = u
      <4> HIDE DEF a
      <4> QED BY <1>2 DEF Slots
    <3>2. /\ Loose(v) /\ v.state \in {"writable", "erroring"}
          /\ v.inFlightWriteRequest = None /\ ~v.inFlightCloseRequest
          BY <1>4, WriteEndsEffect
    <3> QED BY <3>1, <3>2
  <2>2. SameTold(s, u)
    <3> HIDE DEF a
    <3> QED BY <1>2 DEF SameTold, Slots
  <2>3. FinishInFlightWriteWithError(s) = DealWithRejection(u)
        BY <1>4 DEF FinishInFlightWriteWithError
  <2> HIDE DEF u
  <2>4. Told(DealWithRejection(u))
    <3>1. u \in Slots /\ ~HasOperationMarkedInFlight(u)
          BY <2>1 DEF Loose, HasOperationMarkedInFlight
    <3>2. Told(u)
          BY <2>2, SameToldStep
    <3> QED BY <2>1, <3>1, <3>2, DealWithRejectionTold DEF Told
  <2>5. t \in Slots
    <3>1. Loose(t)
          BY <1>4, WriteEndsEffect DEF WriteEnded
    <3> QED BY <3>1 DEF Loose
  <2>6. /\ t.keysMatch = s.keysMatch /\ t.state = s.state /\ t.storedError = s.storedError
        /\ t.writer = s.writer /\ t.ready = s.ready /\ t.closed = s.closed
        /\ t.backpressure = s.backpressure
        /\ t.closeRequest = s.closeRequest
        /\ t.inFlightCloseRequest = s.inFlightCloseRequest
        /\ t.failed = s.failed
    <3> HIDE DEF a
    <3>1. t = [a EXCEPT !.promise[s.inFlightWriteRequest] = "fulfilled",
                        !.inFlightWriteRequest = None,
                        !.queue = Tail(s.queue)]
          BY DEF WriteEnded, a
    <3> HIDE DEF t
    <3> QED BY <1>2, <3>1 DEF SameTold, Slots
  <2> HIDE DEF t
  <2>7. Honest(t) /\ (Open(t) => ReadyAgrees(t))
        BY <2>6 DEF Told, Honest, Excepted, Open, CloseQueuedOrInFlight, ReadyAgrees
  <2>8. Told(WriteUpdated(s))
    <3>1. CASE Open(t)
          BY <2>5, <2>7, <3>1, UpdateTold DEF WriteUpdated, Open, t
    <3>2. CASE ~Open(t)
      <4>1. WriteUpdated(s) = t
            BY <3>2 DEF WriteUpdated, Open, t
      <4> QED BY <2>7, <3>2, <4>1 DEF Told
    <3> QED BY <3>1, <3>2
  <2>9. /\ FinishInFlightWrite(s) = AdvanceQueueIfNeeded(WriteUpdated(s))
        /\ MayAdvance(WriteUpdated(s))
        BY <1>4, WriteStep
  <2> QED BY <2>3, <2>4, <2>8, <2>9, AdvanceTold
<1> QED BY <1>3, <1>4

LEMMA CloseEndsTold ==
    ASSUME NEW s, WritableInvariant(s), Told(s), "close" \in s.sinkCalls
    PROVE  Told(FinishInFlightClose(s)) /\ Told(FinishInFlightCloseWithError(s))
<1> DEFINE a == Settled(s, "close")
           u == CloseFailed(s)
<1>1. s \in Slots /\ CallsMarked(s)
      BY DEF WritableInvariant, Loose
<1>2. s.inFlightCloseRequest /\ s.state \in {"writable", "erroring"}
      BY <1>1 DEF CallsMarked, InFlight
<1>3. a \in Slots /\ SameTold(s, a)
      BY <1>1, SettledEffect, SettledSame
<1>4. CASE ~s.keysMatch
  <2> HIDE DEF a
  <2> QED BY <1>3, <1>4, SameToldStep
          DEF FinishInFlightClose, FinishInFlightCloseWithError, a
<1>5. CASE s.keysMatch
  <2>1. FinishInFlightCloseWithError(s) = DealWithRejection(u)
        BY <1>5 DEF FinishInFlightCloseWithError, CloseFailed
  <2>2. MayFinish(u)
        BY <1>5, CloseEndsStep
  <2>3. /\ u.keysMatch = s.keysMatch /\ u.state = s.state /\ u.storedError = s.storedError
        /\ u.writer = s.writer /\ u.closed = s.closed /\ u.failed = s.failed
    <3> HIDE DEF a
    <3>1. u = [a EXCEPT
                  !.promise[CloseRequest] = "rejected",
                  !.promise[AbortRequest] = IF s.pendingAbortRequest # "none"
                                            THEN "rejected" ELSE @,
                  !.inFlightCloseRequest = FALSE,
                  !.pendingAbortRequest = "none"]
          BY DEF CloseFailed, a
    <3> HIDE DEF u
    <3> QED BY <1>3, <3>1 DEF SameTold, Slots
  <2> HIDE DEF u
  <2>4. Told(DealWithRejection(u))
    <3>1. u \in Slots /\ ~HasOperationMarkedInFlight(u)
          BY <2>2 DEF MayFinish, Loose, InFlight, HasOperationMarkedInFlight
    <3>2. Honest(u)
          BY <2>3 DEF Told, Honest, Excepted
    <3> QED BY <1>2, <2>3, <3>1, <3>2, DealWithRejectionTold
  <2>5. Told(FinishInFlightClose(s))
    <3> DEFINE f == [a EXCEPT
                  !.promise[CloseRequest] = "fulfilled",
                  !.promise[AbortRequest] = IF s.pendingAbortRequest # "none"
                                            THEN "fulfilled" ELSE @,
                  !.inFlightCloseRequest = FALSE,
                  !.storedError = FALSE,
                  !.pendingAbortRequest = "none",
                  !.state = "closed"]
               g == Asserted(f, "closed promise pending", f.closed = "pending")
    <3>1. FinishInFlightClose(s) = IF f.writer THEN [g EXCEPT !.closed = "fulfilled"] ELSE f
          BY <1>5 DEF FinishInFlightClose, ClosedPromiseResolve
    <3>2. /\ f.keysMatch = s.keysMatch /\ f.state = "closed" /\ f.failed = s.failed
          /\ f.writer = s.writer /\ f.closed = s.closed
          /\ DOMAIN f = DOMAIN s
      <4> HIDE DEF a
      <4> QED BY <1>1, <1>3 DEF SameTold, Slots
    <3>3. f.writer => f.closed = "pending"
          BY <1>2, <3>2 DEF Told, Honest
    <3> HIDE DEF f
    <3>4. f.writer => g = f
          BY <3>3 DEF Asserted
    <3>5. /\ [f EXCEPT !.closed = "fulfilled"].state = "closed"
          /\ [f EXCEPT !.closed = "fulfilled"].keysMatch = s.keysMatch
          /\ [f EXCEPT !.closed = "fulfilled"].failed = s.failed
          BY <1>1, <3>2 DEF Slots
    <3> DEFINE t == FinishInFlightClose(s)
    <3>6. t = f \/ t = [f EXCEPT !.closed = "fulfilled"]
          BY <3>1, <3>4
    <3> HIDE DEF t, g
    <3>7. t.state = "closed" /\ t.keysMatch = s.keysMatch /\ t.failed = s.failed
          BY <3>2, <3>5, <3>6
    <3>8. t.failed \subseteq Excepted(t)
          BY <3>7 DEF Told, Honest, Excepted
    <3>9. Told(t)
          BY <3>7, <3>8, EndedTold
    <3> QED BY <3>9 DEF t
  <2> QED BY <2>1, <2>4, <2>5
<1> QED BY <1>4, <1>5

LEMMA AbortEndsTold ==
    ASSUME NEW s, WritableInvariant(s), Told(s), "abort" \in s.sinkCalls,
           NEW outcome \in {"fulfilled", "rejected"}
    PROVE  Told(FinishAbort(s, outcome))
<1> DEFINE a == Settled(s, "abort")
           p == [a.promise EXCEPT ![AbortRequest] = outcome]
           b == [a EXCEPT !.promise = p]
           t == RejectCloseAndClosedPromiseIfNeeded(b)
<1>1. s \in Slots /\ CallsMarked(s)
      BY DEF WritableInvariant, Loose
<1>2. s.state = "errored"
      BY <1>1 DEF CallsMarked
<1>3. a \in Slots /\ SameTold(s, a)
      BY <1>1, SettledEffect, SettledSame
<1>4. CASE ~s.keysMatch
  <2> HIDE DEF a
  <2> QED BY <1>3, <1>4, SameToldStep DEF FinishAbort, a
<1>5. CASE s.keysMatch
  <2>1. FinishAbort(s, outcome) = t
    <3>1. [a EXCEPT !.promise[AbortRequest] = outcome] = b
          OBVIOUS
    <3> HIDE DEF b
    <3> QED BY <1>5, <3>1 DEF FinishAbort, a
  <2> HIDE DEF a
  <2>2. p \in [Promises -> PromiseStates]
        BY <1>3, SlotsFacts DEF PromiseStates
  <2> HIDE DEF p
  <2>3. b \in Slots
        BY <1>3, <2>2, SeenFields
  <2>4. SameTold(s, b)
        BY <1>3 DEF SameTold, Slots
  <2> HIDE DEF b
  <2>5. Told(b) /\ b.state = "errored" /\ b.keysMatch
        BY <1>2, <1>5, <2>4, SameToldStep DEF SameTold
  <2>6. t.state = "errored" /\ t.failed \subseteq Excepted(t)
        BY <2>3, <2>5, RejectCloseFailed DEF Told, Honest
  <2> HIDE DEF t
  <2> QED BY <2>1, <2>6, EndedTold
<1> QED BY <1>4, <1>5

\* An empty queue has no size: FoldLeft returns its base.
LEMMA EmptyTotalSize ==
    ASSUME NEW s, s.queue = <<>>
    PROVE  QueueTotalSize(s) = 0
<1>1. DOMAIN s.queue = {}
      OBVIOUS
<1> QED BY <1>1 DEF QueueTotalSize, FoldLeft, MapThenFoldSet

LEMMA InitialTold ==
    ASSUME NEW keysMatch \in BOOLEAN
    PROVE  Told(NewStream(keysMatch))
<1> DEFINE s == NewStream(keysMatch)
<1>1. /\ s.state = "writable" /\ ~s.storedError /\ ~s.writer
      /\ s.queue = <<>> /\ s.failed = {}
      /\ s.backpressure <=> HighWaterMark = 0
      BY DEF NewStream
<1> HIDE DEF s
<1>2. QueueTotalSize(s) = 0
      BY <1>1, EmptyTotalSize
<1>3. s.backpressure <=> GetBackpressure(s)
      BY <1>1, <1>2, WritableStreamAssumption DEF GetBackpressure
<1>4. Told(s)
      BY <1>1, <1>3 DEF Told, Honest, ReadyAgrees
<1> QED BY <1>4 DEF s

LEMMA NextTold ==
    ASSUME WritableInvariant(stream), Told(stream), [Next]_stream
    PROVE  Told(stream)'
<1>1. stream \in Slots
      BY DEF WritableInvariant, Loose
<1>2. CASE GetWriter
      BY <1>1, <1>2, AcquireTold DEF GetWriter
<1>3. CASE ReleaseLock
      BY <1>1, <1>3, ReleaseTold DEF ReleaseLock
<1>4. CASE Abort
      BY <1>1, <1>4, AbortTold DEF Abort
<1>5. CASE Close
      BY <1>5, CloseTold DEF Close
<1>6. CASE ControllerError
      BY <1>1, <1>6, StartErroringTold DEF ControllerError, Told
<1>7. ASSUME NEW chunk \in Chunks, Write(chunk)
      PROVE  Told(stream)'
  <2>1. SameTold(stream, stream')
        BY <1>1, <1>7 DEF Write, Sizing, SameTold, Slots
  <2> QED BY <2>1, SameToldStep
<1>8. CASE SizeReturns
      BY <1>8, WriteSizedTold DEF SizeReturns
<1>9. CASE SizeThrows
      BY <1>9, SizeThrewTold DEF SizeThrows
<1>10. CASE SinkSettles
  <2>1. CASE StartSettles
        BY <2>1, StartTold DEF StartSettles, Reaction
  <2>2. CASE WriteSettles
        BY <2>2, WriteEndsTold DEF WriteSettles, Reaction
  <2>3. CASE CloseSettles
        BY <2>3, CloseEndsTold DEF CloseSettles, Reaction
  <2>4. CASE AbortSettles
        BY <2>4, AbortEndsTold DEF AbortSettles, Reaction
  <2> QED BY <1>10, <2>1, <2>2, <2>3, <2>4 DEF SinkSettles
<1>11. CASE UNCHANGED stream
      BY <1>11
<1> QED BY <1>2, <1>3, <1>4, <1>5, <1>6, <1>7, <1>8, <1>9, <1>10, <1>11 DEF Next

\* In every reachable state the backpressure is that of the queue, the ready promise
\* of the writer follows it, and no assertion has failed that is not excepted.
THEOREM ToldHolds == SafeSpec => []Told(stream)
<1>1. Init => Told(stream)
      BY InitialTold, WritableStreamAssumption DEF Init
<1>2. WritableInvariant(stream) /\ Told(stream) /\ [Next]_stream => Told(stream)'
      BY NextTold
<1> QED BY <1>1, <1>2, WritableInvariantHolds, PTL DEF SafeSpec

\* A writer's ready promise is pending exactly when the queue has reached the high
\* water mark, until a close is requested, whatever size() called.
THEOREM ReadyTellsBackpressureCorrect == SafeSpec => []ReadyTellsBackpressure
<1>1. Told(stream) => ReadyTellsBackpressure
  <2> SUFFICES ASSUME Told(stream), stream.writer, Open(stream)
               PROVE  (stream.ready = "pending") = GetBackpressure(stream)
      BY DEF ReadyTellsBackpressure, Open
  <2>1. stream.ready = "pending" <=> GetBackpressure(stream)
        BY DEF Told, ReadyAgrees
  <2>2. (stream.ready = "pending") \in BOOLEAN /\ GetBackpressure(stream) \in BOOLEAN
        BY DEF GetBackpressure
  <2> QED BY <2>1, <2>2
<1> QED BY <1>1, ToldHolds, PTL

\* Every assertion of writable.js holds whenever it is evaluated; with the keys made
\* to agree, all but the one of the closed promise.
THEOREM AssertionsHoldCorrect == SafeSpec => []AssertionsHold
<1>1. Told(stream) => AssertionsHold
      BY DEF Told, Honest, Excepted, AssertionsHold
<1> QED BY <1>1, ToldHolds, PTL

-----------------------------------------------------------------------------
(* The methods of the sink that an operation calls, as its user sees them.    *)

\* t is s after an operation, which calls at most one method of the sink: write() and
\* close() only while the stream is writable, abort() once it is errored.
Goes(s, t) ==
    /\ t.keysMatch = s.keysMatch /\ t.writer = s.writer
    /\ s.sinkCalls \subseteq t.sinkCalls
    /\ \/ t.sinkCalls \ s.sinkCalls = {}
       \/ t.sinkCalls \ s.sinkCalls = {"write"} /\ t.state = "writable"
       \/ /\ t.sinkCalls \ s.sinkCalls = {"close"}
          /\ t.state = "writable" /\ ~s.inFlightCloseRequest
       \/ t.sinkCalls \ s.sinkCalls = {"abort"} /\ t.state = "errored"
    /\ s.state # "writable" => t.state # "writable"
    /\ s.inFlightCloseRequest => t.inFlightCloseRequest \/ t.state # "writable"
    /\ t.inFlightCloseRequest =>
           s.inFlightCloseRequest \/ t.sinkCalls \ s.sinkCalls = {"close"}

\* Where the keys agree: a stream that the program ends begins to error because of an
\* abort() made by then, and has been errored only with a call of the sink's abort(),
\* unless it was erroring for another reason.
Ends(s, t) ==
    s.keysMatch =>
    /\ t.state = "erroring" =>
           \/ t.pendingAbortRequest = "made"
           \/ s.state = "erroring" /\ s.pendingAbortRequest # "made"
    /\ t.state \in {"errored", "closed"} =>
           \/ t.state = s.state
           \/ t.sinkCalls \ s.sinkCalls = {"abort"}
           \/ s.state = "erroring" /\ s.pendingAbortRequest # "made"

\* What Goes and Ends look at.
Kin(s, t) ==
    /\ t.keysMatch = s.keysMatch /\ t.writer = s.writer /\ t.state = s.state
    /\ t.sinkCalls = s.sinkCalls /\ t.inFlightCloseRequest = s.inFlightCloseRequest
    /\ t.pendingAbortRequest = s.pendingAbortRequest

LEMMA KinGoes ==
    ASSUME NEW s, NEW t, Kin(s, t)
    PROVE  /\ Goes(s, t) /\ Ends(s, t)
           /\ \A u : Goes(t, u) => Goes(s, u)
           /\ \A u : Ends(t, u) => Ends(s, u)
<1>1. Goes(s, t)
      BY DEF Kin, Goes
<1>2. Ends(s, t)
      BY DEF Kin, Ends
<1>3. ASSUME NEW u, Goes(t, u)
      PROVE  Goes(s, u)
      BY <1>3 DEF Kin, Goes
<1>4. ASSUME NEW u, Ends(t, u)
      PROVE  Ends(s, u)
      BY <1>4 DEF Kin, Ends
<1> QED BY <1>1, <1>2, <1>3, <1>4

LEMMA ClosedPromisesKin ==
    ASSUME NEW s \in Slots
    PROVE  Kin(s, ClosedPromiseReject(s)) /\ Kin(s, ClosedPromiseResolve(s))
<1> DEFINE a == Asserted(s, "closed promise pending", s.closed = "pending")
<1>1. a = s \/ a = [s EXCEPT !.failed = @ \cup {"closed promise pending"}]
      BY DEF Asserted
<1>2. Kin(s, a) /\ a \in Slots
  <2>1. "closed promise pending" \in Assertions
        BY DEF Assertions
  <2>2. a \in Slots
        BY <1>1, <2>1, FailedKeeps
  <2> HIDE DEF a
  <2> QED BY <1>1, <2>2 DEF Kin, Slots
<1>3. /\ ClosedPromiseReject(s) = IF s.writer THEN [a EXCEPT !.closed = "rejected"] ELSE s
      /\ ClosedPromiseResolve(s) = IF s.writer THEN [a EXCEPT !.closed = "fulfilled"] ELSE s
      BY DEF ClosedPromiseReject, ClosedPromiseResolve
<1> HIDE DEF a
<1>4. \A x : Kin(s, [a EXCEPT !.closed = x])
      BY <1>2 DEF Kin, Slots
<1>5. Kin(s, s)
      BY DEF Kin
<1> QED BY <1>3, <1>4, <1>5

LEMMA ReadyPromisesKin ==
    ASSUME NEW s \in Slots
    PROVE  Kin(s, ReadyPromiseReset(s)) /\ Kin(s, ReadyPromiseResolve(s))
<1> DEFINE a == Asserted(s, "ready promise", s.ready # "pending")
           b == Asserted(s, "ready promise", s.ready = "pending")
           f == [s EXCEPT !.failed = @ \cup {"ready promise"}]
<1>1. a \in {s, f} /\ b \in {s, f}
      BY DEF Asserted
<1>2. Kin(s, f) /\ f \in Slots /\ Kin(s, s)
  <2>1. "ready promise" \in Assertions
        BY DEF Assertions
  <2>2. f \in Slots
        BY <2>1, FailedKeeps
  <2> QED BY <2>2 DEF Kin, Slots
<1>3. /\ ReadyPromiseReset(s) = [a EXCEPT !.ready = "pending"]
      /\ ReadyPromiseResolve(s) = [b EXCEPT !.ready = "fulfilled"]
      BY DEF ReadyPromiseReset, ReadyPromiseResolve
<1> HIDE DEF a, b, f
<1>4. \A x, c : c \in {s, f} => Kin(s, [c EXCEPT !.ready = x])
      BY <1>2 DEF Kin, Slots
<1> QED BY <1>1, <1>3, <1>4

LEMMA UpdateKin ==
    ASSUME NEW s \in Slots
    PROVE  Kin(s, UpdateBackpressure(s))
<1> DEFINE backpressure == GetBackpressure(s)
           a == [s EXCEPT !.backpressure = backpressure]
<1>1. backpressure \in BOOLEAN
      BY DEF GetBackpressure
<1>2. UpdateBackpressure(s) \in {a, ReadyPromiseReset(a), ReadyPromiseResolve(a)}
  <2> HIDE DEF backpressure
  <2>1. s.backpressure \in BOOLEAN
        BY DEF Slots
  <2> QED BY <1>1, <2>1 DEF UpdateBackpressure, backpressure
<1> HIDE DEF backpressure
<1>3. a \in Slots /\ Kin(s, a)
      BY <1>1 DEF Slots, Kin
<1> HIDE DEF a
<1>4. Kin(a, ReadyPromiseReset(a)) /\ Kin(a, ReadyPromiseResolve(a))
      BY <1>3, ReadyPromisesKin
<1> QED BY <1>2, <1>3, <1>4 DEF Kin

LEMMA RejectCloseKin ==
    ASSUME NEW s \in Slots
    PROVE  Kin(s, RejectCloseAndClosedPromiseIfNeeded(s))
<1> DEFINE p == IF s.closeRequest THEN [s.promise EXCEPT ![CloseRequest] = "rejected"]
                ELSE s.promise
           a == [s EXCEPT !.promise = p]
           b == [a EXCEPT !.closeRequest = FALSE]
<1>1. s.promise \in [Promises -> PromiseStates] /\ CloseRequest \in Promises
      BY SlotsFacts DEF Promises
<1>2. p \in [Promises -> PromiseStates]
      BY <1>1 DEF PromiseStates
<1>3. [s.promise EXCEPT ![CloseRequest] = IF s.closeRequest THEN "rejected" ELSE @] = p
      BY <1>1
<1>4. RejectCloseAndClosedPromiseIfNeeded(s) =
          IF s.closeRequest /\ ~s.keysMatch THEN s ELSE ClosedPromiseReject(b)
      BY <1>3 DEF RejectCloseAndClosedPromiseIfNeeded, Slots
<1> HIDE DEF p
<1>5. b \in Slots
  <2>1. a \in Slots
        BY <1>2, SeenFields
  <2> HIDE DEF a
  <2> QED BY <2>1, SeenFields
<1>6. Kin(s, b) /\ Kin(s, s)
      BY DEF Kin, Slots
<1> HIDE DEF b
<1>7. Kin(b, ClosedPromiseReject(b))
      BY <1>5, ClosedPromisesKin
<1> QED BY <1>4, <1>6, <1>7 DEF Kin

\* Erroring ends with a call of abort(), if the program made the first request for it.
Errored(s, t) ==
    /\ t.keysMatch = s.keysMatch /\ t.writer = s.writer /\ t.state = "errored"
    /\ t.inFlightCloseRequest = s.inFlightCloseRequest
    /\ t.sinkCalls \in {s.sinkCalls, s.sinkCalls \cup {"abort"}}
    /\ s.keysMatch /\ s.pendingAbortRequest = "made" =>
           t.sinkCalls = s.sinkCalls \cup {"abort"}

LEMMA FinishErroringErrors ==
    ASSUME NEW s \in Slots, ~HasOperationMarkedInFlight(s)
    PROVE  Errored(s, FinishErroring(s))
<1> DEFINE e == [s EXCEPT !.state = "errored", !.queue = <<>>]
           p == [q \in Promises |->
                    IF Contains(s.writeRequests, q) THEN "rejected" ELSE s.promise[q]]
           r1 == [e EXCEPT !.writeRequests = <<>>]
           r2 == [r1 EXCEPT !.promise = p]
           r == [r2 EXCEPT !.pendingAbortRequest = "none"]
           pa == [p EXCEPT ![AbortRequest] = "rejected"]
           ra == [r EXCEPT !.promise = pa]
           c == [r EXCEPT !.sinkCalls = @ \cup {"abort"}, !.sinkLog = Append(@, AbortRequest)]
           threw == s.writeRequests # <<>> /\ ~s.keysMatch
           none == s.pendingAbortRequest = "none"
           late == s.pendingAbortRequest = "madeWhileErroring" /\ s.keysMatch
           rejected == RejectCloseAndClosedPromiseIfNeeded(r)
           rejectedAll == RejectCloseAndClosedPromiseIfNeeded(ra)
<1>1. /\ s.promise \in [Promises -> PromiseStates] /\ AbortRequest \in Promises
      /\ s.keysMatch \in BOOLEAN
      BY SlotsFacts DEF Promises
<1>2. p \in [Promises -> PromiseStates] /\ pa \in [Promises -> PromiseStates]
      BY <1>1 DEF PromiseStates
<1>3. e \in Slots /\ e.promise = s.promise
  <2> DEFINE e1 == [s EXCEPT !.state = "errored"]
  <2>1. e1 \in Slots
        BY SeenFields
  <2>2. <<>> \in Seq([value : Chunks \cup {CloseRequest}, size : Nat])
        OBVIOUS
  <2>3. e = [e1 EXCEPT !.queue = <<>>]
        OBVIOUS
  <2>4. e \in Slots
    <3> HIDE DEF e1
    <3> QED BY <2>1, <2>2, <2>3, SeenFields
  <2> QED BY <2>4 DEF Slots
<1>4. /\ e.keysMatch = s.keysMatch /\ e.state = "errored" /\ e.writer = s.writer
      /\ e.inFlightCloseRequest = s.inFlightCloseRequest /\ e.sinkCalls = s.sinkCalls
      BY DEF Slots
<1>5. r \in Slots
  <2> HIDE DEF e, p
  <2>1. <<>> \in Seq(Chunks)
        OBVIOUS
  <2>2. r1 \in Slots
        BY <1>3, <2>1, SeenFields
  <2>3. r2 \in Slots
    <3> HIDE DEF r1
    <3> QED BY <1>2, <2>2, SeenFields
  <2> HIDE DEF r2
  <2> QED BY <2>3, SeenFields
<1>6. /\ r.keysMatch = s.keysMatch /\ r.state = "errored" /\ r.writer = s.writer
      /\ r.inFlightCloseRequest = s.inFlightCloseRequest /\ r.sinkCalls = s.sinkCalls
      /\ r.promise = p
  <2> HIDE DEF e, p
  <2> QED BY <1>3, <1>4 DEF Slots
<1>7. ra \in Slots
  <2> HIDE DEF r, pa
  <2> QED BY <1>2, <1>5, SeenFields
<1>8. /\ ra.keysMatch = s.keysMatch /\ ra.state = "errored" /\ ra.writer = s.writer
      /\ ra.inFlightCloseRequest = s.inFlightCloseRequest /\ ra.sinkCalls = s.sinkCalls
  <2> HIDE DEF r, pa
  <2> QED BY <1>5, <1>6 DEF Slots
<1>9. /\ c.keysMatch = s.keysMatch /\ c.state = "errored" /\ c.writer = s.writer
      /\ c.inFlightCloseRequest = s.inFlightCloseRequest
      /\ c.sinkCalls = s.sinkCalls \cup {"abort"}
  <2> HIDE DEF r
  <2> QED BY <1>5, <1>6 DEF Slots
<1>10. FinishErroring(s) =
           CASE threw -> e
             [] ~threw /\ none -> rejected
             [] ~threw /\ late -> rejectedAll
             [] OTHER -> c
  <2>1. Asserted(s, "nothing in flight", ~HasOperationMarkedInFlight(s)) = s
        BY DEF Asserted
  <2>2. [e EXCEPT !.writeRequests = <<>>,
                  !.promise = [q \in Promises |->
                      IF Contains(s.writeRequests, q) THEN "rejected" ELSE @[q]],
                  !.pendingAbortRequest = "none"] = r
    <3> HIDE DEF e
    <3> QED BY <1>3 DEF Slots
  <2>3. [r EXCEPT !.promise[AbortRequest] = "rejected"] = ra
    <3> HIDE DEF r, p
    <3> QED BY <1>6
  <2> HIDE DEF r, ra
  <2> QED BY <2>1, <2>2, <2>3, ZenonT(40) DEF FinishErroring
<1>11. Kin(r, rejected) /\ Kin(ra, rejectedAll)
  <2> HIDE DEF r, ra
  <2> QED BY <1>5, <1>7, RejectCloseKin
<1> DEFINE t == FinishErroring(s)
<1> HIDE DEF e, r, ra, c, rejected, rejectedAll, t
<1>12. CASE threw
  <2>1. t = e
        BY <1>10, <1>12 DEF t
  <2>2. Errored(s, t)
        BY <1>4, <1>12, <2>1 DEF Errored
  <2> QED BY <2>2 DEF t
<1>13. CASE ~threw /\ none
  <2>1. t = rejected
    <3> HIDE DEF threw
    <3>1. ~late
          BY <1>13
    <3> HIDE DEF none, late
    <3> QED BY <1>10, <1>13, <3>1 DEF t
  <2>2. Errored(s, t)
        BY <1>6, <1>11, <1>13, <2>1 DEF Errored, Kin
  <2> QED BY <2>2 DEF t
<1>14. CASE ~threw /\ late
  <2>1. t = rejectedAll
    <3> HIDE DEF threw
    <3>1. ~none
          BY <1>14
    <3> HIDE DEF none, late
    <3> QED BY <1>10, <1>14, <3>1 DEF t
  <2>2. Errored(s, t)
        BY <1>8, <1>11, <1>14, <2>1 DEF Errored, Kin
  <2> QED BY <2>2 DEF t
<1>15. CASE ~threw /\ ~none /\ ~late
  <2>1. t = c
    <3> HIDE DEF threw, none, late
    <3> QED BY <1>10, <1>15 DEF t
  <2>2. Errored(s, t)
        BY <1>9, <2>1 DEF Errored
  <2> QED BY <2>2 DEF t
<1> HIDE DEF threw, none, late
<1> QED BY <1>12, <1>13, <1>14, <1>15

LEMMA ErroredGoes ==
    ASSUME NEW s, NEW t, Errored(s, t), "abort" \notin s.sinkCalls
    PROVE  /\ Goes(s, t)
           /\ s.state = "erroring" \/ s.pendingAbortRequest = "made" => Ends(s, t)
<1>1. CASE t.sinkCalls = s.sinkCalls
  <2>1. Goes(s, t)
        BY <1>1 DEF Errored, Goes
  <2>2. s.keysMatch => s.pendingAbortRequest # "made"
        BY <1>1 DEF Errored
  <2>3. s.state = "erroring" \/ s.pendingAbortRequest = "made" => Ends(s, t)
        BY <1>1, <2>2 DEF Errored, Ends
  <2> QED BY <2>1, <2>3
<1>2. CASE t.sinkCalls = s.sinkCalls \cup {"abort"}
  <2>1. t.sinkCalls \ s.sinkCalls = {"abort"}
        BY <1>2
  <2>2. Goes(s, t)
        BY <1>2, <2>1 DEF Errored, Goes
  <2>3. Ends(s, t)
        BY <2>1 DEF Errored, Ends
  <2> QED BY <2>2, <2>3
<1> QED BY <1>1, <1>2 DEF Errored

LEMMA StartErroringGoes ==
    ASSUME NEW s \in Slots, s.state = "writable", "abort" \notin s.sinkCalls
    PROVE  LET t == StartErroring(s)
           IN  /\ Goes(s, t) /\ t.state \in {"erroring", "errored"}
               /\ s.pendingAbortRequest = "made" => Ends(s, t)
<1> DEFINE a == Asserted(s, "no stored error", ~s.storedError)
           b == [a EXCEPT !.state = "erroring"]
           c == [b EXCEPT !.storedError = TRUE]
           d == [c EXCEPT !.ready = "rejected"]
           t == StartErroring(s)
<1>1. t = IF s.started /\ ~HasOperationMarkedInFlight(s) THEN FinishErroring(d) ELSE d
      BY DEF StartErroring, EnsureReadyPromiseRejected
<1>2. a = s \/ a = [s EXCEPT !.failed = @ \cup {"no stored error"}]
      BY DEF Asserted
<1>3. a \in Slots
  <2>1. "no stored error" \in Assertions
        BY DEF Assertions
  <2> HIDE DEF a
  <2> QED BY <1>2, <2>1, FailedKeeps
<1>4. Kin(s, a) /\ a.inFlightWriteRequest = s.inFlightWriteRequest
  <2> HIDE DEF a
  <2> QED BY <1>2, <1>3 DEF Kin, Slots
<1> HIDE DEF a, t
<1>5. b \in Slots
      BY <1>3, SeenFields
<1>6. d \in Slots
  <2> HIDE DEF b
  <2>1. c \in Slots
        BY <1>5, HiddenFields
  <2> HIDE DEF c
  <2> QED BY <2>1, HiddenFields
<1>7. /\ d.keysMatch = s.keysMatch /\ d.state = "erroring" /\ d.writer = s.writer
      /\ d.inFlightCloseRequest = s.inFlightCloseRequest /\ d.sinkCalls = s.sinkCalls
      /\ d.pendingAbortRequest = s.pendingAbortRequest
      /\ d.inFlightWriteRequest = s.inFlightWriteRequest
      BY <1>3, <1>4 DEF Kin, Slots
<1> HIDE DEF d
<1>8. CASE s.started /\ ~HasOperationMarkedInFlight(s)
  <2>1. ~HasOperationMarkedInFlight(d)
        BY <1>7, <1>8 DEF HasOperationMarkedInFlight
  <2>2. Errored(d, t)
        BY <1>1, <1>6, <1>8, <2>1, FinishErroringErrors
  <2>3. Errored(s, t)
        BY <1>7, <2>2 DEF Errored
  <2>4. Goes(s, t) /\ t.state = "errored" /\ (s.pendingAbortRequest = "made" => Ends(s, t))
        BY <2>3, ErroredGoes DEF Errored
  <2> QED BY <2>4 DEF t
<1>9. CASE ~(s.started /\ ~HasOperationMarkedInFlight(s))
  <2>1. t = d
        BY <1>1, <1>9
  <2>2. Goes(s, t) /\ t.state = "erroring" /\ (s.pendingAbortRequest = "made" => Ends(s, t))
        BY <1>7, <2>1 DEF Goes, Ends
  <2> QED BY <2>2 DEF t
<1> QED BY <1>8, <1>9

LEMMA DealGoes ==
    ASSUME NEW s \in Slots, s.state \in {"writable", "erroring"}, "abort" \notin s.sinkCalls,
           ~HasOperationMarkedInFlight(s)
    PROVE  LET t == DealWithRejection(s)
           IN  Goes(s, t) /\ t.state # "writable" /\ (s.state = "erroring" => Ends(s, t))
<1>1. CASE s.state = "writable"
      BY <1>1, StartErroringGoes DEF DealWithRejection
<1>2. CASE s.state = "erroring"
  <2>1. DealWithRejection(s) = FinishErroring(s)
        BY <1>2 DEF DealWithRejection, Asserted
  <2>2. Errored(s, FinishErroring(s))
        BY FinishErroringErrors
  <2> QED BY <1>2, <2>1, <2>2, ErroredGoes DEF Errored
<1> QED BY <1>1, <1>2

\* The queue goes on.
LEMMA AdvanceGoes ==
    ASSUME NEW s, MayAdvance(s)
    PROVE  Goes(s, AdvanceQueueIfNeeded(s)) /\ Ends(s, AdvanceQueueIfNeeded(s))
<1> DEFINE idle == s.started /\ s.inFlightWriteRequest = None
           waits == idle /\ s.state = "writable" /\ s.queue # <<>>
           closes == Head(s.queue).value = CloseRequest
           t == AdvanceQueueIfNeeded(s)
<1>1. /\ s \in Slots
      /\ s.state \in {"writable", "erroring"} => "abort" \notin s.sinkCalls
      /\ s.inFlightWriteRequest = None => "write" \notin s.sinkCalls
      /\ ~s.inFlightCloseRequest => "close" \notin s.sinkCalls
      BY DEF MayAdvance, Loose, CallsMarked
<1>2. CASE idle /\ s.state = "erroring"
  <2>1. t = FinishErroring(s)
        BY <1>2 DEF AdvanceQueueIfNeeded
  <2>2. ~HasOperationMarkedInFlight(s)
        BY <1>2 DEF HasOperationMarkedInFlight, MayAdvance
  <2>3. Errored(s, FinishErroring(s))
        BY <1>1, <2>2, FinishErroringErrors
  <2> HIDE DEF t
  <2>4. Goes(s, t) /\ Ends(s, t)
        BY <1>1, <1>2, <2>1, <2>3, ErroredGoes
  <2> QED BY <2>4 DEF t
<1>3. CASE waits /\ closes
  <2> DEFINE m == Asserted(s, "close requested", s.closeRequest)
             n == [m EXCEPT !.closeRequest = FALSE, !.inFlightCloseRequest = TRUE]
  <2>1. t = ProcessClose(s)
        BY <1>3 DEF AdvanceQueueIfNeeded
  <2>2. s.closeRequest /\ Len(s.queue) = 1 /\ ~s.inFlightCloseRequest
        BY <1>3, HeadOfQueue
  <2>3. t = [[s EXCEPT !.closeRequest = FALSE, !.inFlightCloseRequest = TRUE]
                EXCEPT !.queue = Tail(@), !.sinkCalls = @ \cup {"close"},
                       !.sinkLog = Append(@, CloseRequest)]
        BY <2>1, <2>2 DEF ProcessClose, MarkCloseRequestInFlight, Asserted
  <2> HIDE DEF t
  <2>4. /\ t.keysMatch = s.keysMatch /\ t.state = s.state /\ t.writer = s.writer
        /\ t.inFlightCloseRequest = TRUE /\ t.sinkCalls = s.sinkCalls \cup {"close"}
        /\ t.pendingAbortRequest = s.pendingAbortRequest
        BY <1>1, <2>3 DEF Slots
  <2>5. t.sinkCalls \ s.sinkCalls = {"close"}
        BY <1>1, <2>2, <2>4
  <2>6. Goes(s, t) /\ Ends(s, t)
        BY <1>3, <2>2, <2>4, <2>5 DEF Goes, Ends
  <2> QED BY <2>6 DEF t
<1>4. CASE waits /\ ~closes
  <2>1. t = ProcessWrite(s)
        BY <1>4 DEF AdvanceQueueIfNeeded
  <2>2. t = [[s EXCEPT !.inFlightWriteRequest = Head(s.writeRequests), !.writeRequests = Tail(@)]
                EXCEPT !.sinkCalls = @ \cup {"write"},
                       !.sinkLog = Append(@, Head(s.queue).value)]
        BY <2>1 DEF ProcessWrite, MarkFirstWriteRequestInFlight
  <2> HIDE DEF t
  <2>3. /\ t.keysMatch = s.keysMatch /\ t.state = s.state /\ t.writer = s.writer
        /\ t.inFlightCloseRequest = s.inFlightCloseRequest
        /\ t.sinkCalls = s.sinkCalls \cup {"write"}
        /\ t.pendingAbortRequest = s.pendingAbortRequest
        BY <1>1, <2>2 DEF Slots
  <2>4. t.sinkCalls \ s.sinkCalls = {"write"}
        BY <1>1, <1>4, <2>3
  <2>5. Goes(s, t) /\ Ends(s, t)
        BY <1>4, <2>3, <2>4 DEF Goes, Ends
  <2> QED BY <2>5 DEF t
<1>5. CASE ~(idle /\ s.state = "erroring") /\ ~waits
  <2> HIDE DEF waits
  <2>1. t = s
        BY <1>5 DEF AdvanceQueueIfNeeded, waits
  <2>2. Kin(s, s)
        BY DEF Kin
  <2> QED BY <2>1, <2>2, KinGoes
<1> HIDE DEF idle, waits, t
<1> QED BY <1>2, <1>3, <1>4, <1>5 DEF t

\* The operations, one by one.
LEMMA SizingKin ==
    ASSUME NEW s \in Slots, NEW chunk
    PROVE  Kin(s, Sizing(s, chunk)) /\ Sizing(s, chunk).sizing = chunk
BY DEF Sizing, Kin, Slots

\* A size that is none errors a stream that would have accepted the write.
LEMMA WriteSizedGoes ==
    ASSUME NEW s, WritableInvariant(s), s.sizing # None, NEW size
    PROVE  LET t == WriteSized(s, size)
           IN  /\ Goes(s, t)
               /\ Ends(s, t) \/ (s.state = "writable" /\ t.state # "writable")
               /\ s.state # "writable" => Kin(s, t)
<1> DEFINE r == WriteRequested(s)
           e == WriteEnqueued(s, size)
           u == UpdateBackpressure(e)
           t == WriteSized(s, size)
           refused == [s EXCEPT !.sizing = None, !.sizingWriter = FALSE,
                                !.promise[s.sizing] = "rejected"]
<1>1. s \in Slots /\ (s.state = "writable" => "abort" \notin s.sinkCalls)
      BY DEF WritableInvariant, Loose, CallsMarked
<1>2. CASE ~s.sizingWriter \/ s.state # "writable" \/ CloseQueuedOrInFlight(s)
  <2>1. t = refused
    <3>1. t = [[s EXCEPT !.sizing = None, !.sizingWriter = FALSE]
                                    EXCEPT !.promise[s.sizing] = "rejected"]
          BY <1>2 DEF WriteSized
    <3> QED BY <1>1, <3>1 DEF Slots
  <2>2. Kin(s, refused)
        BY <1>1 DEF Kin, Slots
  <2> HIDE DEF t, refused
  <2>3. Goes(s, t) /\ Ends(s, t) /\ Kin(s, t)
        BY <2>1, <2>2, KinGoes
  <2> QED BY <2>3 DEF t
<1>3. CASE Open(s) /\ s.sizingWriter
  <2>1. r \in Slots
        BY <1>3, RequestedStep DEF WriteRequested, Open, Loose
  <2>2. Kin(s, r)
        BY <1>1 DEF Kin, Slots, WriteRequested, AddWriteRequest
  <2>3. CASE size \in Sizes
    <3>1. t = AdvanceQueueIfNeeded(u)
          BY <1>3, <2>3 DEF WriteSized, WriteEnqueued, WriteRequested, Open
    <3>2. MayAdvance(u)
          BY <1>3, <2>3, WriteSizedStep DEF Accepts, Open
    <3>3. s.sizing \in Chunks \cup {CloseRequest} /\ size \in Nat
          BY <1>1, <2>3, SlotsFacts, WritableStreamAssumption
    <3> HIDE DEF r
    <3>4. e = EnqueueValueWithSize(r, s.sizing, size)
          BY DEF WriteEnqueued, r
    <3> HIDE DEF e
    <3>5. e \in Slots
          BY <2>1, <3>3, <3>4, EnqueueEffect
    <3>6. Kin(r, e)
          BY <2>1, <3>4 DEF EnqueueValueWithSize, Slots, Kin
    <3>7. Kin(e, u)
          BY <3>5, UpdateKin
    <3> HIDE DEF u, t
    <3>8. Kin(s, u)
          BY <2>2, <3>6, <3>7 DEF Kin
    <3>9. Goes(u, t) /\ Ends(u, t)
          BY <3>1, <3>2, AdvanceGoes
    <3>10. Goes(s, t) /\ Ends(s, t)
          BY <3>8, <3>9, KinGoes
    <3> QED BY <1>3, <3>10 DEF t, Open
  <2>4. CASE size \notin Sizes
    <3>1. t = StartErroring(r)
          BY <1>3, <2>4 DEF WriteSized, WriteRequested, Open
    <3> HIDE DEF r, t
    <3>2. r.state = "writable" /\ "abort" \notin r.sinkCalls
          BY <1>1, <1>3, <2>2 DEF Kin, Open
    <3>3. Goes(r, t) /\ t.state \in {"erroring", "errored"}
          BY <2>1, <3>1, <3>2, StartErroringGoes
    <3>4. Goes(s, t)
          BY <2>2, <3>3, KinGoes
    <3> QED BY <1>3, <3>3, <3>4 DEF t, Open
  <2> QED BY <2>3, <2>4
<1> QED BY <1>2, <1>3 DEF Open

LEMMA CloseGoes ==
    ASSUME NEW s, WritableInvariant(s), ~CloseQueuedOrInFlight(s),
           s.state \in {"writable", "erroring"}
    PROVE  Goes(s, CloseStream(s)) /\ Ends(s, CloseStream(s))
<1> DEFINE p == [s.promise EXCEPT ![CloseRequest] = "pending"]
           a == [s EXCEPT !.closeRequest = TRUE]
           b == [a EXCEPT !.promise = p]
           r == ReadyPromiseResolve(b)
           e == CloseEnqueued(s)
           t == CloseStream(s)
<1>1. s \in Slots
      BY DEF WritableInvariant, Loose
<1>2. b = [s EXCEPT !.closeRequest = TRUE, !.promise[CloseRequest] = "pending"]
      BY <1>1 DEF Slots
<1>3. b \in Slots
  <2>1. p \in [Promises -> PromiseStates]
        BY <1>1, SlotsFacts DEF PromiseStates
  <2>2. a \in Slots
        BY <1>1, SeenFields
  <2> HIDE DEF a, p
  <2> QED BY <2>1, <2>2, SeenFields
<1>4. Kin(s, b)
  <2> HIDE DEF p
  <2> QED BY <1>1 DEF Kin, Slots
<1>5. e = EnqueueValueWithSize(b, CloseRequest, 0) \/ e = EnqueueValueWithSize(r, CloseRequest, 0)
  <2> HIDE DEF b, r
  <2> QED BY <1>2 DEF CloseEnqueued, r
<1> HIDE DEF b
<1>6. Kin(b, r) /\ r \in Slots
      BY <1>3, ReadyPromisesKin, ReadyPromisesKeep
<1> HIDE DEF r
<1>7. ASSUME NEW c \in {b, r}
      PROVE  Kin(s, EnqueueValueWithSize(c, CloseRequest, 0))
  <2>1. c \in Slots /\ Kin(s, c)
        BY <1>3, <1>4, <1>6 DEF Kin
  <2> QED BY <2>1 DEF EnqueueValueWithSize, Slots, Kin
<1>8. Kin(s, e)
  <2> HIDE DEF e
  <2> QED BY <1>5, <1>7
<1>9. MayAdvance(e)
      BY CloseEnqueuedStep
<1>10. t = AdvanceQueueIfNeeded(e)
      BY DEF CloseStream, ControllerClose, CloseEnqueued
<1> HIDE DEF e, t
<1>11. Goes(e, t) /\ Ends(e, t)
      BY <1>9, <1>10, AdvanceGoes
<1>12. Goes(s, t) /\ Ends(s, t)
      BY <1>8, <1>11, KinGoes
<1> QED BY <1>12 DEF t

LEMMA AbortGoes ==
    ASSUME NEW s, WritableInvariant(s)
    PROVE  Goes(s, AbortStream(s)) /\ Ends(s, AbortStream(s))
<1> DEFINE t == AbortStream(s)
           req(how) == [s EXCEPT !.pendingAbortRequest = how, !.promise[AbortRequest] = "pending"]
<1>1. s \in Slots /\ (s.state = "writable" => "abort" \notin s.sinkCalls)
      BY DEF WritableInvariant, Loose, CallsMarked
<1>2. ASSUME NEW how \in {"made", "madeWhileErroring"}
      PROVE  /\ req(how) \in Slots /\ req(how).pendingAbortRequest = how
             /\ req(how).keysMatch = s.keysMatch /\ req(how).writer = s.writer
             /\ req(how).state = s.state /\ req(how).sinkCalls = s.sinkCalls
             /\ req(how).inFlightCloseRequest = s.inFlightCloseRequest
  <2> DEFINE p == [s.promise EXCEPT ![AbortRequest] = "pending"]
             a == [s EXCEPT !.pendingAbortRequest = how]
             u == [a EXCEPT !.promise = p]
  <2>1. p \in [Promises -> PromiseStates]
        BY <1>1, SlotsFacts DEF PromiseStates
  <2>2. a \in Slots
        BY <1>1, SeenFields
  <2>3. u = req(how)
        BY <1>1 DEF Slots
  <2>4. u \in Slots
    <3> HIDE DEF a, p
    <3> QED BY <2>1, <2>2, SeenFields
  <2>5. /\ u.keysMatch = s.keysMatch /\ u.writer = s.writer /\ u.state = s.state
        /\ u.sinkCalls = s.sinkCalls /\ u.inFlightCloseRequest = s.inFlightCloseRequest
        /\ u.pendingAbortRequest = how
    <3> HIDE DEF p
    <3> QED BY <1>1 DEF Slots
  <2> HIDE DEF u, req
  <2> QED BY <2>3, <2>4, <2>5
<1>3. CASE s.pendingAbortRequest = "none" /\ s.state = "erroring"
  <2> DEFINE late == req("madeWhileErroring")
  <2>1. t = late
        BY <1>3 DEF AbortStream
  <2>2. /\ late.keysMatch = s.keysMatch /\ late.writer = s.writer /\ late.state = s.state
        /\ late.sinkCalls = s.sinkCalls
        /\ late.inFlightCloseRequest = s.inFlightCloseRequest
        BY <1>2
  <2> HIDE DEF t, late
  <2>3. Goes(s, t) /\ Ends(s, t)
        BY <1>3, <2>1, <2>2 DEF Goes, Ends
  <2> QED BY <2>3 DEF t
<1>4. CASE s.pendingAbortRequest = "none" /\ s.state = "writable"
  <2> DEFINE made == req("made")
  <2>1. t = StartErroring(made)
        BY <1>4 DEF AbortStream
  <2>2. /\ made \in Slots /\ made.pendingAbortRequest = "made"
        /\ made.keysMatch = s.keysMatch /\ made.writer = s.writer /\ made.state = s.state
        /\ made.sinkCalls = s.sinkCalls
        /\ made.inFlightCloseRequest = s.inFlightCloseRequest
        BY <1>2
  <2> HIDE DEF t, made
  <2>3. Goes(made, t) /\ Ends(made, t) /\ t.state \in {"erroring", "errored"}
        BY <1>1, <1>4, <2>1, <2>2, StartErroringGoes
  <2>4. Goes(s, t)
        BY <2>2, <2>3 DEF Goes
  <2>5. Ends(s, t)
        BY <1>4, <2>2, <2>3 DEF Ends
  <2> QED BY <2>4, <2>5 DEF t
<1>5. CASE ~(s.pendingAbortRequest = "none" /\ s.state \in {"erroring", "writable"})
  <2>1. t = s
        BY <1>5 DEF AbortStream
  <2>2. Kin(s, s)
        BY DEF Kin
  <2> QED BY <2>1, <2>2, KinGoes
<1> QED BY <1>3, <1>4, <1>5

LEMMA ErrorIfNeededGoes ==
    ASSUME NEW s, WritableInvariant(s)
    PROVE  Goes(s, ErrorIfNeeded(s)) /\ ErrorIfNeeded(s).state # "writable"
<1>1. s \in Slots /\ (s.state = "writable" => "abort" \notin s.sinkCalls)
      BY DEF WritableInvariant, Loose, CallsMarked
<1>2. CASE s.state = "writable"
      BY <1>1, <1>2, StartErroringGoes DEF ErrorIfNeeded
<1>3. CASE s.state # "writable"
  <2>1. Kin(s, s)
        BY DEF Kin
  <2> QED BY <1>3, <2>1, KinGoes DEF ErrorIfNeeded
<1> QED BY <1>2, <1>3

LEMMA SizeThrewGoes ==
    ASSUME NEW s, WritableInvariant(s), s.sizing # None
    PROVE  LET t == SizeThrew(s)
           IN  /\ Goes(s, t)
               /\ Ends(s, t) \/ (s.state = "writable" /\ t.state # "writable")
<1> DEFINE e == ErrorIfNeeded(s)
           thrown == [e EXCEPT !.sizing = None, !.sizingWriter = FALSE,
                               !.promise[s.sizing] = "thrown"]
           w == WriteSized(e, 1)
           t == SizeThrew(s)
<1>1. WritableInvariant(e) /\ e.sizing = s.sizing
      BY ErrorStep DEF ErrorIfNeeded
<1>2. Goes(s, e) /\ e.state # "writable" /\ (s.state # "writable" => e = s)
      BY ErrorIfNeededGoes DEF ErrorIfNeeded
<1>3. t = thrown \/ t = w
      BY DEF SizeThrew
<1> HIDE DEF e, t
<1>4. Kin(e, thrown)
      BY <1>1 DEF Kin, Slots, WritableInvariant, Loose
<1> HIDE DEF thrown
<1>5. Kin(e, w)
      BY <1>1, <1>2, WriteSizedGoes
<1> HIDE DEF w
<1>6. Kin(e, t)
      BY <1>3, <1>4, <1>5
<1>7. Goes(s, t) /\ t.state # "writable"
      BY <1>2, <1>6 DEF Kin, Goes
<1>8. s.state # "writable" => Ends(s, t)
      BY <1>2, <1>6, KinGoes
<1> QED BY <1>7, <1>8 DEF t

LEMMA SettledKin ==
    ASSUME NEW s \in Slots, NEW call
    PROVE  LET d == Settled(s, call)
           IN  /\ d.keysMatch = s.keysMatch /\ d.writer = s.writer /\ d.state = s.state
               /\ d.sinkCalls = s.sinkCalls \ {call}
               /\ d.inFlightCloseRequest = s.inFlightCloseRequest
               /\ d.pendingAbortRequest = s.pendingAbortRequest
BY DEF Settled, Slots

LEMMA StartGoes ==
    ASSUME NEW s, WritableInvariant(s), "start" \in s.sinkCalls
    PROVE  LET d == Settled(s, "start")
               t == FinishStart(s)
               u == FailStart(s)
           IN  /\ Goes(d, t) /\ Ends(d, t) /\ "start" \notin t.sinkCalls
               /\ Goes(d, u) /\ u.state # "writable" /\ "start" \notin u.sinkCalls
<1> DEFINE d == Settled(s, "start")
           m == MarkStarted(s)
<1>1. s \in Slots /\ CallsMarked(s)
      BY DEF WritableInvariant, Loose
<1>2. s.state \in {"writable", "erroring"} /\ s.sinkCalls = {"start"}
      BY <1>1 DEF CallsMarked
<1>3. m = [d EXCEPT !.started = TRUE]
      BY <1>2 DEF MarkStarted, Asserted
<1>4. Kin(d, m) /\ m.sinkCalls = {} /\ m.state = s.state
      BY <1>1, <1>2, <1>3 DEF Settled, Slots, Kin
<1>5. MayAdvance(m) /\ MayFinish(m)
      BY StartStep
<1> DEFINE t == AdvanceQueueIfNeeded(m)
           u == DealWithRejection(m)
<1> HIDE DEF d, m
<1>6. Goes(m, t) /\ Ends(m, t)
      BY <1>5, AdvanceGoes
<1>7. Goes(m, u) /\ u.state # "writable"
  <2>1. m \in Slots /\ ~HasOperationMarkedInFlight(m)
        BY <1>5 DEF MayFinish, Loose, InFlight, HasOperationMarkedInFlight
  <2>2. m.state \in {"writable", "erroring"} /\ "abort" \notin m.sinkCalls
        BY <1>2, <1>4
  <2> QED BY <2>1, <2>2, DealGoes
<1> HIDE DEF t, u
<1>8. Goes(d, t) /\ Ends(d, t) /\ Goes(d, u)
      BY <1>4, <1>6, <1>7, KinGoes
<1>9. "start" \notin t.sinkCalls /\ "start" \notin u.sinkCalls
      BY <1>4, <1>6, <1>7 DEF Goes
<1> QED BY <1>7, <1>8, <1>9 DEF FinishStart, FailStart, d, m, t, u

LEMMA WriteEndsGoes ==
    ASSUME NEW s, WritableInvariant(s), "write" \in s.sinkCalls
    PROVE  LET d == Settled(s, "write")
               t == FinishInFlightWrite(s)
               u == FinishInFlightWriteWithError(s)
           IN  Goes(d, t) /\ Ends(d, t) /\ Goes(d, u) /\ (s.state # "writable" => Ends(d, u))
<1> DEFINE d == Settled(s, "write")
           t == FinishInFlightWrite(s)
           u == FinishInFlightWriteWithError(s)
           f == [d EXCEPT !.promise[s.inFlightWriteRequest] = "rejected",
                          !.inFlightWriteRequest = None]
           e == WriteEnded(s)
           v == WriteUpdated(s)
<1>1. s \in Slots /\ CallsMarked(s)
      BY DEF WritableInvariant, Loose
<1>2. d \in Slots /\ d.queue = s.queue
      BY <1>1, SettledEffect
<1>3. s.state \in {"writable", "erroring"} /\ "abort" \notin s.sinkCalls
      BY <1>1 DEF CallsMarked, InFlight
<1>4. d.state = s.state /\ d.sinkCalls = s.sinkCalls \ {"write"}
      BY <1>1, SettledKin
<1>5. CASE ~s.keysMatch
  <2>1. t = d /\ u = d
        BY <1>5 DEF FinishInFlightWrite, FinishInFlightWriteWithError
  <2>2. Kin(d, d)
        BY DEF Kin
  <2> QED BY <2>1, <2>2, KinGoes
<1>6. CASE s.keysMatch
  <2>1. u = DealWithRejection(f)
        BY <1>6 DEF FinishInFlightWriteWithError
  <2>2. f \in Slots /\ ~HasOperationMarkedInFlight(f)
    <3> DEFINE w == [d EXCEPT !.promise[s.inFlightWriteRequest] = "rejected",
                              !.inFlightWriteRequest = None,
                              !.queue = s.queue]
    <3>1. w = f
      <4> HIDE DEF d
      <4> QED BY <1>2 DEF Slots
    <3>2. Loose(w) /\ w.inFlightWriteRequest = None /\ ~w.inFlightCloseRequest
          BY <1>6, WriteEndsEffect
    <3> HIDE DEF w, f
    <3> QED BY <3>1, <3>2 DEF Loose, HasOperationMarkedInFlight
  <2>3. Kin(d, f)
    <3> HIDE DEF d
    <3> QED BY <1>2 DEF Kin, Slots
  <2>4. Kin(d, e) /\ e \in Slots
    <3>1. Loose(e)
          BY <1>6, WriteEndsEffect DEF WriteEnded
    <3>2. e = [d EXCEPT !.promise[s.inFlightWriteRequest] = "fulfilled",
                        !.inFlightWriteRequest = None,
                        !.queue = Tail(s.queue)]
          BY DEF WriteEnded
    <3> HIDE DEF d, e
    <3> QED BY <1>2, <3>1, <3>2 DEF Kin, Slots, Loose
  <2>5. v \in {e, UpdateBackpressure(e)}
        BY DEF WriteUpdated
  <2>6. t = AdvanceQueueIfNeeded(v) /\ MayAdvance(v)
        BY <1>6, WriteStep
  <2> HIDE DEF d, f, e, t, u, v
  <2>7. Kin(d, v)
    <3>1. Kin(e, UpdateBackpressure(e))
          BY <2>4, UpdateKin
    <3> QED BY <2>4, <2>5, <3>1 DEF Kin
  <2>8. Goes(d, t) /\ Ends(d, t)
        BY <2>6, <2>7, AdvanceGoes, KinGoes
  <2>9. f.state \in {"writable", "erroring"} /\ "abort" \notin f.sinkCalls /\ f.state = s.state
        BY <1>3, <1>4, <2>3 DEF Kin
  <2>10. Goes(f, u) /\ (f.state = "erroring" => Ends(f, u))
        BY <2>1, <2>2, <2>9, DealGoes
  <2>11. Goes(d, u) /\ (s.state # "writable" => Ends(d, u))
        BY <1>3, <2>3, <2>9, <2>10, KinGoes
  <2> QED BY <2>8, <2>11 DEF d, t, u
<1> QED BY <1>5, <1>6

LEMMA CloseEndsGoes ==
    ASSUME NEW s, WritableInvariant(s), "close" \in s.sinkCalls
    PROVE  LET d == Settled(s, "close")
           IN  Goes(d, FinishInFlightClose(s)) /\ Goes(d, FinishInFlightCloseWithError(s))
<1> DEFINE d == Settled(s, "close")
           u == CloseFailed(s)
           t == FinishInFlightClose(s)
           v == FinishInFlightCloseWithError(s)
<1>1. s \in Slots /\ CallsMarked(s)
      BY DEF WritableInvariant, Loose
<1>2. s.inFlightCloseRequest /\ s.state \in {"writable", "erroring"} /\ "abort" \notin s.sinkCalls
      BY <1>1 DEF CallsMarked, InFlight
<1>3. d \in Slots
      BY <1>1, SettledEffect
<1>4. d.state = s.state /\ d.sinkCalls = s.sinkCalls \ {"close"} /\ d.inFlightCloseRequest
      BY <1>1, <1>2, SettledKin
<1>5. CASE ~s.keysMatch
  <2>1. t = d /\ v = d
        BY <1>5 DEF FinishInFlightClose, FinishInFlightCloseWithError
  <2>2. Kin(d, d)
        BY DEF Kin
  <2> QED BY <2>1, <2>2, KinGoes
<1>6. CASE s.keysMatch
  <2>1. v = DealWithRejection(u)
        BY <1>6 DEF FinishInFlightCloseWithError, CloseFailed
  <2>2. MayFinish(u)
        BY <1>6, CloseEndsStep
  <2>3. /\ u.keysMatch = d.keysMatch /\ u.state = d.state /\ u.writer = d.writer
        /\ u.sinkCalls = d.sinkCalls
    <3>1. u = [d EXCEPT
                  !.promise[CloseRequest] = "rejected",
                  !.promise[AbortRequest] = IF s.pendingAbortRequest # "none"
                                            THEN "rejected" ELSE @,
                  !.inFlightCloseRequest = FALSE,
                  !.pendingAbortRequest = "none"]
          BY DEF CloseFailed
    <3> HIDE DEF u, d
    <3> QED BY <1>3, <3>1 DEF Slots
  <2> DEFINE f == [d EXCEPT
                  !.promise[CloseRequest] = "fulfilled",
                  !.promise[AbortRequest] = IF s.pendingAbortRequest # "none"
                                            THEN "fulfilled" ELSE @,
                  !.inFlightCloseRequest = FALSE,
                  !.storedError = FALSE,
                  !.pendingAbortRequest = "none",
                  !.state = "closed"]
             g == Asserted(f, "closed promise pending", f.closed = "pending")
  <2>4. t = IF f.writer THEN [g EXCEPT !.closed = "fulfilled"] ELSE f
        BY <1>6 DEF FinishInFlightClose, ClosedPromiseResolve
  <2>5. /\ f.keysMatch = d.keysMatch /\ f.state = "closed" /\ f.writer = d.writer
        /\ f.sinkCalls = d.sinkCalls /\ ~f.inFlightCloseRequest /\ DOMAIN f = DOMAIN d
    <3> HIDE DEF d
    <3> QED BY <1>3 DEF Slots
  <2> HIDE DEF d, f, u, t, v
  <2>6. g = f \/ g = [f EXCEPT !.failed = @ \cup {"closed promise pending"}]
        BY DEF Asserted
  <2> HIDE DEF g
  <2>7. /\ g.keysMatch = f.keysMatch /\ g.state = "closed" /\ g.writer = f.writer
        /\ g.sinkCalls = f.sinkCalls /\ ~g.inFlightCloseRequest /\ DOMAIN g = DOMAIN d
        BY <1>3, <2>5, <2>6 DEF Slots
  <2>8. /\ t.keysMatch = d.keysMatch /\ t.state = "closed" /\ t.writer = d.writer
        /\ t.sinkCalls = d.sinkCalls /\ ~t.inFlightCloseRequest
        BY <1>3, <2>4, <2>5, <2>7 DEF Slots
  <2>9. Goes(d, t)
        BY <2>8 DEF Goes
  <2>10. /\ u \in Slots /\ u.state \in {"writable", "erroring"} /\ "abort" \notin u.sinkCalls
         /\ ~HasOperationMarkedInFlight(u)
        BY <1>2, <1>4, <2>2, <2>3 DEF MayFinish, Loose, InFlight, HasOperationMarkedInFlight
  <2>11. Goes(u, v) /\ v.state # "writable"
        BY <2>1, <2>10, DealGoes
  <2>12. Goes(d, v)
        BY <1>4, <2>3, <2>11 DEF Goes
  <2> QED BY <2>9, <2>12 DEF d, t, v
<1> QED BY <1>5, <1>6

LEMMA AbortEndsGoes ==
    ASSUME NEW s, WritableInvariant(s), "abort" \in s.sinkCalls,
           NEW outcome \in {"fulfilled", "rejected"}
    PROVE  Kin(Settled(s, "abort"), FinishAbort(s, outcome))
<1> DEFINE d == Settled(s, "abort")
           p == [d.promise EXCEPT ![AbortRequest] = outcome]
           b == [d EXCEPT !.promise = p]
           t == RejectCloseAndClosedPromiseIfNeeded(b)
<1>1. s \in Slots
      BY DEF WritableInvariant, Loose
<1>2. d \in Slots
      BY <1>1, SettledEffect
<1>3. CASE ~s.keysMatch
      BY <1>3 DEF FinishAbort, Kin
<1>4. CASE s.keysMatch
  <2>1. FinishAbort(s, outcome) = t
    <3>1. [d EXCEPT !.promise[AbortRequest] = outcome] = b
          OBVIOUS
    <3> HIDE DEF b
    <3> QED BY <1>4, <3>1 DEF FinishAbort
  <2> HIDE DEF d
  <2>2. p \in [Promises -> PromiseStates]
        BY <1>2, SlotsFacts DEF PromiseStates
  <2> HIDE DEF p
  <2>3. b \in Slots
        BY <1>2, <2>2, SeenFields
  <2>4. Kin(d, b)
        BY <1>2 DEF Kin, Slots
  <2> HIDE DEF b
  <2>5. Kin(b, t)
        BY <2>3, RejectCloseKin
  <2> HIDE DEF t
  <2> QED BY <2>1, <2>4, <2>5 DEF Kin, d
<1> QED BY <1>3, <1>4
=============================================================================
