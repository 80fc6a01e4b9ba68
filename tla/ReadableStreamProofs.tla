------------------------ MODULE ReadableStreamProofs ------------------------
(***************************************************************************)
(* That a ReadableStream implements Channel, that no assertion of it fails *)
(* and that its reads are served in turn, for any chunks, sizes, high      *)
(* water mark and number of reads, with either keys.                       *)
(***************************************************************************)
EXTENDS ReadableStream, WellFoundedInduction, TLAPS

-----------------------------------------------------------------------------
(* The invariant: what makes the steps of a stream those of a channel.        *)

\* Reads are made in order, waiting ones are among those made; a read waits only while
\* the queue is empty and nothing is about to enter it, unless one began to wait in
\* size(); what the stream holds or has given was offered, and is not the chunk whose
\* size is being asked for.
ChannelInvariant(s) ==
    /\ s \in Slots
    /\ \A k \in DOMAIN s.readRequests : s.answers[s.readRequests[k]] # "none"
    /\ \E n \in 0..MaxReads : \A i \in Reads : s.answers[i] = "none" <=> i > n
    /\ s.state = "readable" /\ s.readRequests # <<>> /\ ~s.readInSize =>
           s.queue = <<>> /\ s.sizing = None
    /\ s.readInSize => \E i \in Reads : s.answers[i] # "none"
    /\ s.sizing # None => s.sizing \in s.offered
    /\ \A k \in DOMAIN s.queue : s.queue[k].value \in s.offered \ {s.sizing}
    /\ \A i \in Reads : s.answers[i] \in Chunks => s.answers[i] \in s.offered \ {s.sizing}
    /\ s.state = "readable" => ~s.cancelled

\* What the channel sees of a stream is the same.
SameChannel(s, t) ==
    /\ t.keysMatch = s.keysMatch /\ t.state = s.state /\ t.cancelled = s.cancelled
    /\ t.readRequests = s.readRequests /\ t.answers = s.answers
    /\ t.queue = s.queue
    /\ t.offered = s.offered /\ t.sizing = s.sizing
    /\ t.readInSize = s.readInSize

LEMMA SameChannelTrans ==
    ASSUME NEW s, NEW t, NEW u, SameChannel(s, t), SameChannel(t, u)
    PROVE  SameChannel(s, u)
BY DEF SameChannel

LEMMA SameChannelInvariant ==
    ASSUME NEW s, NEW t \in Slots, ChannelInvariant(s), SameChannel(s, t)
    PROVE  ChannelInvariant(t)
BY DEF ChannelInvariant, SameChannel

-----------------------------------------------------------------------------
(* The fields of the record.  Each operation keeps the type; what it changes  *)
(* is stated by the fields that the channel sees.                             *)

\* The fields that the channel does not see.
LEMMA HiddenFields ==
    ASSUME NEW s \in Slots
    PROVE  /\ \A x \in {"pending", "fulfilled", "rejected"} :
                 [s EXCEPT !.closed = x] \in Slots /\ SameChannel(s, [s EXCEPT !.closed = x])
           /\ \A x \in SUBSET Assertions :
                 [s EXCEPT !.failed = x] \in Slots /\ SameChannel(s, [s EXCEPT !.failed = x])
           /\ \A x \in SUBSET {"start", "pull"} :
                 [s EXCEPT !.sourceCalls = x] \in Slots /\ SameChannel(s, [s EXCEPT !.sourceCalls = x])
           /\ \A x \in BOOLEAN :
                 [s EXCEPT !.reader = x] \in Slots /\ SameChannel(s, [s EXCEPT !.reader = x])
           /\ \A x \in BOOLEAN :
                 [s EXCEPT !.started = x] \in Slots /\ SameChannel(s, [s EXCEPT !.started = x])
           /\ \A x \in BOOLEAN :
                 [s EXCEPT !.pulling = x] \in Slots /\ SameChannel(s, [s EXCEPT !.pulling = x])
           /\ \A x \in BOOLEAN :
                 [s EXCEPT !.pullAgain = x] \in Slots /\ SameChannel(s, [s EXCEPT !.pullAgain = x])
           /\ \A x \in BOOLEAN :
                 [s EXCEPT !.owing = x] \in Slots /\ SameChannel(s, [s EXCEPT !.owing = x])
           /\ \A x \in BOOLEAN :
                 [s EXCEPT !.idle = x] \in Slots /\ SameChannel(s, [s EXCEPT !.idle = x])
           /\ \A x \in BOOLEAN :
                 [s EXCEPT !.closeRequested = x] \in Slots /\ SameChannel(s, [s EXCEPT !.closeRequested = x])
<1>1. \A x \in {"pending", "fulfilled", "rejected"} :
         [s EXCEPT !.closed = x] \in Slots /\ SameChannel(s, [s EXCEPT !.closed = x])
      BY DEF Slots, SameChannel
<1>2. \A x \in SUBSET Assertions :
         [s EXCEPT !.failed = x] \in Slots /\ SameChannel(s, [s EXCEPT !.failed = x])
      BY DEF Slots, SameChannel
<1>3. \A x \in SUBSET {"start", "pull"} :
         [s EXCEPT !.sourceCalls = x] \in Slots /\ SameChannel(s, [s EXCEPT !.sourceCalls = x])
      BY DEF Slots, SameChannel
<1>4. \A x \in BOOLEAN :
         [s EXCEPT !.reader = x] \in Slots /\ SameChannel(s, [s EXCEPT !.reader = x])
      BY DEF Slots, SameChannel
<1>5. \A x \in BOOLEAN :
         [s EXCEPT !.started = x] \in Slots /\ SameChannel(s, [s EXCEPT !.started = x])
      BY DEF Slots, SameChannel
<1>6. \A x \in BOOLEAN :
         [s EXCEPT !.pulling = x] \in Slots /\ SameChannel(s, [s EXCEPT !.pulling = x])
      BY DEF Slots, SameChannel
<1>7. \A x \in BOOLEAN :
         [s EXCEPT !.pullAgain = x] \in Slots /\ SameChannel(s, [s EXCEPT !.pullAgain = x])
      BY DEF Slots, SameChannel
<1>8. \A x \in BOOLEAN :
         [s EXCEPT !.owing = x] \in Slots /\ SameChannel(s, [s EXCEPT !.owing = x])
      BY DEF Slots, SameChannel
<1>9. \A x \in BOOLEAN :
         [s EXCEPT !.idle = x] \in Slots /\ SameChannel(s, [s EXCEPT !.idle = x])
      BY DEF Slots, SameChannel
<1>10. \A x \in BOOLEAN :
         [s EXCEPT !.closeRequested = x] \in Slots /\ SameChannel(s, [s EXCEPT !.closeRequested = x])
      BY DEF Slots, SameChannel
<1> QED BY <1>1, <1>2, <1>3, <1>4, <1>5, <1>6, <1>7, <1>8, <1>9, <1>10

AnswerSet == Chunks \cup {"none", "pending", "done", "rejected"}

\* The fields that the channel sees.
LEMMA SeenFields ==
    ASSUME NEW s \in Slots
    PROVE  /\ \A x \in {"readable", "closed", "errored"} : [s EXCEPT !.state = x] \in Slots
           /\ \A x \in Seq(Reads) : [s EXCEPT !.readRequests = x] \in Slots
           /\ \A x \in [Reads -> AnswerSet] : [s EXCEPT !.answers = x] \in Slots
           /\ \A x \in Seq([value : Chunks, size : Nat]) : [s EXCEPT !.queue = x] \in Slots
           /\ \A x \in SUBSET Chunks : [s EXCEPT !.offered = x] \in Slots
           /\ \A x \in Chunks \cup {None} : [s EXCEPT !.sizing = x] \in Slots
           /\ \A x \in BOOLEAN : [s EXCEPT !.cancelled = x] \in Slots
           /\ \A x \in BOOLEAN : [s EXCEPT !.readInSize = x] \in Slots
<1>1. \A x \in {"readable", "closed", "errored"} : [s EXCEPT !.state = x] \in Slots
      BY DEF Slots
<1>2. \A x \in Seq(Reads) : [s EXCEPT !.readRequests = x] \in Slots
      BY DEF Slots
<1>3. \A x \in [Reads -> AnswerSet] : [s EXCEPT !.answers = x] \in Slots
      BY DEF Slots, AnswerSet
<1>4. \A x \in Seq([value : Chunks, size : Nat]) : [s EXCEPT !.queue = x] \in Slots
      BY DEF Slots
<1>5. \A x \in SUBSET Chunks : [s EXCEPT !.offered = x] \in Slots
      BY DEF Slots
<1>6. \A x \in Chunks \cup {None} : [s EXCEPT !.sizing = x] \in Slots
      BY DEF Slots
<1>7. \A x \in BOOLEAN : [s EXCEPT !.cancelled = x] \in Slots
      BY DEF Slots
<1>8. \A x \in BOOLEAN : [s EXCEPT !.readInSize = x] \in Slots
      BY DEF Slots
<1> QED BY <1>1, <1>2, <1>3, <1>4, <1>5, <1>6, <1>7, <1>8

LEMMA SlotsFacts ==
    ASSUME NEW s \in Slots
    PROVE  /\ s.state \in {"readable", "closed", "errored"}
           /\ s.readRequests \in Seq(Reads) /\ s.answers \in [Reads -> AnswerSet]
           /\ s.queue \in Seq([value : Chunks, size : Nat])
           /\ s.offered \in SUBSET Chunks /\ s.sizing \in Chunks \cup {None}
           /\ s.failed \in SUBSET Assertions /\ s.sourceCalls \in SUBSET {"start", "pull"}
           /\ s.keysMatch \in BOOLEAN /\ s.cancelled \in BOOLEAN /\ s.reader \in BOOLEAN
           /\ s.readInSize \in BOOLEAN
BY DEF Slots, AnswerSet

\* An assertion that fails is only noted.
LEMMA FailedKeeps ==
    ASSUME NEW s \in Slots, NEW name \in Assertions
    PROVE  /\ s \in Slots /\ SameChannel(s, s)
           /\ [s EXCEPT !.failed = @ \cup {name}] \in Slots
           /\ SameChannel(s, [s EXCEPT !.failed = @ \cup {name}])
<1>1. SameChannel(s, s)
      BY DEF SameChannel
<1>2. s.failed \cup {name} \in SUBSET Assertions
      BY SlotsFacts
<1> QED BY <1>1, <1>2, HiddenFields

LEMMA CallPullKeeps ==
    ASSUME NEW s \in Slots
    PROVE  CallPullIfNeeded(s) \in Slots /\ SameChannel(s, CallPullIfNeeded(s))
<1>1. CASE ~ShouldCallPull(s)
      BY <1>1 DEF CallPullIfNeeded, SameChannel
<1>2. CASE ShouldCallPull(s) /\ s.pulling
      BY <1>2, HiddenFields DEF CallPullIfNeeded
<1>3. CASE ShouldCallPull(s) /\ ~s.pulling
  <2> DEFINE a == Asserted(s, "no pull again", ~s.pullAgain)
             b == [a EXCEPT !.pulling = TRUE]
             c == [b EXCEPT !.sourceCalls = @ \cup {"pull"}]
             d == [c EXCEPT !.owing = TRUE]
  <2>0. "no pull again" \in Assertions
        BY DEF Assertions
  <2>1. a \in Slots /\ SameChannel(s, a)
        BY <2>0, FailedKeeps DEF Asserted
  <2>5. CallPullIfNeeded(s) = d
        BY <1>3 DEF CallPullIfNeeded
  <2> HIDE DEF a
  <2>2. b \in Slots /\ SameChannel(a, b)
        BY <2>1, HiddenFields
  <2> HIDE DEF b
  <2>3. c \in Slots /\ SameChannel(b, c)
    <3>1. b.sourceCalls \cup {"pull"} \in SUBSET {"start", "pull"}
          BY <2>2, SlotsFacts
    <3> QED BY <2>2, <3>1, HiddenFields
  <2> HIDE DEF c
  <2>4. d \in Slots /\ SameChannel(c, d)
        BY <2>3, HiddenFields
  <2> HIDE DEF d
  <2>6. SameChannel(s, d)
        BY <2>1, <2>2, <2>3, <2>4 DEF SameChannel
  <2> QED BY <2>4, <2>5, <2>6
<1> QED BY <1>1, <1>2, <1>3

LEMMA ClosedPromisesKeep ==
    ASSUME NEW s \in Slots
    PROVE  /\ ClosedPromiseResolve(s) \in Slots /\ SameChannel(s, ClosedPromiseResolve(s))
           /\ ClosedPromiseReject(s) \in Slots /\ SameChannel(s, ClosedPromiseReject(s))
           /\ ClosedPromiseResetToRejected(s) \in Slots
           /\ SameChannel(s, ClosedPromiseResetToRejected(s))
<1> DEFINE pending == Asserted(s, "closed promise pending", s.closed = "pending")
           settled == Asserted(s, "closed promise settled", s.closed # "pending")
<1>1. SameChannel(s, s)
      BY DEF SameChannel
<1>2. "closed promise pending" \in Assertions /\ "closed promise settled" \in Assertions
      BY DEF Assertions
<1>3. pending \in Slots /\ SameChannel(s, pending)
      BY <1>2, FailedKeeps DEF Asserted
<1>4. settled \in Slots /\ SameChannel(s, settled)
      BY <1>2, FailedKeeps DEF Asserted
<1>5. ClosedPromiseResolve(s) = IF s.reader THEN [pending EXCEPT !.closed = "fulfilled"] ELSE s
      BY DEF ClosedPromiseResolve
<1>6. ClosedPromiseReject(s) = IF s.reader THEN [pending EXCEPT !.closed = "rejected"] ELSE s
      BY DEF ClosedPromiseReject
<1>7. ClosedPromiseResetToRejected(s) = [settled EXCEPT !.closed = "rejected"]
      BY DEF ClosedPromiseResetToRejected
<1> HIDE DEF pending, settled
<1>8. \A x \in {"fulfilled", "rejected"} :
         /\ [pending EXCEPT !.closed = x] \in Slots
         /\ SameChannel(s, [pending EXCEPT !.closed = x])
      BY <1>3, HiddenFields, SameChannelTrans
<1>9. /\ [settled EXCEPT !.closed = "rejected"] \in Slots
      /\ SameChannel(s, [settled EXCEPT !.closed = "rejected"])
      BY <1>4, HiddenFields, SameChannelTrans
<1>10. ClosedPromiseResolve(s) \in Slots /\ SameChannel(s, ClosedPromiseResolve(s))
      BY <1>1, <1>5, <1>8
<1>11. ClosedPromiseReject(s) \in Slots /\ SameChannel(s, ClosedPromiseReject(s))
      BY <1>1, <1>6, <1>8
<1> QED BY <1>7, <1>9, <1>10, <1>11

-----------------------------------------------------------------------------
(* What the operations do to the fields that the channel sees.                *)

WaitingAnswered(s, answer) ==
    [i \in Reads |-> IF Contains(s.readRequests, i) THEN answer ELSE s.answers[i]]

LEMMA AnsweredType ==
    ASSUME NEW s \in Slots, NEW answer \in AnswerSet
    PROVE  WaitingAnswered(s, answer) \in [Reads -> AnswerSet]
BY SlotsFacts DEF WaitingAnswered

\* What closing leaves.
Closed(s, t) ==
    /\ t \in Slots
    /\ t.keysMatch = s.keysMatch /\ t.state = "closed" /\ t.cancelled = s.cancelled
    /\ t.readRequests = <<>> /\ t.answers = WaitingAnswered(s, "done")
    /\ t.queue = s.queue
    /\ t.offered = s.offered /\ t.sizing = s.sizing
    /\ t.readInSize = s.readInSize

LEMMA CloseStreamEffect ==
    ASSUME NEW s \in Slots, s.state = "readable"
    PROVE  Closed(s, CloseStream(s))
<1> DEFINE a == [s EXCEPT !.state = "closed"]
           b == [a EXCEPT !.readRequests = <<>>]
           c == [b EXCEPT !.answers = WaitingAnswered(s, "done")]
<1>1. CloseStream(s) = ClosedPromiseResolve(c)
      BY DEF CloseStream, Asserted, WaitingAnswered, Slots
<1>2. a \in Slots
      BY SeenFields
<1>3. WaitingAnswered(s, "done") \in [Reads -> AnswerSet]
      BY AnsweredType DEF AnswerSet
<1>4. b \in Slots
  <2> <<>> \in Seq(Reads)
      OBVIOUS
  <2> HIDE DEF a
  <2> QED BY <1>2, SeenFields
<1>5. c \in Slots
  <2> HIDE DEF b
  <2> QED BY <1>3, <1>4, SeenFields
<1>6. Closed(s, c)
      BY <1>5 DEF Closed, Slots
<1>7. c \in Slots => ClosedPromiseResolve(c) \in Slots /\ SameChannel(c, ClosedPromiseResolve(c))
      BY ClosedPromisesKeep
<1> HIDE DEF c
<1> QED BY <1>1, <1>5, <1>6, <1>7 DEF Closed, SameChannel

\* What failing leaves: the queue may have been emptied, and size() has returned
\* or not.
Failed(s, t) ==
    /\ t \in Slots
    /\ t.keysMatch = s.keysMatch /\ t.state = "errored" /\ t.cancelled = s.cancelled
    /\ \/ /\ ~s.keysMatch
          /\ t.readRequests = s.readRequests /\ t.answers = s.answers
       \/ /\ s.keysMatch \/ s.readRequests = <<>>
          /\ t.readRequests = <<>> /\ t.answers = WaitingAnswered(s, "rejected")
    /\ t.queue \in {<<>>, s.queue}
    /\ t.offered = s.offered /\ t.sizing \in {None, s.sizing}
    /\ t.readInSize = s.readInSize

LEMMA ErrorStreamEffect ==
    ASSUME NEW s \in Slots, s.state = "readable"
    PROVE  Failed(s, ErrorStream(s))
<1> DEFINE a == [s EXCEPT !.state = "errored"]
           b == [a EXCEPT !.readRequests = <<>>]
           c == [b EXCEPT !.answers = WaitingAnswered(s, "rejected")]
<1>1. ErrorStream(s) =
          IF s.readRequests # <<>> /\ ~s.keysMatch THEN a ELSE ClosedPromiseReject(c)
      BY DEF ErrorStream, Asserted, WaitingAnswered, Slots
<1>2. a \in Slots
      BY SeenFields
<1>3. WaitingAnswered(s, "rejected") \in [Reads -> AnswerSet]
      BY AnsweredType DEF AnswerSet
<1>4. b \in Slots
  <2> <<>> \in Seq(Reads)
      OBVIOUS
  <2> HIDE DEF a
  <2> QED BY <1>2, SeenFields
<1>5. c \in Slots
  <2> HIDE DEF b
  <2> QED BY <1>3, <1>4, SeenFields
<1>6. CASE s.readRequests # <<>> /\ ~s.keysMatch
      BY <1>1, <1>2, <1>6, ZenonT(40) DEF Failed, Slots
<1>7. CASE ~(s.readRequests # <<>> /\ ~s.keysMatch)
  <2>1. /\ c.keysMatch = s.keysMatch /\ c.state = "errored" /\ c.cancelled = s.cancelled
        /\ c.readRequests = <<>> /\ c.answers = WaitingAnswered(s, "rejected")
        /\ c.queue = s.queue /\ c.offered = s.offered /\ c.sizing = s.sizing
        /\ c.readInSize = s.readInSize
        BY DEF Slots
  <2>2. s.keysMatch \/ s.readRequests = <<>>
        BY <1>7
  <2> HIDE DEF c
  <2>3. ClosedPromiseReject(c) \in Slots /\ SameChannel(c, ClosedPromiseReject(c))
        BY <1>5, ClosedPromisesKeep
  <2> QED BY <1>1, <1>7, <2>1, <2>2, <2>3 DEF Failed, SameChannel
<1> QED BY <1>6, <1>7

LEMMA ControllerErrorEffect ==
    ASSUME NEW s \in Slots
    PROVE  /\ s.state = "readable" => Failed(s, ControllerError(s))
           /\ s.state # "readable" => ControllerError(s) = s
<1> DEFINE a == [s EXCEPT !.queue = <<>>]
           b == [a EXCEPT !.owing = FALSE]
<1>1. s.state # "readable" => ControllerError(s) = s
      BY DEF ControllerError
<1>2. s.state = "readable" => ControllerError(s) = ErrorStream(b)
      BY DEF ControllerError
<1>3. /\ b.keysMatch = s.keysMatch /\ b.state = s.state /\ b.cancelled = s.cancelled
      /\ b.readRequests = s.readRequests /\ b.answers = s.answers
      /\ b.queue = <<>> /\ b.offered = s.offered /\ b.sizing = s.sizing
      /\ b.readInSize = s.readInSize
      BY DEF Slots
<1>4. a \in Slots
  <2> <<>> \in Seq([value : Chunks, size : Nat])
      OBVIOUS
  <2> QED BY SeenFields
<1>5. b \in Slots
  <2> HIDE DEF a
  <2> QED BY <1>4, HiddenFields
<1> HIDE DEF b
<1>6. WaitingAnswered(b, "rejected") = WaitingAnswered(s, "rejected")
      BY <1>3 DEF WaitingAnswered
<1>7. s.state = "readable" => Failed(b, ErrorStream(b))
      BY <1>3, <1>5, ErrorStreamEffect
<1>8. Failed(b, ErrorStream(b)) => Failed(s, ErrorStream(b))
      BY <1>3, <1>6 DEF Failed
<1> QED BY <1>1, <1>2, <1>7, <1>8

\* What cancelling leaves.
Cancelled(s, t) ==
    /\ t \in Slots
    /\ t.keysMatch = s.keysMatch /\ t.state = "closed" /\ t.cancelled = TRUE
    /\ t.readRequests = <<>> /\ t.answers = WaitingAnswered(s, "done")
    /\ t.queue = <<>>
    /\ t.offered = s.offered /\ t.sizing = s.sizing
    /\ t.readInSize = s.readInSize

LEMMA CancelEffect ==
    ASSUME NEW s \in Slots, s.state = "readable"
    PROVE  Cancelled(s, Cancel(s))
<1> DEFINE a == CloseStream(s)
           b == [a EXCEPT !.queue = <<>>]
           c == [b EXCEPT !.cancelled = TRUE]
<1>1. Cancel(s) = c
      BY DEF Cancel
<1>2. Closed(s, a)
      BY CloseStreamEffect
<1> HIDE DEF a
<1>3. b \in Slots
  <2> <<>> \in Seq([value : Chunks, size : Nat])
      OBVIOUS
  <2> QED BY <1>2, SeenFields DEF Closed
<1>4. c \in Slots
  <2> HIDE DEF b
  <2> QED BY <1>3, SeenFields
<1>5. a \in Slots
      BY <1>2 DEF Closed
<1>6. /\ c.keysMatch = a.keysMatch /\ c.state = a.state /\ c.cancelled = TRUE
      /\ c.readRequests = a.readRequests /\ c.answers = a.answers
      /\ c.queue = <<>> /\ c.offered = a.offered /\ c.sizing = a.sizing
      /\ c.readInSize = a.readInSize
      BY <1>5 DEF Slots
<1> HIDE DEF c
<1> QED BY <1>1, <1>2, <1>4, <1>6 DEF Cancelled, Closed

\* A chunk whose size is known is at the end of the queue.
Queued(s, t, chunk) ==
    /\ t \in Slots
    /\ t.keysMatch = s.keysMatch /\ t.state = s.state /\ t.cancelled = s.cancelled
    /\ t.readRequests = s.readRequests /\ t.answers = s.answers
    /\ \E size \in Nat : t.queue = Append(s.queue, [value |-> chunk, size |-> size])
    /\ t.offered = s.offered /\ t.sizing = s.sizing
    /\ t.readInSize = s.readInSize

LEMMA EnqueueSizedEffect ==
    ASSUME NEW s \in Slots, NEW chunk \in Chunks, NEW size \in Nat
    PROVE  Queued(s, EnqueueSized(s, chunk, size), chunk)
<1> DEFINE q == Append(s.queue, [value |-> chunk, size |-> size])
           a == [s EXCEPT !.queue = q]
           b == [a EXCEPT !.owing = FALSE]
<1>1. EnqueueSized(s, chunk, size) = CallPullIfNeeded(b)
      BY DEF EnqueueSized, Slots
<1>2. /\ b.keysMatch = s.keysMatch /\ b.state = s.state /\ b.cancelled = s.cancelled
      /\ b.readRequests = s.readRequests /\ b.answers = s.answers
      /\ b.queue = q /\ b.offered = s.offered /\ b.sizing = s.sizing
      /\ b.readInSize = s.readInSize
      BY DEF Slots
<1>3. q \in Seq([value : Chunks, size : Nat])
  <2>1. [value |-> chunk, size |-> size] \in [value : Chunks, size : Nat]
        OBVIOUS
  <2>2. s.queue \in Seq([value : Chunks, size : Nat])
        BY SlotsFacts
  <2> QED BY <2>1, <2>2
<1>4. a \in Slots
  <2> HIDE DEF q
  <2> QED BY <1>3, SeenFields
<1>5. b \in Slots
  <2> HIDE DEF a
  <2> QED BY <1>4, HiddenFields
<1> HIDE DEF b
<1>6. CallPullIfNeeded(b) \in Slots /\ SameChannel(b, CallPullIfNeeded(b))
      BY <1>5, CallPullKeeps
<1> QED BY <1>1, <1>2, <1>6 DEF Queued, SameChannel

\* A chunk went to the first read that waits, or was lost with it.
Fulfilled(s, t, chunk) ==
    /\ t \in Slots
    /\ t.keysMatch = s.keysMatch /\ t.state = s.state /\ t.cancelled = s.cancelled
    /\ t.readRequests = Tail(s.readRequests)
    /\ t.answers = IF s.keysMatch THEN [s.answers EXCEPT ![Head(s.readRequests)] = chunk]
                   ELSE s.answers
    /\ t.queue = s.queue
    /\ t.offered = s.offered /\ t.sizing = s.sizing
    /\ t.readInSize = s.readInSize

LEMMA EnqueueToRequestEffect ==
    ASSUME NEW s \in Slots, NEW chunk \in Chunks, s.readRequests # <<>>
    PROVE  Fulfilled(s, EnqueueToRequest(s, chunk), chunk)
<1> DEFINE h == Head(s.readRequests)
           r == Tail(s.readRequests)
           n == IF s.keysMatch THEN [s.answers EXCEPT ![h] = chunk] ELSE s.answers
           a == [s EXCEPT !.readRequests = r]
           b == [a EXCEPT !.answers = n]
           c == [b EXCEPT !.owing = FALSE]
<1>1. h \in Reads /\ r \in Seq(Reads)
      BY SlotsFacts
<1>2. n \in [Reads -> AnswerSet]
      BY <1>1, SlotsFacts DEF AnswerSet
<1>3. [s.answers EXCEPT ![h] = IF s.keysMatch THEN chunk ELSE @] = n
      BY <1>1, SlotsFacts
<1>4. [FulfillReadRequest(s, chunk) EXCEPT !.owing = FALSE] = c
  <2>1. FulfillReadRequest(s, chunk) = b
        BY <1>3 DEF FulfillReadRequest, Slots
  <2> HIDE DEF b
  <2> QED BY <2>1
<1>5. /\ c.keysMatch = s.keysMatch /\ c.state = s.state /\ c.cancelled = s.cancelled
      /\ c.readRequests = r /\ c.answers = n
      /\ c.queue = s.queue /\ c.offered = s.offered /\ c.sizing = s.sizing
      /\ c.readInSize = s.readInSize
  <2> HIDE DEF n, r
  <2> QED BY DEF Slots
<1>6. a \in Slots
  <2> HIDE DEF r
  <2> QED BY <1>1, SeenFields
<1>7. b \in Slots
  <2> HIDE DEF a, n
  <2> QED BY <1>2, <1>6, SeenFields
<1>8. c \in Slots
  <2> HIDE DEF b
  <2> QED BY <1>7, HiddenFields
<1>9. EnqueueToRequest(s, chunk) = IF EnqueueThrows(s) THEN c ELSE CallPullIfNeeded(c)
      BY <1>4 DEF EnqueueToRequest
<1> HIDE DEF c
<1>10. CallPullIfNeeded(c) \in Slots /\ SameChannel(c, CallPullIfNeeded(c))
      BY <1>8, CallPullKeeps
<1> QED BY <1>5, <1>8, <1>9, <1>10 DEF Fulfilled, SameChannel

\* A read has been made and answered, or waits.
Answers(s, t, i, answer) ==
    /\ t.keysMatch = s.keysMatch /\ t.cancelled = s.cancelled
    /\ t.answers = [s.answers EXCEPT ![i] = answer]
    /\ t.offered = s.offered /\ t.sizing = s.sizing

LEMMA ReadEndedEffect ==
    ASSUME NEW s \in Slots, NextRead(s) \in Reads, s.state # "readable"
    PROVE  /\ Read(s) \in Slots
           /\ Answers(s, Read(s), NextRead(s), IF s.state = "errored" THEN "rejected" ELSE "done")
           /\ Read(s).state = s.state
           /\ Read(s).readRequests = s.readRequests /\ Read(s).queue = s.queue
           /\ Read(s).readInSize = s.readInSize
<1> DEFINE i == NextRead(s)
           answer == IF s.state = "errored" THEN "rejected" ELSE "done"
           n == [s.answers EXCEPT ![i] = answer]
           t == [s EXCEPT !.answers = n]
<1>1. Read(s) = t
      BY SlotsFacts DEF Read
<1>2. n \in [Reads -> AnswerSet]
      BY SlotsFacts DEF AnswerSet
<1>3. t \in Slots
  <2> HIDE DEF n
  <2> QED BY <1>2, SeenFields
<1>4. /\ t.keysMatch = s.keysMatch /\ t.state = s.state /\ t.cancelled = s.cancelled
      /\ t.readRequests = s.readRequests /\ t.answers = n
      /\ t.queue = s.queue /\ t.offered = s.offered /\ t.sizing = s.sizing
      /\ t.readInSize = s.readInSize
  <2> HIDE DEF n
  <2> QED BY DEF Slots
<1> HIDE DEF t
<1> QED BY <1>1, <1>3, <1>4 DEF Answers

LEMMA ReadWaitsEffect ==
    ASSUME NEW s \in Slots, NextRead(s) \in Reads, s.state = "readable", s.queue = <<>>
    PROVE  /\ Read(s) \in Slots
           /\ Answers(s, Read(s), NextRead(s), "pending")
           /\ Read(s).state = s.state
           /\ Read(s).readRequests = Append(s.readRequests, NextRead(s))
           /\ Read(s).queue = s.queue
           /\ Read(s).readInSize = (s.readInSize \/ s.sizing # None)
<1> DEFINE i == NextRead(s)
           r == Append(s.readRequests, i)
           n == [s.answers EXCEPT ![i] = "pending"]
           a == [s EXCEPT !.readRequests = r]
           b == [a EXCEPT !.answers = n]
           h == s.readInSize \/ s.sizing # None
           t == [b EXCEPT !.readInSize = h]
<1>1. Read(s) = CallPullIfNeeded(t)
  <2>1. Read(s) = PullSteps(s, i)
        BY DEF Read
  <2>2. PullSteps(s, i) = CallPullIfNeeded(t)
    <3> HIDE DEF i
    <3> QED BY DEF PullSteps, Slots
  <2> QED BY <2>1, <2>2
<1>2. r \in Seq(Reads) /\ n \in [Reads -> AnswerSet]
  <2> HIDE DEF i
  <2> QED BY SlotsFacts DEF AnswerSet, i
<1>3. a \in Slots
  <2> HIDE DEF r
  <2> QED BY <1>2, SeenFields
<1>7. b \in Slots
  <2> HIDE DEF a, n
  <2> QED BY <1>2, <1>3, SeenFields
<1>4. t \in Slots
  <2>1. h \in BOOLEAN
        BY SlotsFacts
  <2> HIDE DEF b, h
  <2> QED BY <1>7, <2>1, SeenFields
<1>5. /\ t.keysMatch = s.keysMatch /\ t.state = s.state /\ t.cancelled = s.cancelled
      /\ t.readRequests = r /\ t.answers = n
      /\ t.queue = s.queue /\ t.offered = s.offered /\ t.sizing = s.sizing
      /\ t.readInSize = h
  <2> HIDE DEF n, r, h
  <2> QED BY DEF Slots
<1> HIDE DEF t, h
<1>6. CallPullIfNeeded(t) \in Slots /\ SameChannel(t, CallPullIfNeeded(t))
      BY <1>4, CallPullKeeps
<1> QED BY <1>1, <1>5, <1>6 DEF Answers, SameChannel, h

LEMMA HeadAndTail ==
    ASSUME NEW S, NEW x \in Seq(S), x # <<>>
    PROVE  /\ Head(x) \in S /\ Tail(x) \in Seq(S)
           /\ \A k \in 1..Len(x) : x[k] \in S
OBVIOUS

\* The chunk that is taken may be the last of a stream that is being closed.
Taken(s, t, i) ==
    /\ t \in Slots
    /\ t.keysMatch = s.keysMatch /\ t.cancelled = s.cancelled
    /\ t.queue = Tail(s.queue)
    /\ t.offered = s.offered /\ t.sizing = s.sizing /\ t.readInSize = s.readInSize
    /\ \/ /\ t.state = "readable" /\ t.readRequests = s.readRequests
          /\ t.answers = [s.answers EXCEPT ![i] = Head(s.queue).value]
       \/ /\ t.state = "closed" /\ Tail(s.queue) = <<>> /\ t.readRequests = <<>>
          /\ t.answers = [j \in Reads |->
                 IF Contains(s.readRequests, j) THEN "done"
                 ELSE [s.answers EXCEPT ![i] = Head(s.queue).value][j]]

LEMMA ReadTakes ==
    ASSUME NEW s \in Slots, NextRead(s) \in Reads, s.state = "readable", s.queue # <<>>
    PROVE  Taken(s, Read(s), NextRead(s))
<1> DEFINE i == NextRead(s)
           q == Tail(s.queue)
           n == [s.answers EXCEPT ![i] = Head(s.queue).value]
           a == [s EXCEPT !.queue = q]
           t == [a EXCEPT !.answers = n]
<1>1. Read(s) = IF s.closeRequested /\ t.queue = <<>> THEN CloseStream(t)
                ELSE CallPullIfNeeded(t)
  <2>1. Read(s) = PullSteps(s, i)
        BY DEF Read
  <2>2. PullSteps(s, i) = IF s.closeRequested /\ t.queue = <<>> THEN CloseStream(t)
                          ELSE CallPullIfNeeded(t)
    <3> HIDE DEF i
    <3> QED BY DEF PullSteps, Slots
  <2> QED BY <2>1, <2>2
<1>2. q \in Seq([value : Chunks, size : Nat]) /\ Head(s.queue).value \in Chunks
  <2>1. s.queue \in Seq([value : Chunks, size : Nat])
        BY SlotsFacts
  <2>2. Head(s.queue) \in [value : Chunks, size : Nat] /\ q \in Seq([value : Chunks, size : Nat])
        BY <2>1, HeadAndTail
  <2> QED BY <2>2
<1>3. n \in [Reads -> AnswerSet]
  <2> HIDE DEF i
  <2> QED BY <1>2, SlotsFacts DEF AnswerSet, i
<1>4. a \in Slots
  <2> HIDE DEF q
  <2> QED BY <1>2, SeenFields
<1>5. t \in Slots
  <2> HIDE DEF a, n
  <2> QED BY <1>3, <1>4, SeenFields
<1>6. /\ t.keysMatch = s.keysMatch /\ t.state = s.state /\ t.cancelled = s.cancelled
      /\ t.readRequests = s.readRequests /\ t.answers = n
      /\ t.queue = q /\ t.offered = s.offered /\ t.sizing = s.sizing
      /\ t.readInSize = s.readInSize
  <2> HIDE DEF n, q
  <2> QED BY DEF Slots
<1> HIDE DEF t
<1>7. CallPullIfNeeded(t) \in Slots /\ SameChannel(t, CallPullIfNeeded(t))
      BY <1>5, CallPullKeeps
<1>8. CASE s.closeRequested /\ t.queue = <<>>
  <2>1. Closed(t, CloseStream(t))
        BY <1>5, <1>6, CloseStreamEffect
  <2>2. WaitingAnswered(t, "done") =
            [j \in Reads |-> IF Contains(s.readRequests, j) THEN "done" ELSE n[j]]
        BY <1>6 DEF WaitingAnswered
  <2> HIDE DEF q, n
  <2>3. Taken(s, Read(s), i) <=>
            /\ Read(s) \in Slots
            /\ Read(s).keysMatch = s.keysMatch /\ Read(s).cancelled = s.cancelled
            /\ Read(s).queue = q
            /\ Read(s).offered = s.offered /\ Read(s).sizing = s.sizing
            /\ Read(s).readInSize = s.readInSize
            /\ \/ /\ Read(s).state = "readable" /\ Read(s).readRequests = s.readRequests
                  /\ Read(s).answers = n
               \/ /\ Read(s).state = "closed" /\ q = <<>> /\ Read(s).readRequests = <<>>
                  /\ Read(s).answers = [j \in Reads |->
                         IF Contains(s.readRequests, j) THEN "done" ELSE n[j]]
        BY DEF Taken, n, q
  <2> QED BY <1>1, <1>6, <1>8, <2>1, <2>2, <2>3 DEF Closed
<1>9. CASE ~(s.closeRequested /\ t.queue = <<>>)
      BY <1>1, <1>6, <1>7, <1>9 DEF Taken, SameChannel
<1> QED BY <1>8, <1>9

LEMMA ReadTakesEffect ==
    ASSUME NEW s \in Slots, NextRead(s) \in Reads, s.state = "readable", s.queue # <<>>,
           s.readRequests = <<>>
    PROVE  /\ Read(s) \in Slots
           /\ Answers(s, Read(s), NextRead(s), Head(s.queue).value)
           /\ Read(s).state = "readable" \/ (Read(s).state = "closed" /\ Tail(s.queue) = <<>>)
           /\ Read(s).readRequests = <<>> /\ Read(s).queue = Tail(s.queue)
           /\ Read(s).readInSize = s.readInSize
<1> DEFINE i == NextRead(s)
           n == [s.answers EXCEPT ![i] = Head(s.queue).value]
<1>1. Taken(s, Read(s), i)
      BY ReadTakes
<1>2. DOMAIN n = Reads
      BY SlotsFacts
<1>3. [j \in Reads |-> IF Contains(s.readRequests, j) THEN "done" ELSE n[j]] = n
  <2>1. \A j \in Reads : ~Contains(s.readRequests, j)
        BY DEF Contains
  <2>2. n = [j \in Reads |-> n[j]]
        BY <1>2
  <2> HIDE DEF n
  <2> QED BY <2>1, <2>2
<1> HIDE DEF i
<1>4. Read(s).answers = n
      BY <1>1, <1>3 DEF Taken
<1> QED BY <1>1, <1>4 DEF Taken, Answers, i

LEMMA ControllerCloseEffect ==
    ASSUME NEW s \in Slots, s.state = "readable"
    PROVE  /\ s.queue = <<>> => Closed(s, ControllerClose(s))
           /\ s.queue # <<>> =>
                  ControllerClose(s) \in Slots /\ SameChannel(s, ControllerClose(s))
<1> DEFINE a == [s EXCEPT !.closeRequested = TRUE]
           b == [a EXCEPT !.owing = FALSE]
<1>1. ControllerClose(s) = IF s.queue = <<>> THEN CloseStream(b) ELSE b
      BY DEF ControllerClose
<1>2. a \in Slots
      BY HiddenFields
<1>3. b \in Slots
  <2> HIDE DEF a
  <2> QED BY <1>2, HiddenFields
<1>4. SameChannel(s, b)
      BY DEF SameChannel, Slots
<1> HIDE DEF b
<1>5. Closed(b, CloseStream(b))
      BY <1>3, <1>4, CloseStreamEffect DEF SameChannel
<1>6. WaitingAnswered(b, "done") = WaitingAnswered(s, "done")
      BY <1>4 DEF SameChannel, WaitingAnswered
<1>7. Closed(s, CloseStream(b))
      BY <1>4, <1>5, <1>6 DEF SameChannel, Closed
<1> QED BY <1>1, <1>3, <1>4, <1>7

LEMMA SettledKeeps ==
    ASSUME NEW s \in Slots, NEW call
    PROVE  Settled(s, call) \in Slots /\ SameChannel(s, Settled(s, call))
<1>1. s.sourceCalls \ {call} \in SUBSET {"start", "pull"}
      BY SlotsFacts
<1> QED BY <1>1, HiddenFields DEF Settled

LEMMA FinishStartKeeps ==
    ASSUME NEW s \in Slots
    PROVE  FinishStart(s) \in Slots /\ SameChannel(s, FinishStart(s))
<1> DEFINE a == Settled(s, "start")
           b == Asserted(a, "not pulling", ~s.pulling /\ ~s.pullAgain)
           c == [b EXCEPT !.started = TRUE]
<1>1. FinishStart(s) = CallPullIfNeeded(c)
      BY DEF FinishStart
<1>2. a \in Slots /\ SameChannel(s, a)
      BY SettledKeeps
<1> HIDE DEF a
<1>3. "not pulling" \in Assertions
      BY DEF Assertions
<1>4. b \in Slots /\ SameChannel(a, b)
      BY <1>2, <1>3, FailedKeeps DEF Asserted
<1> HIDE DEF b
<1>5. c \in Slots /\ SameChannel(b, c)
      BY <1>4, HiddenFields
<1> HIDE DEF c
<1>6. CallPullIfNeeded(c) \in Slots /\ SameChannel(c, CallPullIfNeeded(c))
      BY <1>5, CallPullKeeps
<1> QED BY <1>1, <1>2, <1>4, <1>5, <1>6 DEF SameChannel

LEMMA FinishPullKeeps ==
    ASSUME NEW s \in Slots
    PROVE  FinishPull(s) \in Slots /\ SameChannel(s, FinishPull(s))
<1> DEFINE a == Settled(s, "pull")
           b == [a EXCEPT !.pulling = FALSE]
           c == [b EXCEPT !.pullAgain = FALSE]
           idle == s.idle \/ (s.owing /\ s.state = "readable")
           d == [c EXCEPT !.idle = idle]
<1>1. FinishPull(s) = IF s.pullAgain THEN CallPullIfNeeded(d) ELSE d
      BY DEF FinishPull, Settled, Slots
<1>2. a \in Slots /\ SameChannel(s, a)
      BY SettledKeeps
<1>3. idle \in BOOLEAN
      BY DEF Slots
<1> HIDE DEF a, idle
<1>4. b \in Slots /\ SameChannel(a, b)
      BY <1>2, HiddenFields
<1> HIDE DEF b
<1>5. c \in Slots /\ SameChannel(b, c)
      BY <1>4, HiddenFields
<1> HIDE DEF c
<1>6. d \in Slots /\ SameChannel(c, d)
      BY <1>3, <1>5, HiddenFields
<1> HIDE DEF d
<1>7. CallPullIfNeeded(d) \in Slots /\ SameChannel(d, CallPullIfNeeded(d))
      BY <1>6, CallPullKeeps
<1> QED BY <1>1, <1>2, <1>4, <1>5, <1>6, <1>7 DEF SameChannel

LEMMA AcquireKeeps ==
    ASSUME NEW s \in Slots
    PROVE  AcquireReader(s) \in Slots /\ SameChannel(s, AcquireReader(s))
<1> DEFINE a == [s EXCEPT !.reader = TRUE]
           b == [a EXCEPT !.closed = InitialClosedPromise(s)]
<1>1. AcquireReader(s) = b
      BY DEF AcquireReader
<1>2. a \in Slots /\ SameChannel(s, a)
      BY HiddenFields
<1>3. InitialClosedPromise(s) \in {"pending", "fulfilled", "rejected"}
      BY SlotsFacts DEF InitialClosedPromise
<1> HIDE DEF a
<1>4. b \in Slots /\ SameChannel(a, b)
      BY <1>2, <1>3, HiddenFields
<1> QED BY <1>1, <1>2, <1>4, SameChannelTrans

LEMMA ReleaseKeeps ==
    ASSUME NEW s \in Slots, s.readRequests = <<>>
    PROVE  ReleaseReader(s) \in Slots /\ SameChannel(s, ReleaseReader(s))
<1> DEFINE a == IF s.state = "readable" THEN ClosedPromiseReject(s)
                ELSE ClosedPromiseResetToRejected(s)
           b == [a EXCEPT !.reader = FALSE]
           c == [b EXCEPT !.readRequests = <<>>]
<1>1. ReleaseReader(s) = c
      BY DEF ReleaseReader
<1>2. a \in Slots /\ SameChannel(s, a)
      BY ClosedPromisesKeep
<1> HIDE DEF a
<1>3. b \in Slots /\ SameChannel(a, b)
      BY <1>2, HiddenFields
<1> HIDE DEF b
<1>4. c \in Slots
  <2> <<>> \in Seq(Reads)
      OBVIOUS
  <2> QED BY <1>3, SeenFields
<1>5. b.readRequests = <<>>
      BY <1>2, <1>3 DEF SameChannel
<1>6. SameChannel(b, c)
      BY <1>3, <1>5 DEF SameChannel, Slots
<1> HIDE DEF c
<1> QED BY <1>1, <1>2, <1>3, <1>4, <1>6 DEF SameChannel

-----------------------------------------------------------------------------
(* The steps of the channel.  Each keeps the invariant.                       *)

LEMMA InvariantFacts ==
    ASSUME NEW s, ChannelInvariant(s)
    PROVE  /\ s \in Slots
           /\ s.keysMatch \in BOOLEAN /\ s.cancelled \in BOOLEAN
           /\ s.state \in {"readable", "closed", "errored"}
           /\ s.readRequests \in Seq(Reads) /\ s.answers \in [Reads -> AnswerSet]
           /\ s.queue \in Seq([value : Chunks, size : Nat])
           /\ s.offered \in SUBSET Chunks /\ s.sizing \in Chunks \cup {None}
           /\ s.readInSize \in BOOLEAN
           /\ None \notin Chunks
           /\ "none" \notin Chunks /\ "pending" \notin Chunks
           /\ "done" \notin Chunks /\ "rejected" \notin Chunks
<1>1. s \in Slots
      BY DEF ChannelInvariant
<1>2. \A x \in {None, "none", "pending", "done", "rejected"} : x \notin Chunks
      BY ReadableStreamAssumption
<1> QED BY <1>1, <1>2, SlotsFacts

LEMMA AnsweredInvariant ==
    ASSUME NEW s, ChannelInvariant(s), NEW answer \in {"done", "rejected"}
    PROVE  /\ \A i \in Reads : WaitingAnswered(s, answer)[i] = "none" <=> s.answers[i] = "none"
           /\ \A i \in Reads : WaitingAnswered(s, answer)[i] \in Chunks =>
                  WaitingAnswered(s, answer)[i] = s.answers[i]
           /\ WaitingAnswered(s, answer) \in [Reads -> AnswerSet]
<1>1. \A i \in Reads : Contains(s.readRequests, i) => s.answers[i] # "none"
      BY InvariantFacts DEF Contains, ChannelInvariant
<1>2. answer \notin Chunks
      BY InvariantFacts
<1> QED BY <1>1, <1>2, AnsweredType, InvariantFacts DEF WaitingAnswered, AnswerSet

LEMMA AnswerWaitingStep ==
    ASSUME ChannelInvariant(stream), NEW answer,
           stream'.readRequests = <<>>, stream'.answers = WaitingAnswered(stream, answer)
    PROVE  C!AnswerWaiting(answer)
<1>1. /\ stream.readRequests \in Seq(Reads)
      /\ DOMAIN stream.answers = Reads
      BY InvariantFacts
<1>2. \A i \in Reads : Contains(stream.readRequests, i) <=> i \in C!Range(stream.readRequests)
      BY <1>1 DEF Contains, C!Range
<1>3. WaitingAnswered(stream, answer) =
          [i \in DOMAIN stream.answers |->
              IF i \in C!Range(stream.readRequests) THEN answer ELSE stream.answers[i]]
      BY <1>1, <1>2 DEF WaitingAnswered
<1> QED BY <1>3 DEF C!AnswerWaiting, C!Answering

LEMMA NothingHeldInvariant ==
    ASSUME NEW s, NEW t \in Slots, ChannelInvariant(s),
           t.state # "readable", t.queue \in {<<>>, s.queue},
           t.readRequests \in {<<>>, s.readRequests},
           t.answers \in {s.answers, WaitingAnswered(s, "done"), WaitingAnswered(s, "rejected")},
           t.offered = s.offered, t.sizing \in {None, s.sizing},
           t.readInSize = s.readInSize
    PROVE  ChannelInvariant(t)
<1>1. \A i \in Reads : t.answers[i] = "none" <=> s.answers[i] = "none"
      BY AnsweredInvariant
<1>2. \A i \in Reads : t.answers[i] \in Chunks => t.answers[i] = s.answers[i]
      BY AnsweredInvariant
<1>3. \A k \in DOMAIN t.readRequests : t.answers[t.readRequests[k]] # "none"
  <2> SUFFICES ASSUME NEW k \in DOMAIN t.readRequests
               PROVE  t.answers[t.readRequests[k]] # "none"
      OBVIOUS
  <2>1. k \in DOMAIN s.readRequests /\ t.readRequests = s.readRequests
        OBVIOUS
  <2>2. s.readRequests[k] \in Reads /\ s.answers[s.readRequests[k]] # "none"
        BY <2>1, InvariantFacts DEF ChannelInvariant
  <2> QED BY <1>1, <2>1, <2>2
<1>4. \E n \in 0..MaxReads : \A i \in Reads : t.answers[i] = "none" <=> i > n
      BY <1>1 DEF ChannelInvariant
<1>5. \A k \in DOMAIN t.queue : t.queue[k].value \in t.offered \ {t.sizing}
  <2> SUFFICES ASSUME NEW k \in DOMAIN t.queue
               PROVE  t.queue[k].value \in t.offered \ {t.sizing}
      OBVIOUS
  <2>1. k \in DOMAIN s.queue /\ t.queue = s.queue
        OBVIOUS
  <2>2. s.queue[k].value \in s.offered \ {s.sizing}
        BY <2>1 DEF ChannelInvariant
  <2> QED BY <2>1, <2>2, InvariantFacts
<1>6. \A i \in Reads : t.answers[i] \in Chunks => t.answers[i] \in t.offered \ {t.sizing}
      BY <1>2, InvariantFacts DEF ChannelInvariant
<1>7. t.sizing # None => t.sizing \in t.offered
      BY DEF ChannelInvariant
<1>8. t.readInSize => \E i \in Reads : t.answers[i] # "none"
      BY <1>1 DEF ChannelInvariant
<1> QED BY <1>3, <1>4, <1>5, <1>6, <1>7, <1>8 DEF ChannelInvariant

LEMMA CloseStep ==
    ASSUME ChannelInvariant(stream), stream.state = "readable", stream.queue = <<>>,
           Closed(stream, stream')
    PROVE  C!Next /\ ChannelInvariant(stream')
<1>1. ChannelInvariant(stream')
      BY NothingHeldInvariant DEF Closed
<1>2. C!AnswerWaiting("done")
      BY AnswerWaitingStep DEF Closed
<1>3. /\ ChannelState = "open" /\ ChannelState' = "closed"
      /\ ChannelBuffer = <<>> /\ ChannelBuffer' = <<>>
      /\ (~stream'.keysMatch) = ~stream.keysMatch
      /\ (stream'.sizing # None) = (stream.sizing # None)
      BY DEF ChannelInvariant, Closed, ChannelState, ChannelBuffer, Values
<1> QED BY <1>1, <1>2, <1>3 DEF C!Next, C!Close

LEMMA CancelStep ==
    ASSUME ChannelInvariant(stream), stream.state = "readable",
           Cancelled(stream, stream')
    PROVE  C!Next /\ ChannelInvariant(stream')
<1>1. ChannelInvariant(stream')
      BY NothingHeldInvariant DEF Cancelled
<1>2. C!AnswerWaiting("done")
      BY AnswerWaitingStep DEF Cancelled
<1>3. /\ ChannelState = "open" /\ ChannelState' = "cancelled"
      /\ ChannelBuffer' = <<>>
      /\ (~stream'.keysMatch) = ~stream.keysMatch
      /\ (stream'.sizing # None) = (stream.sizing # None)
      BY DEF Cancelled, ChannelState, ChannelBuffer
<1> QED BY <1>1, <1>2, <1>3 DEF C!Next, C!Cancel

LEMMA FailStep ==
    ASSUME ChannelInvariant(stream), stream.state = "readable",
           Failed(stream, stream')
    PROVE  C!Next /\ ChannelInvariant(stream')
<1>1. ChannelInvariant(stream')
      BY NothingHeldInvariant DEF Failed
<1>2. /\ ChannelState = "open" /\ ChannelState' = "failed"
      /\ ChannelBuffer' = <<>>
      /\ (~stream'.keysMatch) = ~stream.keysMatch
      /\ (stream'.sizing # None) \in {stream.sizing # None, FALSE}
      BY DEF Failed, ChannelState, ChannelBuffer
<1>3. stream.keysMatch => C!AnswerWaiting("rejected")
      BY AnswerWaitingStep DEF Failed
<1>4. ~stream.keysMatch => UNCHANGED <<stream.readRequests, stream.answers>>
  <2>1. stream.readRequests = <<>> => WaitingAnswered(stream, "rejected") = stream.answers
        BY InvariantFacts DEF WaitingAnswered, Contains
  <2> QED BY <2>1 DEF Failed
<1> QED BY <1>1, <1>2, <1>3, <1>4 DEF C!Next, C!Fail

LEMMA QueueStep ==
    ASSUME ChannelInvariant(stream), stream.sizing # None,
           NEW before, Queued(before, stream', stream.sizing),
           before.keysMatch = stream.keysMatch, before.state = stream.state,
           before.cancelled = stream.cancelled, before.readRequests = stream.readRequests,
           before.answers = stream.answers, before.queue = stream.queue,
           before.offered = stream.offered, before.sizing = None,
           before.readInSize = stream.readInSize
    PROVE  C!Next /\ ChannelInvariant(stream')
<1> DEFINE chunk == stream.sizing
<1>1. chunk \in Chunks /\ chunk \in stream.offered /\ chunk # "none"
      BY InvariantFacts DEF ChannelInvariant
<1>2. PICK size \in Nat :
          stream'.queue = Append(stream.queue, [value |-> chunk, size |-> size])
      BY DEF Queued
<1>3. /\ stream' \in Slots
      /\ stream'.keysMatch = stream.keysMatch /\ stream'.state = stream.state
      /\ stream'.cancelled = stream.cancelled
      /\ stream'.readRequests = stream.readRequests /\ stream'.answers = stream.answers
      /\ stream'.offered = stream.offered /\ stream'.sizing = None
      /\ stream'.readInSize = stream.readInSize
      BY DEF Queued
<1>4. stream.queue \in Seq([value : Chunks, size : Nat])
      BY InvariantFacts
<1>5. /\ DOMAIN stream'.queue = 1..(Len(stream.queue) + 1)
      /\ \A k \in 1..Len(stream.queue) : stream'.queue[k] = stream.queue[k]
      /\ stream'.queue[Len(stream.queue) + 1].value = chunk
      BY <1>2, <1>4
<1>6. ChannelInvariant(stream')
  <2>1. \A k \in DOMAIN stream'.queue : stream'.queue[k].value \in stream.offered \ {None}
    <3> SUFFICES ASSUME NEW k \in DOMAIN stream'.queue
                 PROVE  stream'.queue[k].value \in stream.offered \ {None}
        OBVIOUS
    <3>1. CASE k \in 1..Len(stream.queue)
      <4>1. stream'.queue[k] = stream.queue[k]
            BY <1>5, <3>1
      <4>2. stream.queue[k].value \in stream.offered
            BY <1>4, <3>1 DEF ChannelInvariant
      <4> QED BY <4>1, <4>2, InvariantFacts
    <3>2. CASE k = Len(stream.queue) + 1
          BY <1>1, <1>5, <3>2
    <3> QED BY <1>4, <1>5, <3>1, <3>2
  <2>2. \A i \in Reads : stream'.answers[i] \in Chunks =>
            stream'.answers[i] \in stream.offered \ {None}
        BY <1>3, InvariantFacts DEF ChannelInvariant
  <2>3. stream.state = "readable" /\ stream.readRequests # <<>> => stream.readInSize
        BY DEF ChannelInvariant
  <2>4. /\ \A k \in DOMAIN stream'.readRequests :
               stream'.answers[stream'.readRequests[k]] # "none"
        /\ \E n \in 0..MaxReads : \A i \in Reads : stream'.answers[i] = "none" <=> i > n
        /\ stream'.state = "readable" => ~stream'.cancelled
        /\ stream'.readInSize => \E i \in Reads : stream'.answers[i] # "none"
        BY <1>3 DEF ChannelInvariant
  <2> QED BY <1>3, <2>1, <2>2, <2>3, <2>4 DEF ChannelInvariant
<1>7. CASE stream.state = "readable"
  <2>2. ChannelBuffer = Values(stream.queue) /\ ChannelBuffer' = Values(stream'.queue)
        BY <1>3, <1>7 DEF ChannelBuffer
  <2>3. Values(stream'.queue) = Append(Values(stream.queue), chunk)
        BY <1>4, <1>5 DEF Values
  <2>4. chunk \notin C!Range(Values(stream.queue)) \cup C!Range(stream.answers)
    <3>1. chunk \notin C!Range(Values(stream.queue))
          BY DEF ChannelInvariant, Values, C!Range
    <3>2. DOMAIN stream.answers = Reads
          BY InvariantFacts
    <3>3. chunk \notin C!Range(stream.answers)
          BY <1>1, <3>2 DEF ChannelInvariant, C!Range
    <3> QED BY <3>1, <3>3
  <2>5. ChannelState = "open" /\ ChannelState' = "open"
        BY <1>3, <1>7 DEF ChannelState
  <2>6. C!EndSend(chunk)
        BY <1>3, <2>2, <2>3, <2>4, <2>5 DEF C!EndSend, C!Unsent
  <2> QED BY <1>1, <1>6, <2>6 DEF C!Next
<1>8. CASE stream.state # "readable"
  <2>1. ChannelState # "open"
        BY <1>8, InvariantFacts DEF ChannelState
  <2>2. ChannelState' = ChannelState /\ ChannelBuffer' = ChannelBuffer
        BY <1>3, <1>8 DEF ChannelState, ChannelBuffer
  <2>3. C!EndSend(chunk)
        BY <1>3, <2>1, <2>2 DEF C!EndSend
  <2> QED BY <1>1, <1>6, <2>3 DEF C!Next
<1> QED BY <1>7, <1>8

LEMMA FulfilStep ==
    ASSUME ChannelInvariant(stream), stream.state = "readable",
           stream.readRequests # <<>>,
           NEW chunk \in Chunks \ stream.offered,
           NEW before, Fulfilled(before, stream', chunk),
           before.keysMatch = stream.keysMatch, before.state = stream.state,
           before.cancelled = stream.cancelled, before.readRequests = stream.readRequests,
           before.answers = stream.answers, before.queue = stream.queue,
           before.offered = stream.offered \cup {chunk}, before.sizing = stream.sizing,
           before.readInSize = stream.readInSize
    PROVE  C!Next /\ ChannelInvariant(stream')
<1> DEFINE h == Head(stream.readRequests)
<1>2. /\ stream' \in Slots
      /\ stream'.keysMatch = stream.keysMatch /\ stream'.state = "readable"
      /\ stream'.cancelled = stream.cancelled
      /\ stream'.readRequests = Tail(stream.readRequests)
      /\ stream'.answers = IF stream.keysMatch THEN [stream.answers EXCEPT ![h] = chunk]
                           ELSE stream.answers
      /\ stream'.queue = stream.queue
      /\ stream'.offered = stream.offered \cup {chunk} /\ stream'.sizing = stream.sizing
      /\ stream'.readInSize = stream.readInSize
      BY DEF Fulfilled
<1>3. /\ stream.readRequests \in Seq(Reads) /\ stream.answers \in [Reads -> AnswerSet]
      /\ stream.offered \in SUBSET Chunks /\ None \notin Chunks
      BY InvariantFacts
<1>4. h \in Reads /\ stream'.readRequests \in Seq(Reads)
      BY <1>2, <1>3, HeadAndTail
<1>5. stream.answers[h] # "none"
      BY <1>3 DEF ChannelInvariant
<1>6. chunk # "none"
      BY InvariantFacts
<1>7. \A i \in Reads : stream'.answers[i] = "none" <=> stream.answers[i] = "none"
      BY <1>2, <1>3, <1>4, <1>5, <1>6
<1>13. chunk # stream.sizing /\ chunk \notin stream.offered
      BY <1>3 DEF ChannelInvariant
<1>8. ChannelInvariant(stream')
  <2>1. \A k \in DOMAIN stream'.readRequests :
            stream'.answers[stream'.readRequests[k]] # "none"
    <3> SUFFICES ASSUME NEW k \in DOMAIN stream'.readRequests
                 PROVE  stream'.answers[stream'.readRequests[k]] # "none"
        OBVIOUS
    <3>1. k + 1 \in DOMAIN stream.readRequests
          /\ stream'.readRequests[k] = stream.readRequests[k + 1]
          BY <1>2, <1>3
    <3>2. stream.readRequests[k + 1] \in Reads
          /\ stream.answers[stream.readRequests[k + 1]] # "none"
          BY <1>3, <3>1 DEF ChannelInvariant
    <3> QED BY <1>7, <3>1, <3>2
  <2>2. \E n \in 0..MaxReads : \A i \in Reads : stream'.answers[i] = "none" <=> i > n
        BY <1>7 DEF ChannelInvariant
  <2>3. \A i \in Reads : stream'.answers[i] \in Chunks =>
            stream'.answers[i] \in stream'.offered \ {stream'.sizing}
    <3> SUFFICES ASSUME NEW i \in Reads, stream'.answers[i] \in Chunks
                 PROVE  stream'.answers[i] \in stream'.offered \ {stream'.sizing}
        OBVIOUS
    <3>1. stream'.answers[i] = chunk \/ stream'.answers[i] = stream.answers[i]
          BY <1>2, <1>3
    <3>2. stream.answers[i] \in Chunks => stream.answers[i] \in stream.offered \ {stream.sizing}
          BY DEF ChannelInvariant
    <3> QED BY <1>2, <1>13, <3>1, <3>2
  <2>4. ~stream'.cancelled
        BY <1>2 DEF ChannelInvariant
  <2>5. /\ stream'.readInSize => \E i \in Reads : stream'.answers[i] # "none"
        /\ stream'.sizing # None => stream'.sizing \in stream'.offered
        /\ ~stream'.readInSize => stream'.queue = <<>> /\ stream'.sizing = None
        BY <1>2, <1>7 DEF ChannelInvariant
  <2>6. \A k \in DOMAIN stream'.queue :
            stream'.queue[k].value \in stream'.offered \ {stream'.sizing}
        BY <1>2 DEF ChannelInvariant
  <2> QED BY <1>2, <2>1, <2>2, <2>3, <2>4, <2>5, <2>6 DEF ChannelInvariant
<1>9. /\ ChannelState = "open" /\ ChannelState' = "open"
      /\ ChannelBuffer = Values(stream.queue) /\ ChannelBuffer' = ChannelBuffer
      BY <1>2 DEF ChannelState, ChannelBuffer
<1>10. chunk \notin C!Range(stream.answers)
      BY <1>3 DEF ChannelInvariant, C!Range
<1>11. chunk \notin C!Range(ChannelBuffer)
      BY <1>9, <1>13 DEF ChannelInvariant, Values, C!Range
<1>12. C!Hand(chunk)
      BY <1>2, <1>9, <1>10, <1>11 DEF C!Hand, C!Unsent
<1> QED BY <1>8, <1>12 DEF C!Next

LEMMA NextReadIsNext ==
    ASSUME NEW s, ChannelInvariant(s), CanRead(s)
    PROVE  /\ NextRead(s) \in Reads /\ s.answers[NextRead(s)] = "none"
           /\ \A j \in 1..(NextRead(s) - 1) : s.answers[j] # "none"
           /\ \A i \in Reads : s.answers[i] = "none" <=> i > NextRead(s) - 1
<1>1. PICK n \in 0..MaxReads : \A i \in Reads : s.answers[i] = "none" <=> i > n
      BY DEF ChannelInvariant
<1>2. PICK i \in Reads : s.answers[i] = "none"
      BY DEF CanRead
<1>3. MaxReads \in Nat
      BY ReadableStreamAssumption
<1>4. n + 1 \in Reads /\ s.answers[n + 1] = "none"
      BY <1>1, <1>2, <1>3 DEF Reads
<1>5. \A j \in 1..((n + 1) - 1) : s.answers[j] # "none"
      BY <1>1, <1>3 DEF Reads
<1>6. /\ NextRead(s) \in Reads /\ s.answers[NextRead(s)] = "none"
      /\ \A j \in 1..(NextRead(s) - 1) : s.answers[j] # "none"
      BY <1>4, <1>5 DEF NextRead
<1>7. NextRead(s) = n + 1
      BY <1>1, <1>3, <1>4, <1>6 DEF Reads
<1> QED BY <1>1, <1>6, <1>7 DEF Reads

\* What every answer to a read keeps of the invariant.
LEMMA AnswersInvariant ==
    ASSUME NEW s, NEW t, ChannelInvariant(s), CanRead(s), NEW answer \in AnswerSet \ {"none"},
           answer \in Chunks => answer \in s.offered \ {s.sizing},
           Answers(s, t, NextRead(s), answer)
    PROVE  /\ \A i \in Reads : s.answers[i] # "none" => t.answers[i] # "none"
           /\ t.answers[NextRead(s)] # "none"
           /\ \E n \in 0..MaxReads : \A i \in Reads : t.answers[i] = "none" <=> i > n
           /\ \A i \in Reads : t.answers[i] \in Chunks => t.answers[i] \in t.offered \ {t.sizing}
<1> DEFINE m == NextRead(s)
<1>1. /\ m \in Reads /\ \A i \in Reads : s.answers[i] = "none" <=> i > m - 1
      /\ s.answers \in [Reads -> AnswerSet]
      BY NextReadIsNext, InvariantFacts
<1>2. t.answers = [s.answers EXCEPT ![m] = answer] /\ t.offered = s.offered /\ t.sizing = s.sizing
      BY DEF Answers
<1> HIDE DEF m
<1>3. \A i \in Reads : t.answers[i] = IF i = m THEN answer ELSE s.answers[i]
      BY <1>1, <1>2
<1>4. \A i \in Reads : t.answers[i] = "none" <=> i > m
      BY <1>1, <1>3, ReadableStreamAssumption DEF Reads
<1>5. m \in 0..MaxReads
      BY <1>1, ReadableStreamAssumption DEF Reads
<1>6. \A i \in Reads : t.answers[i] \in Chunks => t.answers[i] \in t.offered \ {t.sizing}
      BY <1>2, <1>3 DEF ChannelInvariant
<1>7. t.answers[NextRead(s)] # "none"
      BY <1>1, <1>3 DEF m
<1>8. \A i \in Reads : s.answers[i] # "none" => t.answers[i] # "none"
      BY <1>3
<1> QED BY <1>4, <1>5, <1>6, <1>7, <1>8

\* The conjuncts of Receive that do not depend on how the read is answered.
LEMMA ReadMade ==
    ASSUME ChannelInvariant(stream), CanRead(stream), NEW answer,
           Answers(stream, stream', NextRead(stream), answer)
    PROVE  /\ NextRead(stream) \in 1..MaxReads
           /\ stream.answers[NextRead(stream)] = "none"
           /\ \A j \in 1..(NextRead(stream) - 1) : stream.answers[j] # "none"
           /\ stream'.answers = [stream.answers EXCEPT ![NextRead(stream)] = answer]
           /\ stream'.keysMatch = stream.keysMatch
           /\ stream'.cancelled = stream.cancelled
BY NextReadIsNext DEF Answers, Reads

LEMMA ReadEndedInvariant ==
    ASSUME NEW s, ChannelInvariant(s), CanRead(s), s.state # "readable"
    PROVE  ChannelInvariant(Read(s))
<1> DEFINE answer == IF s.state = "errored" THEN "rejected" ELSE "done"
           i == NextRead(s)
           t == Read(s)
<1>1. NextRead(s) \in Reads
      BY NextReadIsNext
<1>2. /\ t \in Slots /\ Answers(s, t, i, answer)
      /\ t.state = s.state
      /\ t.readRequests = s.readRequests /\ t.queue = s.queue
      /\ t.readInSize = s.readInSize
      BY <1>1, InvariantFacts, ReadEndedEffect
<1>3. answer \in AnswerSet \ {"none"} /\ answer \notin Chunks
      BY InvariantFacts DEF AnswerSet
<1>4. t.offered = s.offered /\ t.sizing = s.sizing
      /\ t.keysMatch = s.keysMatch /\ t.cancelled = s.cancelled
      BY <1>2 DEF Answers
<1> HIDE DEF answer, t
<1>5. /\ \A j \in Reads : s.answers[j] # "none" => t.answers[j] # "none"
      /\ \E n \in 0..MaxReads : \A j \in Reads : t.answers[j] = "none" <=> j > n
      /\ \A j \in Reads : t.answers[j] \in Chunks => t.answers[j] \in t.offered \ {t.sizing}
      BY <1>2, <1>3, AnswersInvariant
<1>6. \A k \in DOMAIN t.readRequests : t.answers[t.readRequests[k]] # "none"
      BY <1>2, <1>5, InvariantFacts DEF ChannelInvariant
<1>7. t.state # "readable"
      BY <1>2
<1>8. \A k \in DOMAIN t.queue : t.queue[k].value \in t.offered \ {t.sizing}
      BY <1>2, <1>4 DEF ChannelInvariant
<1>9. t.sizing # None => t.sizing \in t.offered
      BY <1>4 DEF ChannelInvariant
<1>11. t.readInSize => \E j \in Reads : t.answers[j] # "none"
      BY <1>2, <1>5 DEF ChannelInvariant
<1>10. ChannelInvariant(t)
      BY <1>2, <1>5, <1>6, <1>7, <1>8, <1>9, <1>11 DEF ChannelInvariant
<1> QED BY <1>10 DEF t

LEMMA ReadEndedStep ==
    ASSUME ChannelInvariant(stream), CanRead(stream), stream.state # "readable",
           stream' = Read(stream)
    PROVE  C!Next /\ ChannelInvariant(stream')
<1> DEFINE answer == IF stream.state = "errored" THEN "rejected" ELSE "done"
           i == NextRead(stream)
<1>1. NextRead(stream) \in Reads
      BY NextReadIsNext
<1>2. /\ stream' \in Slots /\ Answers(stream, stream', i, answer)
      /\ stream'.state = stream.state
      /\ stream'.readRequests = stream.readRequests /\ stream'.queue = stream.queue
      BY <1>1, InvariantFacts, ReadEndedEffect
<1>4. stream'.offered = stream.offered /\ stream'.sizing = stream.sizing
      /\ stream'.keysMatch = stream.keysMatch /\ stream'.cancelled = stream.cancelled
      BY <1>2 DEF Answers
<1>5. ChannelInvariant(stream')
      BY ReadEndedInvariant
<1>6. /\ ChannelState' = ChannelState /\ ChannelState # "open"
      /\ ChannelBuffer = <<>> /\ ChannelBuffer' = <<>>
      /\ answer = IF ChannelState = "failed" THEN "rejected" ELSE "done"
      BY <1>2, <1>4, InvariantFacts DEF ChannelState, ChannelBuffer
<1>7. C!Receive(i)
  <2>1. /\ stream.answers[i] = "none" /\ \A j \in 1..(i - 1) : stream.answers[j] # "none"
        /\ stream'.answers = [stream.answers EXCEPT ![i] = answer]
        BY <1>2, ReadMade
  <2> HIDE DEF answer, i
  <2> QED BY <1>2, <1>4, <1>6, <2>1 DEF C!Receive
<1> QED BY <1>1, <1>5, <1>7 DEF C!Next, Reads

LEMMA ReadWaitsInvariant ==
    ASSUME NEW s, ChannelInvariant(s), CanRead(s), s.state = "readable",
           s.queue = <<>>
    PROVE  ChannelInvariant(Read(s))
<1> DEFINE i == NextRead(s)
           t == Read(s)
<1>1. i \in Reads
      BY NextReadIsNext
<1>2. /\ t \in Slots /\ Answers(s, t, i, "pending")
      /\ t.state = s.state
      /\ t.readRequests = Append(s.readRequests, i)
      /\ t.queue = s.queue
      /\ t.readInSize = (s.readInSize \/ s.sizing # None)
      BY <1>1, InvariantFacts, ReadWaitsEffect
<1>3. "pending" \in AnswerSet \ {"none"} /\ "pending" \notin Chunks
      BY InvariantFacts DEF AnswerSet
<1>4. t.offered = s.offered /\ t.sizing = s.sizing
      /\ t.keysMatch = s.keysMatch /\ t.cancelled = s.cancelled
      BY <1>2 DEF Answers
<1> HIDE DEF t
<1>5. /\ \A j \in Reads : s.answers[j] # "none" => t.answers[j] # "none"
      /\ t.answers[i] # "none"
      /\ \E n \in 0..MaxReads : \A j \in Reads : t.answers[j] = "none" <=> j > n
      /\ \A j \in Reads : t.answers[j] \in Chunks => t.answers[j] \in t.offered \ {t.sizing}
      BY <1>2, <1>3, AnswersInvariant
<1>6. \A k \in DOMAIN t.readRequests : t.answers[t.readRequests[k]] # "none"
  <2> HIDE DEF i
  <2> SUFFICES ASSUME NEW k \in DOMAIN t.readRequests
               PROVE  t.answers[t.readRequests[k]] # "none"
      OBVIOUS
  <2>1. s.readRequests \in Seq(Reads)
        BY InvariantFacts
  <2>2. \/ t.readRequests[k] = i
        \/ k \in DOMAIN s.readRequests /\ t.readRequests[k] = s.readRequests[k]
        BY <1>1, <1>2, <2>1
  <2>3. k \in DOMAIN s.readRequests =>
            s.readRequests[k] \in Reads /\ s.answers[s.readRequests[k]] # "none"
        BY <2>1 DEF ChannelInvariant
  <2> QED BY <1>5, <2>2, <2>3
<1>7. /\ t.queue = <<>> /\ (~t.readInSize => t.sizing = None)
      /\ t.sizing # None => t.sizing \in t.offered
      /\ t.readInSize => \E j \in Reads : t.answers[j] # "none"
      BY <1>1, <1>2, <1>4, <1>5 DEF ChannelInvariant
<1>8. t.state = "readable" => ~t.cancelled
      BY <1>2, <1>4 DEF ChannelInvariant
<1>9. ChannelInvariant(t)
      BY <1>2, <1>5, <1>6, <1>7, <1>8 DEF ChannelInvariant
<1> QED BY <1>9 DEF t

LEMMA ReadWaitsStep ==
    ASSUME ChannelInvariant(stream), CanRead(stream), stream.state = "readable",
           stream.queue = <<>>, stream' = Read(stream)
    PROVE  C!Next /\ ChannelInvariant(stream')
<1> DEFINE i == NextRead(stream)
<1>1. i \in Reads
      BY NextReadIsNext
<1>2. /\ stream' \in Slots /\ Answers(stream, stream', i, "pending")
      /\ stream'.state = stream.state
      /\ stream'.readRequests = Append(stream.readRequests, i)
      /\ stream'.queue = stream.queue
      BY <1>1, InvariantFacts, ReadWaitsEffect
<1>4. stream'.offered = stream.offered /\ stream'.sizing = stream.sizing
      /\ stream'.keysMatch = stream.keysMatch /\ stream'.cancelled = stream.cancelled
      BY <1>2 DEF Answers
<1>5. ChannelInvariant(stream')
      BY ReadWaitsInvariant
<1>6. /\ ChannelState' = ChannelState /\ ChannelState = "open"
      /\ ChannelBuffer = <<>> /\ ChannelBuffer' = <<>>
      BY <1>2 DEF ChannelState, ChannelBuffer, Values
<1>7. C!Receive(i)
  <2>1. /\ stream.answers[i] = "none" /\ \A j \in 1..(i - 1) : stream.answers[j] # "none"
        /\ stream'.answers = [stream.answers EXCEPT ![i] = "pending"]
        BY <1>2, ReadMade
  <2> HIDE DEF i
  <2> QED BY <1>2, <1>4, <1>6, <2>1 DEF C!Receive
<1> QED BY <1>1, <1>5, <1>7 DEF C!Next, Reads

\* The answers once the read of s that is next has taken a chunk.
TakenAnswers(s, t) ==
    \A j \in Reads :
        \/ j = NextRead(s) /\ t.answers[j] = Head(s.queue).value
        \/ j # NextRead(s) /\ t.answers[j] = s.answers[j]
        \/ /\ j # NextRead(s) /\ Contains(s.readRequests, j)
           /\ t.state = "closed" /\ t.answers[j] = "done"

LEMMA TakenFacts ==
    ASSUME NEW s, ChannelInvariant(s), CanRead(s), s.state = "readable", s.queue # <<>>
    PROVE  LET i == NextRead(s)
               t == Read(s)
           IN  /\ Taken(s, t, i) /\ TakenAnswers(s, t)
               /\ i \in Reads /\ s.answers[i] = "none" /\ ~Contains(s.readRequests, i)
               /\ Head(s.queue).value \in (s.offered \ {s.sizing}) \cap Chunks
               /\ Head(s.queue) = s.queue[1] /\ 1 \in DOMAIN s.queue
<1> DEFINE i == NextRead(s)
           t == Read(s)
           chunk == Head(s.queue).value
           n == [s.answers EXCEPT ![i] = chunk]
<1>1. i \in Reads /\ s.answers[i] = "none"
      BY NextReadIsNext
<1>2. Taken(s, t, i)
      BY <1>1, InvariantFacts, ReadTakes
<1>3. s.readRequests \in Seq(Reads) /\ s.answers \in [Reads -> AnswerSet]
      /\ s.queue \in Seq([value : Chunks, size : Nat]) /\ s.offered \in SUBSET Chunks
      BY InvariantFacts
<1>4. ~Contains(s.readRequests, i)
      BY <1>1, <1>3 DEF Contains, ChannelInvariant
<1>5. Head(s.queue) = s.queue[1] /\ 1 \in DOMAIN s.queue
      BY <1>3
<1>6. chunk \in (s.offered \ {s.sizing}) \cap Chunks
      BY <1>3, <1>5 DEF ChannelInvariant
<1> HIDE DEF i, t, chunk
<1>7. \A j \in Reads : n[j] = IF j = i THEN chunk ELSE s.answers[j]
      BY <1>1, <1>3
<1>8. \/ t.state = "readable" /\ t.answers = n
      \/ /\ t.state = "closed"
         /\ t.answers = [j \in Reads |-> IF Contains(s.readRequests, j) THEN "done" ELSE n[j]]
      BY <1>2 DEF Taken, chunk
<1> HIDE DEF n
<1>9. ASSUME NEW j \in Reads
      PROVE  \/ j = i /\ t.answers[j] = chunk
             \/ j # i /\ t.answers[j] = s.answers[j]
             \/ /\ j # i /\ Contains(s.readRequests, j)
                /\ t.state = "closed" /\ t.answers[j] = "done"
      BY <1>4, <1>7, <1>8
<1>10. TakenAnswers(s, t)
      BY <1>9 DEF TakenAnswers, i, chunk
<1> QED BY <1>1, <1>2, <1>4, <1>5, <1>6, <1>10 DEF i, t, chunk

LEMMA ReadTakesInvariant ==
    ASSUME NEW s, ChannelInvariant(s), CanRead(s), s.state = "readable",
           s.queue # <<>>
    PROVE  ChannelInvariant(Read(s))
<1> DEFINE i == NextRead(s)
           answer == Head(s.queue).value
           t == Read(s)
<1>1. /\ Taken(s, t, i) /\ TakenAnswers(s, t)
      /\ i \in Reads
      /\ answer \in (s.offered \ {s.sizing}) \cap Chunks
      BY TakenFacts
<1>2. /\ \A j \in Reads : s.answers[j] = "none" <=> j > i - 1
      /\ s.readRequests \in Seq(Reads) /\ s.offered \in SUBSET Chunks
      /\ s.queue \in Seq([value : Chunks, size : Nat])
      /\ "none" \notin Chunks /\ "done" \notin Chunks
      BY NextReadIsNext, InvariantFacts
<1> HIDE DEF i, t, answer
<1>3. /\ t \in Slots /\ t.keysMatch = s.keysMatch /\ t.cancelled = s.cancelled
      /\ t.queue = Tail(s.queue) /\ t.offered = s.offered /\ t.sizing = s.sizing
      /\ t.readInSize = s.readInSize /\ t.readRequests \in {<<>>, s.readRequests}
      BY <1>1 DEF Taken
<1>4. ASSUME NEW j \in Reads
      PROVE  \/ j = i /\ t.answers[j] = answer
             \/ j # i /\ t.answers[j] = s.answers[j]
             \/ j # i /\ Contains(s.readRequests, j) /\ t.answers[j] = "done"
      BY <1>1 DEF TakenAnswers, i, answer
<1>5. \A j \in Reads : Contains(s.readRequests, j) => s.answers[j] # "none"
      BY <1>2 DEF Contains, ChannelInvariant
<1>6. \A j \in Reads : t.answers[j] = "none" <=> j # i /\ s.answers[j] = "none"
      BY <1>1, <1>2, <1>4, <1>5
<1>7. \A j \in Reads : t.answers[j] = "none" <=> j > i
      BY <1>1, <1>2, <1>6, ReadableStreamAssumption DEF Reads
<1>8. i \in 0..MaxReads
      BY <1>1, ReadableStreamAssumption DEF Reads
<1>9. \A j \in Reads : t.answers[j] \in Chunks => t.answers[j] \in t.offered \ {t.sizing}
      BY <1>1, <1>2, <1>3, <1>4 DEF ChannelInvariant
<1>10. \A k \in DOMAIN t.readRequests : t.answers[t.readRequests[k]] # "none"
  <2> SUFFICES ASSUME NEW k \in DOMAIN t.readRequests
               PROVE  t.answers[t.readRequests[k]] # "none"
      OBVIOUS
  <2>1. k \in DOMAIN s.readRequests /\ t.readRequests = s.readRequests
        BY <1>3
  <2>2. s.readRequests[k] \in Reads /\ s.answers[s.readRequests[k]] # "none"
        BY <1>2, <2>1 DEF ChannelInvariant
  <2> QED BY <1>6, <2>1, <2>2
<1>11. \A k \in DOMAIN t.queue : t.queue[k].value \in t.offered \ {t.sizing}
  <2> SUFFICES ASSUME NEW k \in DOMAIN t.queue
               PROVE  t.queue[k].value \in t.offered \ {t.sizing}
      OBVIOUS
  <2>1. k + 1 \in DOMAIN s.queue /\ t.queue[k] = s.queue[k + 1]
        BY <1>2, <1>3
  <2> QED BY <1>3, <2>1 DEF ChannelInvariant
<1>12. /\ ~t.cancelled
       /\ t.sizing # None => t.sizing \in t.offered
       /\ t.readInSize => \E j \in Reads : t.answers[j] # "none"
      BY <1>1, <1>3, <1>6 DEF ChannelInvariant
<1>13. t.readRequests # <<>> => t.readInSize
      BY <1>3 DEF ChannelInvariant
<1>14. \E n \in 0..MaxReads : \A j \in Reads : t.answers[j] = "none" <=> j > n
      BY <1>7, <1>8
<1>15. ChannelInvariant(t)
      BY <1>3, <1>9, <1>10, <1>11, <1>12, <1>13, <1>14 DEF ChannelInvariant
<1> QED BY <1>15 DEF t

LEMMA ReadTakesStep ==
    ASSUME ChannelInvariant(stream), CanRead(stream), stream.state = "readable",
           stream.queue # <<>>, stream' = Read(stream)
    PROVE  C!Next /\ ChannelInvariant(stream')
<1> DEFINE i == NextRead(stream)
           answer == Head(stream.queue).value
<1>1. i \in Reads /\ Taken(stream, stream', i)
      BY TakenFacts
<1>4. /\ stream'.queue = Tail(stream.queue) /\ stream'.sizing = stream.sizing
      /\ stream'.keysMatch = stream.keysMatch /\ stream'.cancelled = stream.cancelled
      BY <1>1 DEF Taken
<1>5. stream.queue \in Seq([value : Chunks, size : Nat])
      BY InvariantFacts
<1>6. Head(stream.queue) = stream.queue[1] /\ 1 \in DOMAIN stream.queue
      BY <1>5
<1>8. /\ DOMAIN stream'.queue = 1..(Len(stream.queue) - 1)
      /\ \A k \in DOMAIN stream'.queue :
             k + 1 \in DOMAIN stream.queue /\ stream'.queue[k] = stream.queue[k + 1]
      BY <1>4, <1>5
<1>9. ChannelInvariant(stream')
      BY ReadTakesInvariant
<1>10. /\ Values(stream.queue) # <<>> /\ Head(Values(stream.queue)) = answer
       /\ Tail(Values(stream.queue)) = Values(stream'.queue)
  <2>1. Values(stream.queue) = [k \in 1..Len(stream.queue) |-> stream.queue[k].value]
        BY <1>5 DEF Values
  <2>2. Values(stream'.queue) = [k \in 1..(Len(stream.queue) - 1) |-> stream.queue[k + 1].value]
        BY <1>8 DEF Values
  <2>3. Len(stream.queue) \in Nat /\ Len(stream.queue) > 0
        BY <1>5
  <2>4. Values(stream.queue) \in Seq(Chunks)
    <3>1. \A k \in 1..Len(stream.queue) : stream.queue[k] \in [value : Chunks, size : Nat]
          BY <1>5, HeadAndTail
    <3>2. \A k \in 1..Len(stream.queue) : stream.queue[k].value \in Chunks
          BY <3>1
    <3> QED BY <2>1, <2>3, <3>2
  <2>5. Len(Values(stream.queue)) = Len(stream.queue)
        BY <2>1, <2>3, <2>4
  <2>6. Head(Values(stream.queue)) = answer
        BY <1>6, <2>1, <2>3, <2>4, <2>5
  <2>7. Tail(Values(stream.queue)) = Values(stream'.queue)
        BY <2>1, <2>2, <2>3, <2>4, <2>5
  <2> QED BY <2>3, <2>4, <2>5, <2>6, <2>7
<1>11. ChannelState = "open" /\ ChannelBuffer = Values(stream.queue)
      BY DEF ChannelState, ChannelBuffer
<1>12. \/ /\ stream'.state = "readable" /\ stream'.readRequests = stream.readRequests
          /\ stream'.answers = [stream.answers EXCEPT ![i] = answer]
       \/ /\ stream'.state = "closed" /\ Tail(stream.queue) = <<>>
          /\ stream'.readRequests = <<>>
          /\ stream'.answers = [j \in Reads |-> IF Contains(stream.readRequests, j) THEN "done"
                                                ELSE [stream.answers EXCEPT ![i] = answer][j]]
      BY <1>1 DEF Taken
<1>13. C!Receive(i)
  <2>1. stream.answers[i] = "none" /\ \A j \in 1..(i - 1) : stream.answers[j] # "none"
        BY NextReadIsNext
  <2>2. ChannelBuffer # <<>> /\ Head(ChannelBuffer) = answer
        BY <1>10, <1>11
  <2> HIDE DEF i, answer
  <2>3. CASE stream'.state = "readable"
    <3>1. ChannelState' = "open" /\ ChannelBuffer' = Tail(ChannelBuffer)
          BY <1>10, <1>11, <2>3 DEF ChannelState, ChannelBuffer
    <3> QED BY <1>4, <1>11, <1>12, <2>1, <2>2, <2>3, <3>1 DEF C!Receive
  <2>4. CASE stream'.state = "closed"
    <3>1. Values(stream'.queue) = <<>>
          BY <1>4, <1>12, <2>4 DEF Values
    <3>2. ~stream.cancelled
          BY DEF ChannelInvariant
    <3>3. /\ ChannelState' = "closed"
          /\ ChannelBuffer' = <<>> /\ ChannelBuffer' = Tail(ChannelBuffer)
          BY <1>4, <1>10, <1>11, <2>4, <3>1, <3>2 DEF ChannelState, ChannelBuffer
    <3>4. /\ stream.answers \in [Reads -> AnswerSet] /\ stream.readRequests \in Seq(Reads)
          BY InvariantFacts
    <3>5. \A j \in Reads : Contains(stream.readRequests, j)
                               <=> j \in C!Range(stream.readRequests)
          BY <3>4 DEF Contains, C!Range
    <3>6. ~Contains(stream.readRequests, i)
          BY TakenFacts DEF i
    <3>7. stream'.answers = [C!Answering("done") EXCEPT ![i] = answer]
      <4> DEFINE n == [stream.answers EXCEPT ![i] = answer]
                 u == [j \in Reads |-> IF Contains(stream.readRequests, j) THEN "done" ELSE n[j]]
                 w == [C!Answering("done") EXCEPT ![i] = answer]
      <4>1. stream'.answers = u
            BY <1>12, <2>4
      <4>2. C!Answering("done") =
                [j \in Reads |-> IF Contains(stream.readRequests, j) THEN "done"
                                 ELSE stream.answers[j]]
            BY <3>4, <3>5 DEF C!Answering
      <4>3. \A j \in Reads : n[j] = IF j = i THEN answer ELSE stream.answers[j]
            BY <1>1, <3>4
      <4>4. w = [j \in Reads |-> IF j = i THEN answer
                                 ELSE IF Contains(stream.readRequests, j) THEN "done"
                                 ELSE stream.answers[j]]
            BY <4>2
      <4> HIDE DEF n, w
      <4>5. u = w
            BY <3>6, <4>3, <4>4
      <4> QED BY <4>1, <4>5 DEF w
    <3> QED BY <1>4, <1>11, <1>12, <2>1, <2>2, <2>4, <3>3, <3>7 DEF C!Receive
  <2> QED BY <1>12, <2>3, <2>4
<1> QED BY <1>1, <1>9, <1>13 DEF C!Next, Reads

\* A step that the channel does not see.
LEMMA HiddenStep ==
    ASSUME ChannelInvariant(stream), stream' \in Slots, SameChannel(stream, stream')
    PROVE  UNCHANGED C!vars /\ ChannelInvariant(stream')
<1>1. ChannelInvariant(stream')
      BY SameChannelInvariant
<1>2. ChannelState' = ChannelState /\ ChannelBuffer' = ChannelBuffer
      BY DEF SameChannel, ChannelState, ChannelBuffer
<1> QED BY <1>1, <1>2 DEF C!vars, SameChannel

-----------------------------------------------------------------------------
(* The refinement.                                                            *)

LEMMA ReadStep ==
    ASSUME ChannelInvariant(stream), ReaderRead
    PROVE  C!Next /\ ChannelInvariant(stream')
<1>1. CanRead(stream) /\ stream' = Read(stream)
      BY DEF ReaderRead
<1>2. CASE stream.state # "readable"
      BY <1>1, <1>2, ReadEndedStep
<1>3. CASE stream.state = "readable" /\ stream.queue = <<>>
      BY <1>1, <1>3, ReadWaitsStep
<1>4. CASE stream.state = "readable" /\ stream.queue # <<>>
      BY <1>1, <1>4, ReadTakesStep
<1> QED BY <1>2, <1>3, <1>4

LEMMA EnqueueStep ==
    ASSUME ChannelInvariant(stream), SourceEnqueues
    PROVE  C!Next /\ ChannelInvariant(stream')
<1> DEFINE chunk == CHOOSE c \in Chunks : c \notin stream.offered
           offered == [stream EXCEPT !.offered = @ \cup {chunk}]
           sized == [offered EXCEPT !.sizing = chunk]
<1>1. stream.state = "readable" /\ stream.offered # Chunks
      BY DEF SourceEnqueues, CanCloseOrEnqueue
<1>2. stream \in Slots /\ stream.offered \in SUBSET Chunks /\ None \notin Chunks
      BY InvariantFacts
<1>3. chunk \in Chunks /\ chunk \notin stream.offered
  <2>1. \E c \in Chunks : c \notin stream.offered
        BY <1>1, <1>2
  <2> QED BY <2>1
<1>4. \/ stream.readRequests # <<>> /\ stream' = EnqueueToRequest(offered, chunk)
      \/ stream.readRequests = <<>> /\ stream.sizing = None /\ stream' = sized
      BY DEF SourceEnqueues
<1> HIDE DEF chunk
<1>5. /\ offered.keysMatch = stream.keysMatch /\ offered.state = stream.state
      /\ offered.cancelled = stream.cancelled
      /\ offered.readRequests = stream.readRequests /\ offered.answers = stream.answers
      /\ offered.queue = stream.queue /\ offered.sizing = stream.sizing
      /\ offered.offered = stream.offered \cup {chunk}
      /\ offered.readInSize = stream.readInSize
      BY <1>2 DEF Slots
<1>6. offered \in Slots
  <2>1. stream.offered \cup {chunk} \in SUBSET Chunks
        BY <1>2, <1>3
  <2> QED BY <1>2, <2>1, SeenFields
<1> HIDE DEF offered
<1>7. CASE stream.readRequests # <<>> /\ stream' = EnqueueToRequest(offered, chunk)
  <2>1. Fulfilled(offered, stream', chunk)
        BY <1>3, <1>5, <1>6, <1>7, EnqueueToRequestEffect
  <2> QED BY <1>1, <1>3, <1>5, <1>7, <2>1, FulfilStep
<1>8. CASE stream.readRequests = <<>> /\ stream.sizing = None /\ stream' = sized
  <2>1. sized \in Slots
        BY <1>3, <1>6, SeenFields
  <2>2. /\ sized.keysMatch = stream.keysMatch /\ sized.state = stream.state
        /\ sized.cancelled = stream.cancelled
        /\ sized.readRequests = stream.readRequests /\ sized.answers = stream.answers
        /\ sized.queue = stream.queue /\ sized.sizing = chunk
        /\ sized.offered = stream.offered \cup {chunk}
        /\ sized.readInSize = stream.readInSize
        BY <1>5, <1>6 DEF Slots
  <2> HIDE DEF sized
  <2>3. /\ ChannelState' = ChannelState /\ ChannelState = "open"
        /\ ChannelBuffer' = ChannelBuffer
        BY <1>1, <1>8, <2>2 DEF ChannelState, ChannelBuffer
  <2>4. C!BeginSend
        BY <1>2, <1>3, <1>8, <2>2, <2>3 DEF C!BeginSend
  <2>5. \A k \in DOMAIN sized.queue : sized.queue[k].value \in sized.offered \ {sized.sizing}
        BY <1>3, <2>2 DEF ChannelInvariant
  <2>6. \A j \in Reads : sized.answers[j] \in Chunks =>
            sized.answers[j] \in sized.offered \ {sized.sizing}
        BY <1>3, <2>2 DEF ChannelInvariant
  <2>7. /\ \A k \in DOMAIN sized.readRequests : sized.answers[sized.readRequests[k]] # "none"
        /\ \E n \in 0..MaxReads : \A j \in Reads : sized.answers[j] = "none" <=> j > n
        /\ sized.state = "readable" => ~sized.cancelled
        /\ sized.readInSize => \E j \in Reads : sized.answers[j] # "none"
        BY <2>2 DEF ChannelInvariant
  <2>8. sized.readRequests = <<>> /\ sized.sizing \in sized.offered
        BY <1>8, <2>2
  <2>9. ChannelInvariant(sized)
        BY <2>1, <2>5, <2>6, <2>7, <2>8 DEF ChannelInvariant
  <2> QED BY <1>8, <2>4, <2>9 DEF C!Next
<1> QED BY <1>4, <1>7, <1>8

LEMMA SizeStep ==
    ASSUME ChannelInvariant(stream), SizeReturns
    PROVE  C!Next /\ ChannelInvariant(stream')
<1> DEFINE returned == [stream EXCEPT !.sizing = None]
<1>1. stream.sizing # None
      /\ \/ \E size \in Sizes : stream' = EnqueueSized(returned, stream.sizing, size)
         \/ stream' = ControllerError(returned)
      BY DEF SizeReturns
<1>2. stream \in Slots /\ stream.sizing \in Chunks
      BY <1>1, InvariantFacts
<1>3. /\ returned.keysMatch = stream.keysMatch /\ returned.state = stream.state
      /\ returned.cancelled = stream.cancelled
      /\ returned.readRequests = stream.readRequests /\ returned.answers = stream.answers
      /\ returned.queue = stream.queue /\ returned.offered = stream.offered
      /\ returned.sizing = None /\ returned.readInSize = stream.readInSize
      BY <1>2 DEF Slots
<1>4. returned \in Slots
      BY <1>2, SeenFields
<1> HIDE DEF returned
<1>5. ASSUME NEW size \in Sizes, stream' = EnqueueSized(returned, stream.sizing, size)
      PROVE  C!Next /\ ChannelInvariant(stream')
  <2>1. size \in Nat
        BY ReadableStreamAssumption
  <2>2. Queued(returned, stream', stream.sizing)
        BY <1>2, <1>4, <1>5, <2>1, EnqueueSizedEffect
  <2> QED BY <1>1, <1>3, <2>2, QueueStep
<1>6. CASE stream' = ControllerError(returned) /\ stream.state = "readable"
  <2>1. Failed(returned, stream')
        BY <1>3, <1>4, <1>6, ControllerErrorEffect
  <2>2. WaitingAnswered(returned, "rejected") = WaitingAnswered(stream, "rejected")
        BY <1>3 DEF WaitingAnswered
  <2>3. Failed(stream, stream')
        BY <1>3, <2>1, <2>2 DEF Failed
  <2> QED BY <1>6, <2>3, FailStep
<1>7. CASE stream' = ControllerError(returned) /\ stream.state # "readable"
  <2>1. stream' = returned
        BY <1>3, <1>4, <1>7, ControllerErrorEffect
  <2>2. ChannelInvariant(stream')
        BY <1>3, <1>4, <1>7, <2>1, NothingHeldInvariant
  <2>3. /\ ChannelState' = ChannelState /\ ChannelState # "open"
        /\ ChannelBuffer' = ChannelBuffer
        BY <1>3, <1>7, <2>1, InvariantFacts DEF ChannelState, ChannelBuffer
  <2>4. C!EndSend(stream.sizing)
        BY <1>1, <1>3, <2>1, <2>3 DEF C!EndSend
  <2> QED BY <1>2, <2>2, <2>4 DEF C!Next
<1> QED BY <1>1, <1>5, <1>6, <1>7

LEMMA SettleFails ==
    ASSUME ChannelInvariant(stream), NEW call, stream' = ControllerError(Settled(stream, call))
    PROVE  (C!Next \/ UNCHANGED C!vars) /\ ChannelInvariant(stream')
<1> DEFINE a == Settled(stream, call)
<1>1. a \in Slots /\ SameChannel(stream, a)
      BY InvariantFacts, SettledKeeps
<1>2. stream' = ControllerError(a)
      OBVIOUS
<1> HIDE DEF a
<1>3. CASE stream.state = "readable"
  <2>1. Failed(a, stream')
        BY <1>1, <1>2, <1>3, ControllerErrorEffect DEF SameChannel
  <2>2. WaitingAnswered(a, "rejected") = WaitingAnswered(stream, "rejected")
        BY <1>1 DEF WaitingAnswered, SameChannel
  <2>3. Failed(stream, stream')
        BY <1>1, <2>1, <2>2 DEF Failed, SameChannel
  <2> QED BY <1>3, <2>3, FailStep
<1>4. CASE stream.state # "readable"
  <2>1. stream' = a
        BY <1>1, <1>2, <1>4, ControllerErrorEffect DEF SameChannel
  <2> QED BY <1>1, <2>1, HiddenStep
<1> QED BY <1>3, <1>4

LEMMA ChannelStep ==
    ASSUME ChannelInvariant(stream), [Next]_stream
    PROVE  (C!Next \/ UNCHANGED C!vars) /\ ChannelInvariant(stream')
<1>0. stream \in Slots
      BY DEF ChannelInvariant
<1>1. CASE GetReader
  <2>1. stream' \in Slots /\ SameChannel(stream, stream')
        BY <1>0, <1>1, AcquireKeeps DEF GetReader
  <2> QED BY <2>1, HiddenStep
<1>2. CASE ReleaseLock
  <2>1. stream' \in Slots /\ SameChannel(stream, stream')
        BY <1>0, <1>2, ReleaseKeeps DEF ReleaseLock
  <2> QED BY <2>1, HiddenStep
<1>3. CASE ReaderRead
      BY <1>3, ReadStep
<1>4. CASE StreamCancel
      BY <1>0, <1>4, CancelEffect, CancelStep DEF StreamCancel
<1>5. CASE SourceCloses
  <2>1. stream.state = "readable" /\ stream' = ControllerClose(stream)
        BY <1>5 DEF SourceCloses, CanCloseOrEnqueue
  <2>2. CASE stream.queue = <<>>
        BY <1>0, <2>1, <2>2, ControllerCloseEffect, CloseStep
  <2>3. CASE stream.queue # <<>>
        BY <1>0, <2>1, <2>3, ControllerCloseEffect, HiddenStep
  <2> QED BY <2>2, <2>3
<1>6. CASE SourceErrors
      BY <1>0, <1>6, ControllerErrorEffect, FailStep DEF SourceErrors
<1>7. CASE SourceEnqueues
      BY <1>7, EnqueueStep
<1>8. CASE SizeReturns
      BY <1>8, SizeStep
<1>9. CASE StartSettles
  <2>1. CASE stream' = FinishStart(stream)
        BY <1>0, <2>1, FinishStartKeeps, HiddenStep
  <2>2. CASE stream' = FailStart(stream)
        BY <2>2, SettleFails DEF FailStart
  <2> QED BY <1>9, <2>1, <2>2 DEF StartSettles
<1>10. CASE PullSettles
  <2>1. CASE stream' = FinishPull(stream)
        BY <1>0, <2>1, FinishPullKeeps, HiddenStep
  <2>2. CASE stream' = FailPull(stream)
        BY <2>2, SettleFails DEF FailPull
  <2> QED BY <1>10, <2>1, <2>2 DEF PullSettles
<1>11. CASE UNCHANGED stream
  <2>1. stream' \in Slots /\ SameChannel(stream, stream')
        BY <1>0, <1>11 DEF SameChannel
  <2> QED BY <2>1, HiddenStep
<1> QED BY <1>1, <1>2, <1>3, <1>4, <1>5, <1>6, <1>7, <1>8, <1>9, <1>10, <1>11
        DEF Next, ReaderCalls, SourceCallsController, SourceSettles

LEMMA ChannelStart ==
    ASSUME Init
    PROVE  C!Init /\ ChannelInvariant(stream)
<1>1. PICK keysMatch \in BOOLEAN : stream = NewStream(keysMatch)
      BY ReadableStreamAssumption DEF Init
<1>2. /\ stream.keysMatch = keysMatch /\ stream.state = "readable" /\ stream.cancelled = FALSE
      /\ stream.readRequests = <<>> /\ stream.answers = [i \in Reads |-> "none"]
      /\ stream.queue = <<>> /\ stream.offered = {} /\ stream.sizing = None
      /\ ~stream.readInSize
      BY <1>1 DEF NewStream
<1>3. stream \in Slots
      BY <1>1 DEF NewStream, Slots
<1>4. ChannelInvariant(stream)
  <2>1. "none" \notin Chunks
        BY ReadableStreamAssumption
  <2>2. \A i \in Reads : stream.answers[i] = "none"
        BY <1>2
  <2>3. \E n \in 0..MaxReads : \A i \in Reads : stream.answers[i] = "none" <=> i > n
        BY <2>2, ReadableStreamAssumption DEF Reads
  <2> QED BY <1>2, <1>3, <2>1, <2>2, <2>3 DEF ChannelInvariant
<1>5. ChannelState = "open" /\ ChannelBuffer = <<>>
      BY <1>2 DEF ChannelState, ChannelBuffer, Values
<1>6. (~stream.keysMatch) \in BOOLEAN
      OBVIOUS
<1>7. (stream.sizing # None) = FALSE
      BY <1>2
<1> QED BY <1>2, <1>4, <1>5, <1>6, <1>7 DEF C!Init, Reads

\* The stream implements the channel, whatever the source, the reader and size() do in
\* between, a read() in size() included: a read that finds chunks takes the first of
\* them, a chunk that finds reads waiting goes to the first of them, each chunk goes to
\* one read at most, and a stream that closed by itself kept none back.
THEOREM StreamImplementsChannel == SafeSpec => ChannelSpec
<1>1. Init => C!Init /\ ChannelInvariant(stream)
      BY ChannelStart
<1>2. ChannelInvariant(stream) /\ [Next]_stream =>
          ChannelInvariant(stream)' /\ [C!Next]_(C!vars)
      BY ChannelStep
<1> QED BY <1>1, <1>2, PTL DEF SafeSpec, ChannelSpec, C!Spec

-----------------------------------------------------------------------------
(* The assertions.                                                            *)

\* No assertion has failed: pull() is called again only while it runs and runs only
\* once start() has settled; the closed promise of a reader is pending until the
\* stream has ended, and after that only where an error left its reads waiting.
Sound(s) ==
    /\ s \in Slots
    /\ s.failed = {}
    /\ s.pullAgain => s.pulling
    /\ s.pulling => s.started
    /\ s.started => "start" \notin s.sourceCalls
    /\ s.reader /\ s.state = "readable" => s.closed = "pending"
    /\ s.reader /\ s.closed = "pending" => s.state = "readable" \/ s.readRequests # <<>>

\* What an operation on a stream may count on: t is sound, and what s has become.
Becomes(s, t) ==
    /\ Sound(t)
    /\ t.keysMatch = s.keysMatch /\ t.reader = s.reader

\* An operation that does not end the stream.
GoesOn(s, t) ==
    /\ Becomes(s, t)
    /\ t.state = s.state /\ t.closeRequested = s.closeRequested

\* The fields that are not looked at.
LEMMA OtherFields ==
    ASSUME NEW s, NEW t \in Slots, Sound(s),
           t.failed = s.failed, t.pullAgain = s.pullAgain, t.pulling = s.pulling,
           t.started = s.started, t.sourceCalls = s.sourceCalls, t.reader = s.reader,
           t.closed = s.closed, t.state = s.state, t.keysMatch = s.keysMatch,
           t.closeRequested = s.closeRequested,
           t.state = "readable" \/ t.readRequests = s.readRequests
    PROVE  GoesOn(s, t)
BY DEF Sound, GoesOn, Becomes

LEMMA GoesOnTrans ==
    ASSUME NEW s, NEW t, NEW u, GoesOn(s, t), GoesOn(t, u)
    PROVE  GoesOn(s, u)
BY DEF GoesOn, Becomes

LEMMA BecomesTrans ==
    ASSUME NEW s, NEW t, NEW u, Becomes(s, t), Becomes(t, u)
    PROVE  Becomes(s, u)
BY DEF Becomes

LEMMA PullSound ==
    ASSUME NEW s, Sound(s)
    PROVE  GoesOn(s, CallPullIfNeeded(s))
<1>1. s \in Slots /\ CallPullIfNeeded(s) \in Slots
      BY CallPullKeeps DEF Sound
<1>2. CASE ~ShouldCallPull(s)
  <2>1. CallPullIfNeeded(s) = s
        BY <1>2 DEF CallPullIfNeeded
  <2> QED BY <2>1 DEF GoesOn, Becomes, Sound
<1>3. CASE ShouldCallPull(s) /\ s.pulling
  <2>1. CallPullIfNeeded(s) = [s EXCEPT !.pullAgain = TRUE]
        BY <1>3 DEF CallPullIfNeeded
  <2> QED BY <1>1, <1>3, <2>1 DEF GoesOn, Becomes, Sound, Slots
<1>4. CASE ShouldCallPull(s) /\ ~s.pulling
  <2> DEFINE t == [s EXCEPT !.pulling = TRUE, !.sourceCalls = @ \cup {"pull"}, !.owing = TRUE]
  <2>1. CallPullIfNeeded(s) = t
        BY <1>4 DEF CallPullIfNeeded, Asserted, Sound
  <2>2. s.started
        BY <1>4 DEF ShouldCallPull
  <2>3. /\ t.failed = s.failed /\ t.pullAgain = s.pullAgain /\ t.pulling
        /\ t.started = s.started /\ t.sourceCalls = s.sourceCalls \cup {"pull"}
        /\ t.reader = s.reader /\ t.closed = s.closed /\ t.state = s.state
        /\ t.keysMatch = s.keysMatch /\ t.closeRequested = s.closeRequested
        /\ t.readRequests = s.readRequests
        BY <1>1 DEF Slots
  <2>4. t \in Slots
        BY <1>1, <2>1
  <2> HIDE DEF t
  <2> QED BY <2>1, <2>2, <2>3, <2>4 DEF GoesOn, Becomes, Sound
<1> QED BY <1>2, <1>3, <1>4

\* The closed promise of the reader is settled.
LEMMA CloseSound ==
    ASSUME NEW s, Sound(s), s.state = "readable"
    PROVE  Becomes(s, CloseStream(s))
<1> DEFINE a == [s EXCEPT !.state = "closed", !.readRequests = <<>>,
                          !.answers = WaitingAnswered(s, "done")]
           t == [a EXCEPT !.closed = "fulfilled"]
<1>1. CloseStream(s) \in Slots /\ s \in Slots
      BY CloseStreamEffect DEF Closed, Sound
<1>2. CloseStream(s) = ClosedPromiseResolve(a)
      BY <1>1 DEF CloseStream, Asserted, WaitingAnswered, Slots
<1>3. /\ a.failed = {} /\ a.pullAgain = s.pullAgain /\ a.pulling = s.pulling
      /\ a.started = s.started /\ a.sourceCalls = s.sourceCalls /\ a.reader = s.reader
      /\ a.closed = s.closed /\ a.state = "closed" /\ a.keysMatch = s.keysMatch
  <2> HIDE DEF WaitingAnswered
  <2> QED BY <1>1 DEF Slots, Sound
<1>4. ClosedPromiseResolve(a) = IF s.reader THEN t ELSE a
      BY <1>3 DEF ClosedPromiseResolve, Asserted, Sound
<1>5. DOMAIN a = DOMAIN s
      OBVIOUS
<1>6. /\ t.failed = a.failed /\ t.pullAgain = a.pullAgain /\ t.pulling = a.pulling
      /\ t.started = a.started /\ t.sourceCalls = a.sourceCalls /\ t.reader = a.reader
      /\ t.closed = "fulfilled" /\ t.state = a.state /\ t.keysMatch = a.keysMatch
  <2> HIDE DEF a
  <2> QED BY <1>1, <1>5 DEF Slots
<1> HIDE DEF a, t
<1>7. CASE s.reader
      BY <1>1, <1>2, <1>3, <1>4, <1>6, <1>7 DEF Becomes, Sound
<1>8. CASE ~s.reader
      BY <1>1, <1>2, <1>3, <1>4, <1>8 DEF Becomes, Sound
<1> QED BY <1>7, <1>8

LEMMA CloseKeepsCalls ==
    ASSUME NEW s, s \in Slots
    PROVE  CloseStream(s).sourceCalls = s.sourceCalls
BY DEF CloseStream, ClosedPromiseResolve, Asserted, Slots

\* The first reject() throws when its key is missing: the promise stays pending, and so
\* do the reads.
LEMMA ErrorSound ==
    ASSUME NEW s, Sound(s), s.state = "readable"
    PROVE  Becomes(s, ErrorStream(s))
<1> DEFINE e == [s EXCEPT !.state = "errored"]
           a == [e EXCEPT !.readRequests = <<>>, !.answers = WaitingAnswered(s, "rejected")]
           t == [a EXCEPT !.closed = "rejected"]
<1>1. ErrorStream(s) \in Slots /\ s \in Slots
      BY ErrorStreamEffect DEF Failed, Sound
<1>2. ErrorStream(s) =
          IF s.readRequests # <<>> /\ ~s.keysMatch THEN e ELSE ClosedPromiseReject(a)
      BY <1>1 DEF ErrorStream, Asserted, WaitingAnswered, Slots
<1>3. /\ e.failed = {} /\ e.pullAgain = s.pullAgain /\ e.pulling = s.pulling
      /\ e.started = s.started /\ e.sourceCalls = s.sourceCalls /\ e.reader = s.reader
      /\ e.closed = s.closed /\ e.state = "errored" /\ e.keysMatch = s.keysMatch
      /\ e.readRequests = s.readRequests
      BY <1>1 DEF Slots, Sound
<1>4. /\ a.failed = e.failed /\ a.pullAgain = e.pullAgain /\ a.pulling = e.pulling
      /\ a.started = e.started /\ a.sourceCalls = e.sourceCalls /\ a.reader = e.reader
      /\ a.closed = e.closed /\ a.state = e.state /\ a.keysMatch = e.keysMatch
  <2>1. DOMAIN e = DOMAIN s
        OBVIOUS
  <2> HIDE DEF e, WaitingAnswered
  <2> QED BY <1>1, <2>1 DEF Slots
<1>5. ClosedPromiseReject(a) = IF s.reader THEN t ELSE a
      BY <1>3, <1>4 DEF ClosedPromiseReject, Asserted, Sound
<1>6. DOMAIN a = DOMAIN s
      OBVIOUS
<1>7. /\ t.failed = a.failed /\ t.pullAgain = a.pullAgain /\ t.pulling = a.pulling
      /\ t.started = a.started /\ t.sourceCalls = a.sourceCalls /\ t.reader = a.reader
      /\ t.closed = "rejected" /\ t.state = a.state /\ t.keysMatch = a.keysMatch
  <2> HIDE DEF a
  <2> QED BY <1>1, <1>6 DEF Slots
<1> HIDE DEF e, a, t
<1>8. CASE s.readRequests # <<>> /\ ~s.keysMatch
      BY <1>1, <1>2, <1>3, <1>8 DEF Becomes, Sound
<1>9. CASE ~(s.readRequests # <<>> /\ ~s.keysMatch) /\ s.reader
      BY <1>1, <1>2, <1>3, <1>4, <1>5, <1>7, <1>9 DEF Becomes, Sound
<1>10. CASE ~(s.readRequests # <<>> /\ ~s.keysMatch) /\ ~s.reader
      BY <1>1, <1>2, <1>3, <1>4, <1>5, <1>10 DEF Becomes, Sound
<1> QED BY <1>8, <1>9, <1>10

LEMMA ControllerErrorSound ==
    ASSUME NEW s, Sound(s)
    PROVE  Becomes(s, ControllerError(s))
<1> DEFINE q == [s EXCEPT !.queue = <<>>]
           a == [q EXCEPT !.owing = FALSE]
<1>1. s \in Slots
      BY DEF Sound
<1>2. CASE s.state # "readable"
      BY <1>2 DEF ControllerError, Becomes
<1>3. CASE s.state = "readable"
  <2>1. ControllerError(s) = ErrorStream(a)
        BY <1>3 DEF ControllerError
  <2>2. q \in Slots
    <3> <<>> \in Seq([value : Chunks, size : Nat])
        OBVIOUS
    <3> QED BY <1>1, SeenFields
  <2>3. a \in Slots
    <3> HIDE DEF q
    <3> QED BY <2>2, HiddenFields
  <2>4. GoesOn(s, a)
    <3>1. /\ a.failed = s.failed /\ a.pullAgain = s.pullAgain /\ a.pulling = s.pulling
          /\ a.started = s.started /\ a.sourceCalls = s.sourceCalls
          /\ a.reader = s.reader /\ a.closed = s.closed /\ a.state = s.state
          /\ a.keysMatch = s.keysMatch /\ a.closeRequested = s.closeRequested
          /\ a.readRequests = s.readRequests
          BY <1>1 DEF Slots
    <3> HIDE DEF a
    <3> QED BY <2>3, <3>1, OtherFields
  <2> HIDE DEF a
  <2>5. Becomes(a, ErrorStream(a))
        BY <1>3, <2>4, ErrorSound DEF GoesOn, Becomes
  <2> QED BY <2>1, <2>4, <2>5 DEF GoesOn, Becomes
<1> QED BY <1>2, <1>3

LEMMA CancelSound ==
    ASSUME NEW s, Sound(s)
    PROVE  Becomes(s, Cancel(s))
<1>1. CASE s.state # "readable"
      BY <1>1 DEF Cancel, Becomes
<1>2. CASE s.state = "readable"
  <2> DEFINE c == CloseStream(s)
             t == [c EXCEPT !.queue = <<>>, !.cancelled = TRUE]
  <2>1. Cancel(s) = t
        BY <1>2 DEF Cancel
  <2>2. Becomes(s, c)
        BY <1>2, CloseSound
  <2>3. Cancel(s) \in Slots
        BY <1>2, CancelEffect DEF Cancelled, Sound
  <2> HIDE DEF c
  <2>4. /\ t.failed = c.failed /\ t.pullAgain = c.pullAgain /\ t.pulling = c.pulling
        /\ t.started = c.started /\ t.sourceCalls = c.sourceCalls
        /\ t.reader = c.reader /\ t.closed = c.closed /\ t.state = c.state
        /\ t.keysMatch = c.keysMatch /\ t.closeRequested = c.closeRequested
        /\ t.readRequests = c.readRequests
        BY <2>2 DEF Becomes, Sound, Slots
  <2>5. t \in Slots
        BY <2>1, <2>3
  <2> HIDE DEF t
  <2>6. GoesOn(c, t)
        BY <2>2, <2>4, <2>5, OtherFields DEF Becomes
  <2> QED BY <2>1, <2>2, <2>6 DEF GoesOn, Becomes
<1> QED BY <1>1, <1>2

LEMMA ControllerCloseSound ==
    ASSUME NEW s, Sound(s), s.state = "readable"
    PROVE  /\ Becomes(s, ControllerClose(s))
           /\ ControllerClose(s).sourceCalls = s.sourceCalls
<1> DEFINE a == [s EXCEPT !.closeRequested = TRUE, !.owing = FALSE]
<1>1. ControllerClose(s) = IF s.queue = <<>> THEN CloseStream(a) ELSE a
      BY DEF ControllerClose
<1>2. a \in Slots
      BY DEF Slots, Sound
<1>3. /\ a.failed = s.failed /\ a.pullAgain = s.pullAgain /\ a.pulling = s.pulling
      /\ a.started = s.started /\ a.sourceCalls = s.sourceCalls
      /\ a.reader = s.reader /\ a.closed = s.closed /\ a.state = s.state
      /\ a.keysMatch = s.keysMatch /\ a.readRequests = s.readRequests
      BY DEF Slots, Sound
<1> HIDE DEF a
<1>4. Becomes(s, a)
      BY <1>2, <1>3 DEF Becomes, Sound
<1>5. Sound(a)
      BY <1>4 DEF Becomes
<1>6. Becomes(a, CloseStream(a))
      BY <1>3, <1>5, CloseSound
<1>7. CloseStream(a).sourceCalls = a.sourceCalls
      BY <1>2, CloseKeepsCalls
<1>8. Becomes(s, CloseStream(a))
      BY <1>4, <1>6, BecomesTrans
<1> QED BY <1>1, <1>3, <1>4, <1>7, <1>8

LEMMA EnqueueSizedSound ==
    ASSUME NEW s, Sound(s), NEW chunk \in Chunks, NEW size \in Nat
    PROVE  GoesOn(s, EnqueueSized(s, chunk, size))
<1> DEFINE q == Append(s.queue, [value |-> chunk, size |-> size])
           b == [s EXCEPT !.queue = q]
           a == [b EXCEPT !.owing = FALSE]
<1>1. s \in Slots
      BY DEF Sound
<1>2. EnqueueSized(s, chunk, size) = CallPullIfNeeded(a)
      BY <1>1 DEF EnqueueSized, Slots
<1>3. q \in Seq([value : Chunks, size : Nat])
  <2>1. [value |-> chunk, size |-> size] \in [value : Chunks, size : Nat]
        OBVIOUS
  <2>2. s.queue \in Seq([value : Chunks, size : Nat])
        BY <1>1, SlotsFacts
  <2> QED BY <2>1, <2>2
<1> HIDE DEF q
<1>4. b \in Slots
      BY <1>1, <1>3, SeenFields
<1>5. a \in Slots
  <2> HIDE DEF b
  <2> QED BY <1>4, HiddenFields
<1>6. /\ a.failed = s.failed /\ a.pullAgain = s.pullAgain /\ a.pulling = s.pulling
      /\ a.started = s.started /\ a.sourceCalls = s.sourceCalls
      /\ a.reader = s.reader /\ a.closed = s.closed /\ a.state = s.state
      /\ a.keysMatch = s.keysMatch /\ a.closeRequested = s.closeRequested
      /\ a.readRequests = s.readRequests
      BY <1>1 DEF Slots
<1> HIDE DEF a
<1>7. GoesOn(s, a)
      BY <1>5, <1>6, OtherFields
<1>8. GoesOn(a, CallPullIfNeeded(a))
      BY <1>7, PullSound DEF GoesOn, Becomes
<1> QED BY <1>2, <1>7, <1>8, GoesOnTrans

LEMMA EnqueueToRequestSound ==
    ASSUME NEW s, Sound(s), NEW chunk \in Chunks, s.readRequests # <<>>, s.state = "readable"
    PROVE  GoesOn(s, EnqueueToRequest(s, chunk))
<1> DEFINE h == Head(s.readRequests)
           r == Tail(s.readRequests)
           n == [s.answers EXCEPT ![h] = IF s.keysMatch THEN chunk ELSE @]
           a == [s EXCEPT !.readRequests = r]
           b == [a EXCEPT !.answers = n]
           c == [b EXCEPT !.owing = FALSE]
<1>1. s \in Slots /\ h \in Reads /\ r \in Seq(Reads)
      BY SlotsFacts DEF Sound
<1>2. n \in [Reads -> AnswerSet]
      BY <1>1, SlotsFacts DEF AnswerSet
<1>3. [FulfillReadRequest(s, chunk) EXCEPT !.owing = FALSE] = c
  <2>1. FulfillReadRequest(s, chunk) = b
        BY <1>1 DEF FulfillReadRequest, Slots
  <2> HIDE DEF b
  <2> QED BY <2>1
<1> HIDE DEF n, r
<1>4. /\ c.failed = s.failed /\ c.pullAgain = s.pullAgain /\ c.pulling = s.pulling
      /\ c.started = s.started /\ c.sourceCalls = s.sourceCalls
      /\ c.reader = s.reader /\ c.closed = s.closed /\ c.state = s.state
      /\ c.keysMatch = s.keysMatch /\ c.closeRequested = s.closeRequested
      BY <1>1 DEF Slots
<1>5. a \in Slots
      BY <1>1, SeenFields
<1>6. b \in Slots
  <2> HIDE DEF a
  <2> QED BY <1>2, <1>5, SeenFields
<1>7. c \in Slots
  <2> HIDE DEF b
  <2> QED BY <1>6, HiddenFields
<1>8. EnqueueToRequest(s, chunk) = IF EnqueueThrows(s) THEN c ELSE CallPullIfNeeded(c)
      BY <1>3 DEF EnqueueToRequest
<1> HIDE DEF c
<1>9. GoesOn(s, c)
      BY <1>4, <1>7, OtherFields
<1>10. GoesOn(c, CallPullIfNeeded(c))
      BY <1>9, PullSound DEF GoesOn, Becomes
<1> QED BY <1>8, <1>9, <1>10, GoesOnTrans

\* enqueue() with a size() that does nothing else.
LEMMA EnqueueSound ==
    ASSUME NEW s, Sound(s), NEW chunk \in Chunks, NEW size \in Nat, s.state = "readable"
    PROVE  GoesOn(s, Enqueue(s, chunk, size))
BY EnqueueToRequestSound, EnqueueSizedSound DEF Enqueue

LEMMA AcquireSound ==
    ASSUME NEW s, Sound(s)
    PROVE  /\ Sound(AcquireReader(s)) /\ AcquireReader(s).reader
           /\ AcquireReader(s).keysMatch = s.keysMatch
           /\ AcquireReader(s).state = s.state
           /\ AcquireReader(s).closeRequested = s.closeRequested
<1> DEFINE promise == InitialClosedPromise(s)
           t == [s EXCEPT !.reader = TRUE, !.closed = promise]
<1>1. s \in Slots /\ AcquireReader(s) \in Slots
      BY AcquireKeeps DEF Sound
<1>2. AcquireReader(s) = t
      BY DEF AcquireReader
<1>3. s.state = "readable" <=> promise = "pending"
      BY <1>1, SlotsFacts DEF InitialClosedPromise
<1> HIDE DEF promise
<1>4. /\ t.failed = s.failed /\ t.pullAgain = s.pullAgain /\ t.pulling = s.pulling
      /\ t.started = s.started /\ t.sourceCalls = s.sourceCalls
      /\ t.reader = TRUE /\ t.closed = promise /\ t.state = s.state
      /\ t.keysMatch = s.keysMatch /\ t.closeRequested = s.closeRequested
      BY <1>1 DEF Slots
<1> HIDE DEF t
<1> QED BY <1>1, <1>2, <1>3, <1>4 DEF Sound

\* releaseLock() throws while reads are pending.
LEMMA ReleaseSound ==
    ASSUME NEW s, Sound(s), s.reader, s.readRequests = <<>>
    PROVE  Sound(ReleaseReader(s))
<1> DEFINE a == [s EXCEPT !.closed = "rejected"]
           t == [a EXCEPT !.reader = FALSE, !.readRequests = <<>>]
<1>1. s \in Slots /\ ReleaseReader(s) \in Slots
      BY ReleaseKeeps DEF Sound
<1>2. s.state = "readable" => s.closed = "pending"
      BY DEF Sound
<1>3. s.state # "readable" => s.closed # "pending"
      BY DEF Sound
<1>4. CASE s.state = "readable"
  <2>1. ClosedPromiseReject(s) = a
        BY <1>2, <1>4 DEF ClosedPromiseReject, Asserted
  <2> QED BY <1>1, <1>4, <2>1 DEF ReleaseReader, Sound, Slots
<1>5. CASE s.state # "readable"
  <2>1. ClosedPromiseResetToRejected(s) = a
        BY <1>3, <1>5 DEF ClosedPromiseResetToRejected, Asserted
  <2> QED BY <1>1, <1>5, <2>1 DEF ReleaseReader, Sound, Slots
<1> QED BY <1>4, <1>5

\* A read may end a stream only where its closing was asked for.
LEMMA ReadSound ==
    ASSUME NEW s, Sound(s), NextRead(s) \in Reads
    PROVE  /\ Becomes(s, Read(s))
           /\ ~s.closeRequested => GoesOn(s, Read(s))
<1> DEFINE i == NextRead(s)
<1>1. /\ s \in Slots /\ s.queue \in Seq([value : Chunks, size : Nat])
      /\ s.answers \in [Reads -> AnswerSet] /\ s.readRequests \in Seq(Reads)
      /\ s.state \in {"readable", "closed", "errored"}
      BY SlotsFacts DEF Sound
<1>2. ASSUME NEW answer \in AnswerSet
      PROVE  GoesOn(s, [s EXCEPT !.answers[i] = answer])
  <2> DEFINE n == [s.answers EXCEPT ![i] = answer]
             t == [s EXCEPT !.answers = n]
  <2>1. [s EXCEPT !.answers[i] = answer] = t
        BY <1>1 DEF Slots
  <2>2. n \in [Reads -> AnswerSet]
        BY <1>1, <1>2
  <2> HIDE DEF n
  <2>3. t \in Slots
        BY <1>1, <2>2, SeenFields
  <2>4. /\ t.failed = s.failed /\ t.pullAgain = s.pullAgain /\ t.pulling = s.pulling
        /\ t.started = s.started /\ t.sourceCalls = s.sourceCalls
        /\ t.reader = s.reader /\ t.closed = s.closed /\ t.state = s.state
        /\ t.keysMatch = s.keysMatch /\ t.closeRequested = s.closeRequested
        /\ t.readRequests = s.readRequests
        BY <1>1 DEF Slots
  <2> HIDE DEF t
  <2> QED BY <2>1, <2>3, <2>4, OtherFields
<1>3. CASE s.state # "readable"
  <2>1. Read(s) \in {[s EXCEPT !.answers[i] = "done"], [s EXCEPT !.answers[i] = "rejected"]}
        BY <1>1, <1>3 DEF Read
  <2>2. "done" \in AnswerSet /\ "rejected" \in AnswerSet
        BY DEF AnswerSet
  <2>3. GoesOn(s, Read(s))
        BY <1>2, <2>1, <2>2
  <2> QED BY <2>3 DEF GoesOn
<1>4. CASE s.state = "readable" /\ s.queue = <<>>
  <2> DEFINE r == Append(s.readRequests, i)
             n == [s.answers EXCEPT ![i] = "pending"]
             h == s.readInSize \/ s.sizing # None
             a == [s EXCEPT !.readRequests = r]
             b == [a EXCEPT !.answers = n]
             t == [b EXCEPT !.readInSize = h]
  <2>1. Read(s) = PullSteps(s, i)
        BY <1>4 DEF Read
  <2>2. PullSteps(s, i) = CallPullIfNeeded(t)
    <3> HIDE DEF i
    <3> QED BY <1>1, <1>4 DEF PullSteps, Slots
  <2>3. r \in Seq(Reads) /\ n \in [Reads -> AnswerSet]
    <3> HIDE DEF i
    <3> QED BY <1>1 DEF AnswerSet, i
  <2> HIDE DEF r, n
  <2>4. a \in Slots
        BY <1>1, <2>3, SeenFields
  <2>9. b \in Slots
    <3> HIDE DEF a
    <3> QED BY <2>3, <2>4, SeenFields
  <2>10. h \in BOOLEAN
        BY <1>1, SlotsFacts
  <2> HIDE DEF h
  <2>5. t \in Slots
    <3> HIDE DEF b
    <3> QED BY <2>9, <2>10, SeenFields
  <2>6. /\ t.failed = s.failed /\ t.pullAgain = s.pullAgain /\ t.pulling = s.pulling
        /\ t.started = s.started /\ t.sourceCalls = s.sourceCalls
        /\ t.reader = s.reader /\ t.closed = s.closed /\ t.state = s.state
        /\ t.keysMatch = s.keysMatch /\ t.closeRequested = s.closeRequested
        BY <1>1 DEF Slots
  <2> HIDE DEF t
  <2>7. GoesOn(s, t)
        BY <1>4, <2>5, <2>6, OtherFields
  <2>8. GoesOn(t, CallPullIfNeeded(t))
        BY <2>7, PullSound DEF GoesOn, Becomes
  <2>11. GoesOn(s, Read(s))
        BY <2>1, <2>2, <2>7, <2>8, GoesOnTrans
  <2> QED BY <2>11 DEF GoesOn
<1>5. CASE s.state = "readable" /\ s.queue # <<>>
  <2> DEFINE q == Tail(s.queue)
             n == [s.answers EXCEPT ![i] = Head(s.queue).value]
             a == [s EXCEPT !.queue = q]
             t == [a EXCEPT !.answers = n]
  <2>1. Read(s) = PullSteps(s, i)
        BY <1>5 DEF Read
  <2>2. PullSteps(s, i) = IF s.closeRequested /\ t.queue = <<>> THEN CloseStream(t)
                          ELSE CallPullIfNeeded(t)
    <3> HIDE DEF i
    <3> QED BY <1>1, <1>5 DEF PullSteps, Slots
  <2>3. q \in Seq([value : Chunks, size : Nat]) /\ Head(s.queue) \in [value : Chunks, size : Nat]
        BY <1>1, <1>5, HeadAndTail
  <2>4. Head(s.queue).value \in AnswerSet
        BY <2>3 DEF AnswerSet
  <2>5. n \in [Reads -> AnswerSet]
        BY <1>1, <2>4
  <2> HIDE DEF q, n
  <2>6. a \in Slots
        BY <1>1, <2>3, SeenFields
  <2>7. t \in Slots
    <3> HIDE DEF a
    <3> QED BY <2>5, <2>6, SeenFields
  <2>8. /\ t.failed = s.failed /\ t.pullAgain = s.pullAgain /\ t.pulling = s.pulling
        /\ t.started = s.started /\ t.sourceCalls = s.sourceCalls
        /\ t.reader = s.reader /\ t.closed = s.closed /\ t.state = s.state
        /\ t.keysMatch = s.keysMatch /\ t.closeRequested = s.closeRequested
        /\ t.readRequests = s.readRequests
        BY <1>1 DEF Slots
  <2> HIDE DEF t
  <2>9. GoesOn(s, t)
        BY <2>7, <2>8, OtherFields
  <2>10. Sound(t) /\ t.state = "readable"
        BY <1>5, <2>8, <2>9 DEF GoesOn, Becomes
  <2>11. GoesOn(s, CallPullIfNeeded(t))
        BY <2>9, <2>10, PullSound, GoesOnTrans
  <2>12. Becomes(s, CloseStream(t))
    <3>1. Becomes(s, t) /\ Becomes(t, CloseStream(t))
          BY <2>9, <2>10, CloseSound DEF GoesOn
    <3> QED BY <3>1, BecomesTrans
  <2>13. CASE s.closeRequested /\ t.queue = <<>>
         BY <2>1, <2>2, <2>12, <2>13
  <2>14. CASE ~(s.closeRequested /\ t.queue = <<>>)
    <3>1. GoesOn(s, Read(s))
          BY <2>1, <2>2, <2>11, <2>14
    <3> QED BY <3>1 DEF GoesOn
  <2> QED BY <2>13, <2>14
<1> QED BY <1>1, <1>3, <1>4, <1>5

LEMMA SettledSound ==
    ASSUME NEW s, Sound(s), NEW call
    PROVE  GoesOn(s, Settled(s, call)) /\ Settled(s, call).sourceCalls = s.sourceCalls \ {call}
<1>1. s \in Slots /\ Settled(s, call) \in Slots
      BY SettledKeeps DEF Sound
<1> QED BY <1>1 DEF Settled, GoesOn, Becomes, Sound, Slots

LEMMA FinishStartSound ==
    ASSUME NEW s, Sound(s), "start" \in s.sourceCalls
    PROVE  GoesOn(s, FinishStart(s))
<1> DEFINE a == Settled(s, "start")
           t == [a EXCEPT !.started = TRUE]
<1>1. GoesOn(s, a) /\ a.sourceCalls = s.sourceCalls \ {"start"}
      BY SettledSound
<1>2. ~s.pulling /\ ~s.pullAgain
      BY DEF Sound
<1>3. FinishStart(s) = CallPullIfNeeded(t)
      BY <1>2 DEF FinishStart, Asserted
<1> HIDE DEF a
<1>4. GoesOn(a, t)
      BY <1>1 DEF GoesOn, Becomes, Sound, Slots
<1> HIDE DEF t
<1>5. GoesOn(t, CallPullIfNeeded(t))
      BY <1>4, PullSound DEF GoesOn, Becomes
<1> QED BY <1>1, <1>3, <1>4, <1>5, GoesOnTrans

LEMMA FinishPullSound ==
    ASSUME NEW s, Sound(s)
    PROVE  GoesOn(s, FinishPull(s))
<1> DEFINE a == Settled(s, "pull")
           idle == s.idle \/ (s.owing /\ s.state = "readable")
           t == [a EXCEPT !.pulling = FALSE, !.pullAgain = FALSE, !.idle = idle]
<1>1. GoesOn(s, a)
      BY SettledSound
<1>2. FinishPull(s) = IF s.pullAgain THEN CallPullIfNeeded(t) ELSE t
      BY DEF FinishPull, Settled, Sound, Slots
<1>3. idle \in BOOLEAN
      BY DEF Sound, Slots
<1> HIDE DEF a, idle
<1>4. t \in Slots
      BY <1>1, <1>3 DEF GoesOn, Becomes, Sound, Slots
<1>5. /\ t.failed = a.failed /\ ~t.pullAgain /\ ~t.pulling
      /\ t.started = a.started /\ t.sourceCalls = a.sourceCalls
      /\ t.reader = a.reader /\ t.closed = a.closed /\ t.state = a.state
      /\ t.keysMatch = a.keysMatch /\ t.closeRequested = a.closeRequested
      /\ t.readRequests = a.readRequests
      BY <1>1 DEF GoesOn, Becomes, Sound, Slots
<1> HIDE DEF t
<1>6. GoesOn(a, t)
      BY <1>1, <1>4, <1>5 DEF GoesOn, Becomes, Sound
<1>7. GoesOn(t, CallPullIfNeeded(t))
      BY <1>6, PullSound DEF GoesOn, Becomes
<1> QED BY <1>1, <1>2, <1>6, <1>7, GoesOnTrans

LEMMA FailedCallSound ==
    ASSUME NEW s, Sound(s)
    PROVE  Becomes(s, FailStart(s)) /\ Becomes(s, FailPull(s))
<1>1. ASSUME NEW call
      PROVE  Becomes(s, ControllerError(Settled(s, call)))
  <2>1. Becomes(s, Settled(s, call))
        BY SettledSound DEF GoesOn
  <2>2. Becomes(Settled(s, call), ControllerError(Settled(s, call)))
        BY <2>1, ControllerErrorSound DEF Becomes
  <2> QED BY <2>1, <2>2, BecomesTrans
<1> QED BY <1>1 DEF FailStart, FailPull

LEMMA NewStreamSound ==
    ASSUME NEW keysMatch \in BOOLEAN
    PROVE  Sound(NewStream(keysMatch))
BY DEF NewStream, Sound, Slots

LEMMA SourceSound ==
    ASSUME ChannelInvariant(stream), Sound(stream), SourceCallsController \/ SourceSettles
    PROVE  Becomes(stream, stream')
<1>1. CASE SourceCloses
      BY <1>1, ControllerCloseSound DEF SourceCloses, CanCloseOrEnqueue
<1>2. CASE SourceErrors
      BY <1>2, ControllerErrorSound DEF SourceErrors
<1>3. CASE SourceEnqueues
  <2> DEFINE chunk == CHOOSE c \in Chunks : c \notin stream.offered
             a == [stream EXCEPT !.offered = @ \cup {chunk}]
             t == [a EXCEPT !.sizing = chunk]
  <2>1. stream.state = "readable" /\ stream.offered # Chunks
        BY <1>3 DEF SourceEnqueues, CanCloseOrEnqueue
  <2>2. \/ stream.readRequests # <<>> /\ stream' = EnqueueToRequest(a, chunk)
        \/ stream' = t
        BY <1>3 DEF SourceEnqueues
  <2>3. stream \in Slots /\ stream.offered \in SUBSET Chunks
        BY SlotsFacts DEF Sound
  <2>4. chunk \in Chunks
    <3>1. \E c \in Chunks : c \notin stream.offered
          BY <2>1, <2>3
    <3> QED BY <3>1
  <2> HIDE DEF chunk
  <2>5. a \in Slots
    <3>1. stream.offered \cup {chunk} \in SUBSET Chunks
          BY <2>3, <2>4
    <3> QED BY <2>3, <3>1, SeenFields
  <2>6. GoesOn(stream, a) /\ a.readRequests = stream.readRequests
    <3>1. /\ a.failed = stream.failed /\ a.pullAgain = stream.pullAgain
          /\ a.pulling = stream.pulling /\ a.started = stream.started
          /\ a.sourceCalls = stream.sourceCalls /\ a.reader = stream.reader
          /\ a.closed = stream.closed /\ a.state = stream.state
          /\ a.keysMatch = stream.keysMatch /\ a.closeRequested = stream.closeRequested
          /\ a.readRequests = stream.readRequests
          BY <2>3 DEF Slots
    <3> HIDE DEF a
    <3> QED BY <2>5, <3>1, OtherFields
  <2> HIDE DEF a
  <2>7. GoesOn(a, t)
    <3>1. t \in Slots
          BY <2>4, <2>5, SeenFields
    <3>2. /\ t.failed = a.failed /\ t.pullAgain = a.pullAgain
          /\ t.pulling = a.pulling /\ t.started = a.started
          /\ t.sourceCalls = a.sourceCalls /\ t.reader = a.reader
          /\ t.closed = a.closed /\ t.state = a.state
          /\ t.keysMatch = a.keysMatch /\ t.closeRequested = a.closeRequested
          /\ t.readRequests = a.readRequests
          BY <2>5 DEF Slots
    <3> HIDE DEF t
    <3> QED BY <2>6, <3>1, <3>2, OtherFields DEF GoesOn, Becomes
  <2> HIDE DEF t
  <2>8. stream.readRequests # <<>> => GoesOn(a, EnqueueToRequest(a, chunk))
        BY <2>1, <2>4, <2>6, EnqueueToRequestSound DEF GoesOn, Becomes
  <2>9. GoesOn(stream, stream')
        BY <2>2, <2>6, <2>7, <2>8, GoesOnTrans
  <2> QED BY <2>9 DEF GoesOn
<1>4. CASE SizeReturns
  <2> DEFINE a == [stream EXCEPT !.sizing = None]
  <2>1. stream.sizing # None
        /\ \/ \E size \in Sizes : stream' = EnqueueSized(a, stream.sizing, size)
           \/ stream' = ControllerError(a)
        BY <1>4 DEF SizeReturns
  <2>2. stream \in Slots /\ stream.sizing \in Chunks
        BY <2>1, InvariantFacts
  <2>3. a \in Slots
        BY <2>2, SeenFields
  <2>4. /\ a.failed = stream.failed /\ a.pullAgain = stream.pullAgain
        /\ a.pulling = stream.pulling /\ a.started = stream.started
        /\ a.sourceCalls = stream.sourceCalls /\ a.reader = stream.reader
        /\ a.closed = stream.closed /\ a.state = stream.state
        /\ a.keysMatch = stream.keysMatch /\ a.closeRequested = stream.closeRequested
        /\ a.readRequests = stream.readRequests
        BY <2>2 DEF Slots
  <2> HIDE DEF a
  <2>5. GoesOn(stream, a)
        BY <2>3, <2>4, OtherFields
  <2>6. Sound(a) /\ Becomes(stream, a)
        BY <2>5 DEF GoesOn, Becomes
  <2>7. CASE stream' = ControllerError(a)
        BY <2>6, <2>7, ControllerErrorSound, BecomesTrans
  <2>8. ASSUME NEW size \in Sizes, stream' = EnqueueSized(a, stream.sizing, size)
        PROVE  Becomes(stream, stream')
    <3>1. size \in Nat
          BY ReadableStreamAssumption
    <3>2. Becomes(a, stream')
          BY <2>2, <2>6, <2>8, <3>1, EnqueueSizedSound DEF GoesOn
    <3> QED BY <2>6, <3>2, BecomesTrans
  <2> QED BY <2>1, <2>7, <2>8
<1>5. CASE StartSettles
      BY <1>5, FinishStartSound, FailedCallSound DEF StartSettles, Reaction, GoesOn
<1>6. CASE PullSettles
      BY <1>6, FinishPullSound, FailedCallSound DEF PullSettles, GoesOn
<1> QED BY <1>1, <1>2, <1>3, <1>4, <1>5, <1>6 DEF SourceCallsController, SourceSettles

LEMMA SoundStep ==
    ASSUME ChannelInvariant(stream), Sound(stream), [Next]_stream
    PROVE  Sound(stream')
<1>1. CASE GetReader
      BY <1>1, AcquireSound DEF GetReader
<1>2. CASE ReleaseLock
      BY <1>2, ReleaseSound DEF ReleaseLock
<1>3. CASE ReaderRead
      BY <1>3, NextReadIsNext, ReadSound DEF ReaderRead, Becomes
<1>4. CASE StreamCancel
      BY <1>4, CancelSound DEF StreamCancel, Becomes
<1>5. CASE SourceCallsController \/ SourceSettles
      BY <1>5, SourceSound DEF Becomes
<1>6. CASE UNCHANGED stream
      BY <1>6
<1> QED BY <1>1, <1>2, <1>3, <1>4, <1>5, <1>6 DEF Next, ReaderCalls

-----------------------------------------------------------------------------
(* The order of the answers.                                                  *)

Served(answer) == answer \in Chunks \cup {"done"}

\* Where the keys agree: reads wait in the order they were made, until the stream ends,
\* those that wait are those that are pending, and only a stream that has failed rejects
\* one; and while none has begun to wait in size(), a read is not served before one that
\* was made earlier.
InTurn(s) ==
    s.keysMatch =>
        /\ ~s.readInSize =>
               \A i, j \in Reads : i < j /\ Served(s.answers[j]) => Served(s.answers[i])
        /\ \A i \in Reads : s.answers[i] = "pending" <=>
               \E k \in DOMAIN s.readRequests : s.readRequests[k] = i
        /\ \A k, l \in DOMAIN s.readRequests : k < l => s.readRequests[k] < s.readRequests[l]
        /\ \A i \in Reads : s.answers[i] = "rejected" => s.state = "errored"
        /\ s.state # "readable" => s.readRequests = <<>>

\* Reads that were made stay made; a stream that has failed answers nothing else.
Onward(s, t) ==
    /\ t.keysMatch = s.keysMatch
    /\ \A i \in Reads : s.answers[i] # "none" => t.answers[i] # "none"
    /\ s.state = "errored" =>
           /\ t.state = "errored"
           /\ \A i \in Reads : s.answers[i] # "none" => t.answers[i] = s.answers[i]

\* All of it.
ReadableInvariant(s) == ChannelInvariant(s) /\ Sound(s) /\ InTurn(s)

LEMMA MadeInOrder ==
    ASSUME NEW s, ChannelInvariant(s), NEW j \in Reads, s.answers[j] # "none",
           NEW i \in Reads, i < j
    PROVE  s.answers[i] # "none"
<1>1. PICK n \in 0..MaxReads : \A k \in Reads : s.answers[k] = "none" <=> k > n
      BY DEF ChannelInvariant
<1> QED BY <1>1, ReadableStreamAssumption DEF Reads

\* A read that waits is a read, and was made.
LEMMA WaitingMade ==
    ASSUME NEW s, ChannelInvariant(s), NEW k \in DOMAIN s.readRequests
    PROVE  s.readRequests[k] \in Reads /\ s.answers[s.readRequests[k]] # "none"
BY InvariantFacts DEF ChannelInvariant

\* A read is made: it waits, or it is served at once and none waits, or it fails.  What
\* is remembered of size() stays.
LEMMA MadeInTurn ==
    ASSUME NEW s, NEW t, ChannelInvariant(s), InTurn(s),
           NEW i \in Reads, s.answers[i] = "none", NEW answer,
           \A j \in Reads : j < i => s.answers[j] # "none",
           t.keysMatch = s.keysMatch, s.readInSize => t.readInSize,
           t.answers = [s.answers EXCEPT ![i] = answer],
           \/ /\ answer = "pending" /\ s.state = "readable" /\ t.state = s.state
              /\ t.readRequests = Append(s.readRequests, i)
           \/ /\ Served(answer) /\ answer \notin {"pending", "rejected"}
              /\ s.state # "errored" /\ s.readRequests = <<>> /\ t.readRequests = <<>>
           \/ /\ answer = "rejected" /\ s.state = "errored" /\ t.state = s.state
              /\ t.readRequests = s.readRequests
    PROVE  InTurn(t)
<1>1. /\ s.answers \in [Reads -> AnswerSet] /\ s.readRequests \in Seq(Reads)
      /\ s.state \in {"readable", "closed", "errored"}
      /\ ~Served("pending") /\ ~Served("rejected") /\ ~Served("none")
      BY InvariantFacts DEF Served
<1>2. \A j \in Reads : t.answers[j] = IF j = i THEN answer ELSE s.answers[j]
      BY <1>1
<1>3. \A j \in Reads : j > i => s.answers[j] = "none"
      BY MadeInOrder
<1> SUFFICES ASSUME s.keysMatch
             PROVE  /\ ~t.readInSize =>
                           \A h, j \in Reads : h < j /\ Served(t.answers[j]) =>
                               Served(t.answers[h])
                    /\ \A h \in Reads : t.answers[h] = "pending" <=>
                           \E k \in DOMAIN t.readRequests : t.readRequests[k] = h
                    /\ \A k, l \in DOMAIN t.readRequests :
                           k < l => t.readRequests[k] < t.readRequests[l]
                    /\ \A h \in Reads : t.answers[h] = "rejected" => t.state = "errored"
                    /\ t.state # "readable" => t.readRequests = <<>>
    BY DEF InTurn
<1>4. /\ ~t.readInSize =>
             \A h, j \in Reads : h < j /\ Served(s.answers[j]) => Served(s.answers[h])
      /\ \A h \in Reads : s.answers[h] = "pending" <=>
             \E k \in DOMAIN s.readRequests : s.readRequests[k] = h
      /\ \A k, l \in DOMAIN s.readRequests : k < l => s.readRequests[k] < s.readRequests[l]
      /\ \A h \in Reads : s.answers[h] = "rejected" => s.state = "errored"
      /\ s.state # "readable" => s.readRequests = <<>>
      BY DEF InTurn
<1>5. CASE /\ answer = "pending" /\ s.state = "readable" /\ t.state = s.state
           /\ t.readRequests = Append(s.readRequests, i)
  <2>1. ~t.readInSize =>
            \A h, j \in Reads : h < j /\ Served(t.answers[j]) => Served(t.answers[h])
        BY <1>1, <1>2, <1>3, <1>4, <1>5 DEF Reads
  <2>2. /\ DOMAIN t.readRequests = 1..(Len(s.readRequests) + 1)
        /\ \A k \in DOMAIN s.readRequests : t.readRequests[k] = s.readRequests[k]
        /\ t.readRequests[Len(s.readRequests) + 1] = i
        /\ DOMAIN s.readRequests = 1..Len(s.readRequests) /\ Len(s.readRequests) \in Nat
        BY <1>1, <1>5
  <2>3. \A h \in Reads : t.answers[h] = "pending" <=>
            \E k \in DOMAIN t.readRequests : t.readRequests[k] = h
    <3> SUFFICES ASSUME NEW h \in Reads
                 PROVE  t.answers[h] = "pending" <=>
                            \E k \in DOMAIN t.readRequests : t.readRequests[k] = h
        OBVIOUS
    <3>1. CASE h = i
          BY <1>2, <1>5, <2>2, <3>1
    <3>2. CASE h # i
      <4>1. t.answers[h] = s.answers[h]
            BY <1>2, <3>2
      <4>2. (\E k \in DOMAIN t.readRequests : t.readRequests[k] = h) <=>
                \E k \in DOMAIN s.readRequests : s.readRequests[k] = h
            BY <2>2, <3>2
      <4> QED BY <1>4, <4>1, <4>2
    <3> QED BY <3>1, <3>2
  <2>4. \A k \in DOMAIN s.readRequests : s.readRequests[k] < i
    <3> SUFFICES ASSUME NEW k \in DOMAIN s.readRequests
                 PROVE  s.readRequests[k] < i
        OBVIOUS
    <3>1. s.readRequests[k] \in Reads /\ s.answers[s.readRequests[k]] # "none"
          BY WaitingMade
    <3> QED BY <1>3, <3>1 DEF Reads
  <2>5. \A k, l \in DOMAIN t.readRequests : k < l => t.readRequests[k] < t.readRequests[l]
    <3> SUFFICES ASSUME NEW k \in DOMAIN t.readRequests, NEW l \in DOMAIN t.readRequests, k < l
                 PROVE  t.readRequests[k] < t.readRequests[l]
        OBVIOUS
    <3>1. k \in DOMAIN s.readRequests
          BY <2>2
    <3>2. CASE l \in DOMAIN s.readRequests
          BY <1>4, <2>2, <3>1, <3>2
    <3>3. CASE l = Len(s.readRequests) + 1
          BY <2>2, <2>4, <3>1, <3>3
    <3> QED BY <2>2, <3>2, <3>3
  <2>6. \A h \in Reads : t.answers[h] = "rejected" => t.state = "errored"
        BY <1>2, <1>4, <1>5
  <2> QED BY <1>5, <2>1, <2>3, <2>5, <2>6
<1>6. CASE /\ Served(answer) /\ answer \notin {"pending", "rejected"}
           /\ s.state # "errored" /\ s.readRequests = <<>> /\ t.readRequests = <<>>
  <2>1. \A j \in Reads : s.answers[j] # "pending" /\ s.answers[j] # "rejected"
        BY <1>4, <1>6
  <2>2. \A j \in Reads : j < i => Served(s.answers[j])
        BY <1>1, <2>1 DEF Served, AnswerSet
  <2>3. ~t.readInSize =>
            \A h, j \in Reads : h < j /\ Served(t.answers[j]) => Served(t.answers[h])
        BY <1>1, <1>2, <1>3, <1>4, <1>6, <2>2 DEF Reads
  <2>4. \A h \in Reads : t.answers[h] # "pending" /\ t.answers[h] # "rejected"
        BY <1>2, <1>6, <2>1
  <2>5. DOMAIN t.readRequests = {}
        BY <1>6
  <2> QED BY <1>6, <2>3, <2>4, <2>5
<1>7. CASE /\ answer = "rejected" /\ s.state = "errored" /\ t.state = s.state
           /\ t.readRequests = s.readRequests
  <2>1. ~t.readInSize =>
            \A h, j \in Reads : h < j /\ Served(t.answers[j]) => Served(t.answers[h])
        BY <1>1, <1>2, <1>3, <1>4, <1>7 DEF Reads
  <2>2. \A h \in Reads : t.answers[h] # "pending"
    <3>1. DOMAIN s.readRequests = {}
          BY <1>4, <1>7
    <3> QED BY <1>2, <1>4, <1>7, <3>1
  <2> QED BY <1>2, <1>4, <1>7, <2>1, <2>2
<1> QED BY <1>5, <1>6, <1>7

\* All reads that wait are answered, and the stream ends.
LEMMA EndsInTurn ==
    ASSUME NEW s, NEW t, ChannelInvariant(s), InTurn(s), s.state = "readable",
           t.keysMatch = s.keysMatch, t.readRequests = <<>>, t.readInSize = s.readInSize,
           \/ t.answers = WaitingAnswered(s, "done") /\ t.state = "closed"
           \/ t.answers = WaitingAnswered(s, "rejected") /\ t.state = "errored"
    PROVE  InTurn(t)
<1>1. /\ s.answers \in [Reads -> AnswerSet] /\ s.readRequests \in Seq(Reads)
      /\ ~Served("pending") /\ ~Served("rejected") /\ ~Served("none") /\ Served("done")
      BY InvariantFacts DEF Served
<1> SUFFICES ASSUME s.keysMatch
             PROVE  InTurn(t)
    BY DEF InTurn
<1>2. /\ ~s.readInSize =>
             \A h, j \in Reads : h < j /\ Served(s.answers[j]) => Served(s.answers[h])
      /\ \A h \in Reads : s.answers[h] = "pending" <=>
             \E k \in DOMAIN s.readRequests : s.readRequests[k] = h
      /\ \A h \in Reads : s.answers[h] # "rejected"
      BY DEF InTurn
<1>3. \A i \in Reads : s.answers[i] = "pending" <=> Contains(s.readRequests, i)
      BY <1>1, <1>2 DEF Contains
<1>4. \A i \in Reads : Contains(s.readRequests, i) => s.answers[i] # "none"
      BY <1>3
<1>5. \A i \in Reads : s.answers[i] # "none" /\ ~Contains(s.readRequests, i) => Served(s.answers[i])
      BY <1>1, <1>2, <1>3 DEF Served, AnswerSet
<1>6. CASE t.answers = WaitingAnswered(s, "done") /\ t.state = "closed"
  <2>1. \A i \in Reads : t.answers[i] = IF Contains(s.readRequests, i) THEN "done" ELSE s.answers[i]
        BY <1>6 DEF WaitingAnswered
  <2>2. \A i \in Reads : Served(t.answers[i]) <=> s.answers[i] # "none"
        BY <1>1, <1>4, <1>5, <2>1
  <2>3. \A i, j \in Reads : i < j /\ Served(t.answers[j]) => Served(t.answers[i])
        BY <2>2, MadeInOrder
  <2>4. \A i \in Reads : t.answers[i] # "pending" /\ t.answers[i] # "rejected"
        BY <1>2, <1>3, <2>1
  <2> QED BY <2>3, <2>4 DEF InTurn
<1>7. CASE t.answers = WaitingAnswered(s, "rejected") /\ t.state = "errored"
  <2>1. \A i \in Reads : t.answers[i] =
            IF Contains(s.readRequests, i) THEN "rejected" ELSE s.answers[i]
        BY <1>7 DEF WaitingAnswered
  <2>2. \A i \in Reads : Served(t.answers[i]) <=> Served(s.answers[i])
        BY <1>1, <1>3, <2>1
  <2>3. \A i \in Reads : t.answers[i] # "pending"
        BY <1>3, <2>1
  <2>4. DOMAIN t.readRequests = {}
        OBVIOUS
  <2> QED BY <1>2, <1>7, <2>2, <2>3, <2>4 DEF InTurn
<1> QED BY <1>6, <1>7

\* The first read that waits is served.
LEMMA ServedInTurn ==
    ASSUME NEW s, NEW t, ChannelInvariant(s), InTurn(s), s.state = "readable",
           s.readRequests # <<>>, NEW chunk \in Chunks,
           t.keysMatch = s.keysMatch, t.state = s.state, t.readInSize = s.readInSize,
           t.readRequests = Tail(s.readRequests),
           s.keysMatch => t.answers = [s.answers EXCEPT ![Head(s.readRequests)] = chunk]
    PROVE  InTurn(t)
<1> DEFINE h == Head(s.readRequests)
<1>1. /\ s.answers \in [Reads -> AnswerSet] /\ s.readRequests \in Seq(Reads)
      /\ ~Served("pending") /\ ~Served("rejected") /\ ~Served("none") /\ Served(chunk)
      /\ chunk \notin {"pending", "rejected"}
      BY InvariantFacts DEF Served
<1> SUFFICES ASSUME s.keysMatch
             PROVE  InTurn(t)
    BY DEF InTurn
<1>2. /\ ~s.readInSize =>
             \A i, j \in Reads : i < j /\ Served(s.answers[j]) => Served(s.answers[i])
      /\ \A i \in Reads : s.answers[i] = "pending" <=>
             \E k \in DOMAIN s.readRequests : s.readRequests[k] = i
      /\ \A k, l \in DOMAIN s.readRequests : k < l => s.readRequests[k] < s.readRequests[l]
      /\ \A i \in Reads : s.answers[i] # "rejected"
      BY DEF InTurn
<1>3. /\ h \in Reads /\ h = s.readRequests[1] /\ 1 \in DOMAIN s.readRequests
      /\ DOMAIN s.readRequests = 1..Len(s.readRequests) /\ Len(s.readRequests) \in Nat
      BY <1>1
<1>4. /\ DOMAIN t.readRequests = 1..(Len(s.readRequests) - 1)
      /\ \A k \in DOMAIN t.readRequests :
             k + 1 \in DOMAIN s.readRequests /\ t.readRequests[k] = s.readRequests[k + 1]
      BY <1>1
<1> HIDE DEF h
<1>5. \A i \in Reads : t.answers[i] = IF i = h THEN chunk ELSE s.answers[i]
      BY <1>1, <1>3 DEF h
<1>6. s.answers[h] = "pending"
      BY <1>2, <1>3
<1>7. \A i \in Reads : i < h => Served(s.answers[i])
  <2> SUFFICES ASSUME NEW i \in Reads, i < h
               PROVE  Served(s.answers[i])
      OBVIOUS
  <2>1. s.answers[i] # "none"
        BY <1>3, <1>6, MadeInOrder
  <2>2. s.answers[i] # "pending"
    <3> SUFFICES ASSUME NEW k \in DOMAIN s.readRequests, s.readRequests[k] = i
                 PROVE  FALSE
        BY <1>2
    <3>1. k # 1 /\ k \in Nat
          BY <1>3 DEF Reads
    <3>2. h < i
          BY <1>2, <1>3, <3>1
    <3> QED BY <1>3, <3>2 DEF Reads
  <2> QED BY <1>1, <1>2, <2>1, <2>2 DEF Served, AnswerSet
<1>8. ~t.readInSize =>
          \A i, j \in Reads : i < j /\ Served(t.answers[j]) => Served(t.answers[i])
      BY <1>1, <1>2, <1>5, <1>7
<1>9. \A i \in Reads : t.answers[i] = "pending" <=>
          \E k \in DOMAIN t.readRequests : t.readRequests[k] = i
  <2> SUFFICES ASSUME NEW i \in Reads
               PROVE  t.answers[i] = "pending" <=>
                          \E k \in DOMAIN t.readRequests : t.readRequests[k] = i
      OBVIOUS
  <2>1. CASE i = h
    <3>1. \A k \in DOMAIN t.readRequests : t.readRequests[k] # h
      <4> SUFFICES ASSUME NEW k \in DOMAIN t.readRequests
                   PROVE  t.readRequests[k] # h
          OBVIOUS
      <4>1. k + 1 \in DOMAIN s.readRequests /\ 1 < k + 1
            BY <1>3, <1>4
      <4>2. s.readRequests[1] < s.readRequests[k + 1]
            BY <1>2, <1>3, <4>1
      <4>3. s.readRequests[k + 1] \in Reads
            BY <1>1, <4>1
      <4> QED BY <1>3, <1>4, <4>2, <4>3 DEF Reads
    <3> QED BY <1>1, <1>5, <2>1, <3>1
  <2>2. CASE i # h
    <3>1. \A k \in DOMAIN s.readRequests : s.readRequests[k] = i =>
              k - 1 \in DOMAIN t.readRequests /\ t.readRequests[k - 1] = i
      <4> SUFFICES ASSUME NEW k \in DOMAIN s.readRequests, s.readRequests[k] = i
                   PROVE  k - 1 \in DOMAIN t.readRequests /\ t.readRequests[k - 1] = i
          OBVIOUS
      <4>1. k # 1
            BY <1>3, <2>2
      <4>2. k - 1 \in DOMAIN t.readRequests /\ (k - 1) + 1 = k
            BY <1>3, <1>4, <4>1
      <4> QED BY <1>4, <4>2
    <3>2. \A k \in DOMAIN t.readRequests : t.readRequests[k] = i =>
              \E l \in DOMAIN s.readRequests : s.readRequests[l] = i
          BY <1>4
    <3>3. \A k \in DOMAIN s.readRequests : s.readRequests[k] = i =>
              \E l \in DOMAIN t.readRequests : t.readRequests[l] = i
          BY <3>1
    <3>4. t.answers[i] = "pending" <=> \E k \in DOMAIN s.readRequests : s.readRequests[k] = i
          BY <1>2, <1>5, <2>2
    <3> QED BY <3>2, <3>3, <3>4
  <2> QED BY <2>1, <2>2
<1>10. \A k, l \in DOMAIN t.readRequests : k < l => t.readRequests[k] < t.readRequests[l]
  <2> SUFFICES ASSUME NEW k \in DOMAIN t.readRequests, NEW l \in DOMAIN t.readRequests, k < l
               PROVE  t.readRequests[k] < t.readRequests[l]
      OBVIOUS
  <2>1. k + 1 < l + 1
        BY <1>3, <1>4
  <2> QED BY <1>2, <1>4, <2>1
<1>11. \A i \in Reads : t.answers[i] # "rejected"
       BY <1>1, <1>2, <1>5
<1> QED BY <1>8, <1>9, <1>10, <1>11 DEF InTurn

\* Nothing that the order depends on changes.
LEMMA SameInTurn ==
    ASSUME NEW s, NEW t, InTurn(s), t.keysMatch = s.keysMatch, t.state = s.state,
           t.readRequests = s.readRequests, t.answers = s.answers,
           t.readInSize = s.readInSize
    PROVE  InTurn(t)
BY DEF InTurn

\* A read takes a chunk from the queue.  Those that wait began to in size(): they go on
\* waiting, or are told that the stream has closed.
LEMMA TakenInTurn ==
    ASSUME NEW s, NEW t, ChannelInvariant(s), InTurn(s), CanRead(s), s.state = "readable",
           s.queue # <<>>, t = Read(s)
    PROVE  InTurn(t) /\ Onward(s, t)
<1> DEFINE i == NextRead(s)
           chunk == Head(s.queue).value
<1>1. /\ Taken(s, t, i) /\ TakenAnswers(s, t) /\ i \in Reads
      /\ chunk \in (s.offered \ {s.sizing}) \cap Chunks
      BY TakenFacts
<1>2. /\ s.answers[i] = "none" /\ \A j \in Reads : j < i => s.answers[j] # "none"
      /\ s.answers \in [Reads -> AnswerSet] /\ s.readRequests \in Seq(Reads)
      /\ {"none", "pending", "rejected", "done"} \cap Chunks = {}
      BY NextReadIsNext, InvariantFacts DEF Reads
<1> HIDE DEF i, chunk
<1>3. /\ t.keysMatch = s.keysMatch /\ t.readInSize = s.readInSize
      /\ \/ t.state = "readable" /\ t.readRequests = s.readRequests
         \/ t.state = "closed" /\ t.readRequests = <<>>
      BY <1>1 DEF Taken
<1>4. ASSUME NEW j \in Reads
      PROVE  \/ j = i /\ t.answers[j] = chunk
             \/ j # i /\ t.answers[j] = s.answers[j]
             \/ /\ j # i /\ Contains(s.readRequests, j)
                /\ t.state = "closed" /\ t.answers[j] = "done"
      BY <1>1 DEF TakenAnswers, i, chunk
<1>5. Onward(s, t)
      BY <1>1, <1>2, <1>3, <1>4 DEF Onward
<1>6. CASE s.readRequests = <<>>
  <2>1. t.readRequests = <<>> /\ t.answers = [s.answers EXCEPT ![i] = chunk]
        BY <1>6, InvariantFacts, ReadTakesEffect, <1>1 DEF ChannelInvariant, Answers, i, chunk
  <2>2. Served(chunk) /\ chunk \notin {"pending", "rejected"}
        BY <1>1, <1>2 DEF Served
  <2>3. InTurn(t)
        BY <1>1, <1>2, <1>3, <1>6, <2>1, <2>2, MadeInTurn
  <2> QED BY <1>5, <2>3
<1>7. CASE s.readRequests # <<>> /\ s.keysMatch
  <2>1. t.readInSize
        BY <1>3, <1>7 DEF ChannelInvariant
  <2>2. /\ \A h \in Reads : s.answers[h] = "pending" <=>
               \E k \in DOMAIN s.readRequests : s.readRequests[k] = h
        /\ \A k, l \in DOMAIN s.readRequests :
               k < l => s.readRequests[k] < s.readRequests[l]
        /\ \A h \in Reads : s.answers[h] # "rejected"
        BY <1>7 DEF InTurn
  <2>3. \A h \in Reads : s.answers[h] = "pending" <=> Contains(s.readRequests, h)
        BY <1>2, <2>2 DEF Contains
  <2>4. \A h \in Reads : t.answers[h] # "rejected"
        BY <1>1, <1>2, <1>4, <2>2
  <2>5. CASE t.state = "readable" /\ t.readRequests = s.readRequests
    <3>1. \A h \in Reads : t.answers[h] = "pending" <=> s.answers[h] = "pending"
          BY <1>1, <1>2, <1>4, <2>5
    <3> QED BY <1>5, <2>1, <2>2, <2>4, <2>5, <3>1 DEF InTurn
  <2>6. CASE t.state = "closed" /\ t.readRequests = <<>>
    <3>3. \A h \in Reads : Contains(s.readRequests, h) => t.answers[h] = "done"
          BY <1>1, <2>6 DEF Taken
    <3>1. \A h \in Reads : t.answers[h] # "pending"
          BY <1>1, <1>2, <1>4, <2>3, <3>3
    <3>2. DOMAIN t.readRequests = {}
          BY <2>6
    <3> QED BY <1>5, <2>1, <2>4, <2>6, <3>1, <3>2 DEF InTurn
  <2> QED BY <1>3, <2>5, <2>6
<1>8. CASE ~s.keysMatch
      BY <1>3, <1>5, <1>8 DEF InTurn
<1> QED BY <1>6, <1>7, <1>8

\* Read, wherever it is called.
LEMMA ReadInTurn ==
    ASSUME NEW s, NEW t, ReadableInvariant(s), CanRead(s), t = Read(s)
    PROVE  ReadableInvariant(t) /\ Onward(s, t) /\ t.reader = s.reader
<1> DEFINE i == NextRead(s)
<1>1. ChannelInvariant(s) /\ Sound(s) /\ InTurn(s)
      BY DEF ReadableInvariant
<1>2. /\ i \in Reads /\ s.answers[i] = "none"
      /\ \A j \in Reads : j < i => s.answers[j] # "none"
      BY <1>1, NextReadIsNext DEF Reads
<1>3. Becomes(s, t)
      BY <1>1, <1>2, ReadSound
<1>4. ChannelInvariant(t)
      BY <1>1, ReadEndedInvariant, ReadWaitsInvariant, ReadTakesInvariant
<1>5. /\ s \in Slots /\ s.state \in {"readable", "closed", "errored"}
      /\ s.answers \in [Reads -> AnswerSet]
      /\ "none" \notin Chunks /\ "pending" \notin Chunks /\ "rejected" \notin Chunks
      BY <1>1, InvariantFacts
<1>6. ASSUME NEW answer, answer # "none", t.answers = [s.answers EXCEPT ![i] = answer],
             s.state = "errored" => t.state = "errored"
      PROVE  Onward(s, t)
  <2>1. \A j \in Reads : t.answers[j] = IF j = i THEN answer ELSE s.answers[j]
        BY <1>5, <1>6
  <2> QED BY <1>2, <1>3, <1>6, <2>1 DEF Onward, Becomes
<1>7. CASE s.state # "readable"
  <2> DEFINE answer == IF s.state = "errored" THEN "rejected" ELSE "done"
  <2>1. /\ Answers(s, t, i, answer) /\ t.state = s.state /\ t.readRequests = s.readRequests
        /\ t.readInSize = s.readInSize
        BY <1>2, <1>5, <1>7, ReadEndedEffect
  <2>2. t.answers = [s.answers EXCEPT ![i] = answer] /\ t.keysMatch = s.keysMatch
        BY <2>1 DEF Answers
  <2>3. s.keysMatch => s.readRequests = <<>>
        BY <1>1, <1>7 DEF InTurn
  <2>4. s.keysMatch =>
        \/ /\ Served(answer) /\ answer \notin {"pending", "rejected"}
           /\ s.state # "errored" /\ s.readRequests = <<>> /\ t.readRequests = <<>>
        \/ /\ answer = "rejected" /\ s.state = "errored" /\ t.state = s.state
           /\ t.readRequests = s.readRequests
        BY <1>5, <1>7, <2>1, <2>3 DEF Served
  <2>5. answer # "none"
        OBVIOUS
  <2> HIDE DEF answer, i
  <2>6. Onward(s, t)
        BY <1>6, <2>1, <2>2, <2>5
  <2>7. InTurn(t)
    <3>1. CASE s.keysMatch
          BY <1>1, <1>2, <2>1, <2>2, <2>4, <3>1, MadeInTurn
    <3>2. CASE ~s.keysMatch
          BY <2>2, <3>2 DEF InTurn
    <3> QED BY <3>1, <3>2
  <2> QED BY <1>3, <1>4, <2>6, <2>7 DEF ReadableInvariant, Becomes
<1>8. CASE s.state = "readable" /\ s.queue = <<>>
  <2> DEFINE answer == "pending"
  <2>1. /\ Answers(s, t, i, "pending") /\ t.state = s.state
        /\ t.readRequests = Append(s.readRequests, i) /\ (s.readInSize => t.readInSize)
        BY <1>2, <1>5, <1>8, ReadWaitsEffect
  <2> HIDE DEF i
  <2>2. /\ t.keysMatch = s.keysMatch /\ t.answers = [s.answers EXCEPT ![i] = answer]
        BY <2>1 DEF Answers
  <2>3. /\ answer = "pending" /\ s.state = "readable" /\ t.state = s.state
        /\ t.readRequests = Append(s.readRequests, i) /\ answer # "none"
        BY <1>8, <2>1
  <2> HIDE DEF answer
  <2>4. InTurn(t)
    <3>1. ChannelInvariant(s) /\ InTurn(s)
          BY <1>1
    <3>2. /\ i \in Reads /\ s.answers[i] = "none"
          /\ \A j \in Reads : j < i => s.answers[j] # "none"
          BY <1>2
    <3>3. \/ /\ answer = "pending" /\ s.state = "readable" /\ t.state = s.state
             /\ t.readRequests = Append(s.readRequests, i)
          \/ /\ Served(answer) /\ answer \notin {"pending", "rejected"}
             /\ s.state # "errored" /\ s.readRequests = <<>> /\ t.readRequests = <<>>
          \/ /\ answer = "rejected" /\ s.state = "errored" /\ t.state = s.state
             /\ t.readRequests = s.readRequests
          BY <2>3
    <3>4. s.readInSize => t.readInSize
          BY <2>1
    <3>5. t.keysMatch = s.keysMatch /\ t.answers = [s.answers EXCEPT ![i] = answer]
          BY <2>2
    <3> QED BY ONLY <3>1, <3>2, <3>3, <3>4, <3>5, MadeInTurn
  <2>5. Onward(s, t)
        BY <1>6, <1>8, <2>2, <2>3
  <2> QED BY <1>3, <1>4, <2>4, <2>5 DEF ReadableInvariant, Becomes
<1>9. CASE s.state = "readable" /\ s.queue # <<>>
      BY <1>1, <1>3, <1>4, <1>9, TakenInTurn DEF ReadableInvariant, Becomes
<1> QED BY <1>7, <1>8, <1>9

\* A read outside size(), of a stream whose reads all were: it is answered alone.
LEMMA ReadKeeps ==
    ASSUME NEW s, ReadableInvariant(s), s.sizing = None, ~s.readInSize, CanRead(s)
    PROVE  /\ ReadableInvariant(Read(s)) /\ Onward(s, Read(s))
           /\ Read(s).reader = s.reader /\ Read(s).sizing = None /\ ~Read(s).readInSize
           /\ NextRead(s) \in Reads /\ Read(s).answers[NextRead(s)] # "none"
           /\ \A i \in Reads \ {NextRead(s)} : Read(s).answers[i] = s.answers[i]
           /\ s.state = "errored" => Read(s).answers[NextRead(s)] = "rejected"
<1> DEFINE i == NextRead(s)
           t == Read(s)
<1>1. ChannelInvariant(s) /\ s \in Slots /\ s.answers \in [Reads -> AnswerSet] /\ i \in Reads
      /\ s.queue \in Seq([value : Chunks, size : Nat]) /\ "none" \notin Chunks
      BY NextReadIsNext, InvariantFacts DEF ReadableInvariant
<1>2. \E answer : /\ Answers(s, t, i, answer) /\ answer # "none"
                  /\ s.state = "errored" => answer = "rejected"
                  /\ ~t.readInSize
  <2>1. CASE s.state # "readable"
        BY <1>1, <2>1, ReadEndedEffect
  <2>2. CASE s.state = "readable" /\ s.queue = <<>>
        BY <1>1, <2>2, ReadWaitsEffect
  <2>3. CASE s.state = "readable" /\ s.queue # <<>>
    <3>1. s.readRequests = <<>>
          BY <1>1, <2>3 DEF ChannelInvariant
    <3>2. Head(s.queue) \in [value : Chunks, size : Nat]
          BY <1>1, <2>3, HeadAndTail
    <3>3. Head(s.queue).value # "none"
          BY <1>1, <3>2
    <3> QED BY <1>1, <2>3, <3>1, <3>3, ReadTakesEffect
  <2> QED BY <2>1, <2>2, <2>3
<1>3. ReadableInvariant(t) /\ Onward(s, t) /\ t.reader = s.reader
      BY ReadInTurn
<1> HIDE DEF i, t
<1>4. PICK answer : /\ Answers(s, t, i, answer) /\ answer # "none"
                    /\ s.state = "errored" => answer = "rejected"
                    /\ ~t.readInSize
      BY <1>2
<1>5. t.sizing = None /\ t.answers = [s.answers EXCEPT ![i] = answer]
      BY <1>4 DEF Answers
<1>6. \A j \in Reads : t.answers[j] = IF j = i THEN answer ELSE s.answers[j]
      BY <1>1, <1>5
<1> QED BY <1>1, <1>3, <1>4, <1>5, <1>6 DEF i, t

LEMMA ReadableStart ==
    ASSUME Init
    PROVE  ReadableInvariant(stream)
<1>1. PICK keysMatch \in BOOLEAN : stream = NewStream(keysMatch)
      BY ReadableStreamAssumption DEF Init
<1>2. ChannelInvariant(stream) /\ Sound(stream)
      BY <1>1, ChannelStart, NewStreamSound
<1>3. InTurn(stream)
  <2>1. /\ stream.state = "readable" /\ DOMAIN stream.readRequests = {}
        /\ \A i \in Reads : stream.answers[i] = "none"
        BY <1>1 DEF NewStream
  <2>2. ~Served("none")
        BY ReadableStreamAssumption DEF Served
  <2> QED BY <2>1, <2>2 DEF InTurn
<1> QED BY <1>2, <1>3 DEF ReadableInvariant

\* What the order depends on is the same.
SameReads(s, t) ==
    /\ t.keysMatch = s.keysMatch /\ t.state = s.state
    /\ t.readRequests = s.readRequests /\ t.answers = s.answers
    /\ t.readInSize = s.readInSize

\* The effects of the operations other than a read.
LEMMA EffectKeeps ==
    ASSUME NEW s, NEW t, ChannelInvariant(s), InTurn(s),
           \/ SameReads(s, t)
           \/ s.state = "readable" /\ (Closed(s, t) \/ Cancelled(s, t) \/ Failed(s, t))
    PROVE  InTurn(t) /\ Onward(s, t) /\ t.readInSize = s.readInSize
<1>1. CASE SameReads(s, t)
      BY <1>1, SameInTurn DEF SameReads, Onward
<1>2. ASSUME s.state = "readable", t.keysMatch = s.keysMatch, NEW answer \in {"done", "rejected"},
             t.answers = WaitingAnswered(s, answer)
      PROVE  Onward(s, t)
      BY <1>2, AnsweredInvariant DEF Onward
<1>3. CASE s.state = "readable" /\ (Closed(s, t) \/ Cancelled(s, t))
  <2>1. /\ t.keysMatch = s.keysMatch /\ t.state = "closed" /\ t.readRequests = <<>>
        /\ t.answers = WaitingAnswered(s, "done") /\ t.readInSize = s.readInSize
        BY <1>3 DEF Closed, Cancelled
  <2> QED BY <1>2, <1>3, <2>1, EndsInTurn
<1>4. CASE s.state = "readable" /\ Failed(s, t)
  <2>1. t.keysMatch = s.keysMatch /\ t.state = "errored" /\ t.readInSize = s.readInSize
        BY <1>4 DEF Failed
  <2>2. CASE t.readRequests = <<>> /\ t.answers = WaitingAnswered(s, "rejected")
        BY <1>2, <1>4, <2>1, <2>2, EndsInTurn
  <2>3. CASE ~s.keysMatch /\ t.answers = s.answers
        BY <1>4, <2>1, <2>3 DEF InTurn, Onward
  <2> QED BY <1>4, <2>2, <2>3 DEF Failed
<1> QED BY <1>1, <1>3, <1>4

\* A step that the channel does not see, or sees only in the queue.
LEMMA SameChannelReads ==
    ASSUME NEW s, NEW t, SameChannel(s, t)
    PROVE  SameReads(s, t)
BY DEF SameChannel, SameReads

\* The controller errors the stream, after a slot that the order does not depend on
\* has been changed.
LEMMA ErrorKeeps ==
    ASSUME NEW s, ChannelInvariant(s), InTurn(s), NEW a \in Slots, SameReads(s, a),
           a.cancelled = s.cancelled, a.queue = s.queue, a.offered = s.offered,
           a.sizing \in {None, s.sizing}
    PROVE  /\ InTurn(ControllerError(a)) /\ Onward(s, ControllerError(a))
           /\ ControllerError(a).readInSize = s.readInSize
<1> DEFINE t == ControllerError(a)
<1>1. CASE s.state = "readable"
  <2>1. Failed(a, t)
        BY <1>1, ControllerErrorEffect DEF SameReads
  <2>2. WaitingAnswered(a, "rejected") = WaitingAnswered(s, "rejected")
        BY DEF WaitingAnswered, SameReads
  <2> HIDE DEF t
  <2>3. Failed(s, t)
        BY <2>1, <2>2 DEF Failed, SameReads
  <2> HIDE DEF Failed
  <2>4. InTurn(t) /\ Onward(s, t) /\ t.readInSize = s.readInSize
        BY <1>1, <2>3, EffectKeeps
  <2> QED BY <2>4 DEF t
<1>2. CASE s.state # "readable"
  <2>1. t = a
        BY <1>2, ControllerErrorEffect DEF SameReads
  <2> QED BY <2>1, EffectKeeps
<1> QED BY <1>1, <1>2

\* A step other than a read.
LEMMA OtherStep ==
    ASSUME ReadableInvariant(stream),
           \/ GetReader \/ ReleaseLock \/ StreamCancel
           \/ SourceCallsController \/ SourceSettles
           \/ UNCHANGED stream
    PROVE  /\ InTurn(stream') /\ Onward(stream, stream')
           /\ stream'.readInSize = stream.readInSize
<1>0. /\ ChannelInvariant(stream) /\ InTurn(stream) /\ stream \in Slots
      /\ stream.sizing \in Chunks \cup {None} /\ stream.offered \in SUBSET Chunks
      BY InvariantFacts DEF ReadableInvariant
<1>1. ASSUME SameReads(stream, stream')
      PROVE  /\ InTurn(stream') /\ Onward(stream, stream')
             /\ stream'.readInSize = stream.readInSize
      BY <1>0, <1>1, EffectKeeps
<1>2. CASE GetReader
      BY <1>0, <1>1, <1>2, AcquireKeeps, SameChannelReads DEF GetReader
<1>3. CASE ReleaseLock
      BY <1>0, <1>1, <1>3, ReleaseKeeps, SameChannelReads DEF ReleaseLock
<1>4. CASE StreamCancel
  <2>1. stream.state = "readable" /\ Cancelled(stream, stream')
        BY <1>0, <1>4, CancelEffect DEF StreamCancel
  <2> QED BY <1>0, <2>1, EffectKeeps
<1>5. CASE SourceCloses
  <2>1. stream.state = "readable" /\ stream' = ControllerClose(stream)
        BY <1>5 DEF SourceCloses, CanCloseOrEnqueue
  <2>2. CASE stream.queue = <<>>
    <3>1. Closed(stream, stream')
          BY <1>0, <2>1, <2>2, ControllerCloseEffect
    <3> QED BY <1>0, <2>1, <3>1, EffectKeeps
  <2>3. CASE stream.queue # <<>>
        BY <1>0, <1>1, <2>1, <2>3, ControllerCloseEffect, SameChannelReads
  <2> QED BY <2>2, <2>3
<1>6. CASE SourceErrors
  <2>1. stream.state = "readable" /\ Failed(stream, stream')
        BY <1>0, <1>6, ControllerErrorEffect DEF SourceErrors
  <2> QED BY <1>0, <2>1, EffectKeeps
<1>7. CASE SourceEnqueues
  <2> DEFINE chunk == CHOOSE c \in Chunks : c \notin stream.offered
             offered == [stream EXCEPT !.offered = @ \cup {chunk}]
             sized == [offered EXCEPT !.sizing = chunk]
  <2>1. stream.state = "readable" /\ stream.offered # Chunks
        BY <1>7 DEF SourceEnqueues, CanCloseOrEnqueue
  <2>2. chunk \in Chunks
    <3>1. \E c \in Chunks : c \notin stream.offered
          BY <1>0, <2>1
    <3> QED BY <3>1
  <2>3. \/ stream.readRequests # <<>> /\ stream' = EnqueueToRequest(offered, chunk)
        \/ stream' = sized
        BY <1>7 DEF SourceEnqueues
  <2> HIDE DEF chunk
  <2>4. /\ SameReads(stream, offered) /\ offered.queue = stream.queue
        /\ SameReads(offered, sized)
        BY <1>0 DEF SameReads, Slots
  <2>5. offered \in Slots
    <3>1. stream.offered \cup {chunk} \in SUBSET Chunks
          BY <1>0, <2>2
    <3> QED BY <1>0, <3>1, SeenFields
  <2> HIDE DEF offered
  <2>6. CASE stream.readRequests # <<>> /\ stream' = EnqueueToRequest(offered, chunk)
    <3>1. offered.readRequests # <<>>
          BY <2>4, <2>6 DEF SameReads
    <3>2. Fulfilled(offered, stream', chunk)
          BY <2>2, <2>5, <2>6, <3>1, EnqueueToRequestEffect
    <3>3. /\ stream'.keysMatch = stream.keysMatch /\ stream'.state = stream.state
          /\ stream'.readInSize = stream.readInSize
          /\ stream'.readRequests = Tail(stream.readRequests)
          /\ stream'.answers =
                IF stream.keysMatch THEN [stream.answers EXCEPT ![Head(stream.readRequests)] = chunk]
                ELSE stream.answers
          BY <2>4, <3>2 DEF Fulfilled, SameReads
    <3>4. InTurn(stream')
          BY <1>0, <2>1, <2>2, <2>6, <3>3, ServedInTurn
    <3>5. Head(stream.readRequests) \in Reads /\ stream.answers \in [Reads -> AnswerSet]
          /\ "none" \notin Chunks
          BY <1>0, <2>6, InvariantFacts
    <3>6. \A i \in Reads : stream.answers[i] # "none" => stream'.answers[i] # "none"
          BY <2>2, <3>3, <3>5
    <3> QED BY <2>1, <3>3, <3>4, <3>6 DEF Onward
  <2>7. CASE stream' = sized
    <3> HIDE DEF sized
    <3>1. SameReads(stream, stream')
          BY <2>4, <2>7 DEF SameReads
    <3> QED BY <1>1, <3>1
  <2> QED BY <2>3, <2>6, <2>7
<1>8. CASE SizeReturns
  <2> DEFINE returned == [stream EXCEPT !.sizing = None]
  <2>1. stream.sizing # None
        /\ \/ \E size \in Sizes : stream' = EnqueueSized(returned, stream.sizing, size)
           \/ stream' = ControllerError(returned)
        BY <1>8 DEF SizeReturns
  <2>2. stream.sizing \in Chunks
        BY <1>0, <2>1
  <2>3. /\ SameReads(stream, returned) /\ returned.queue = stream.queue
        /\ returned.cancelled = stream.cancelled /\ returned.offered = stream.offered
        /\ returned.sizing = None
        BY <1>0 DEF SameReads, Slots
  <2>4. returned \in Slots
        BY <1>0, SeenFields
  <2> HIDE DEF returned
  <2>5. ASSUME NEW size \in Sizes, stream' = EnqueueSized(returned, stream.sizing, size)
        PROVE  SameReads(stream, stream')
    <3>1. size \in Nat
          BY ReadableStreamAssumption
    <3>2. Queued(returned, stream', stream.sizing)
          BY <2>2, <2>4, <2>5, <3>1, EnqueueSizedEffect
    <3> QED BY <2>3, <3>2 DEF Queued, SameReads
  <2> QED BY <1>0, <1>1, <2>1, <2>3, <2>4, <2>5, ErrorKeeps
<1>9. ASSUME NEW call, stream' = ControllerError(Settled(stream, call))
      PROVE  /\ InTurn(stream') /\ Onward(stream, stream')
             /\ stream'.readInSize = stream.readInSize
  <2>1. /\ Settled(stream, call) \in Slots
        /\ SameChannel(stream, Settled(stream, call))
        BY <1>0, SettledKeeps
  <2> QED BY <1>0, <1>9, <2>1, ErrorKeeps DEF SameReads, SameChannel
<1>10. CASE StartSettles
      BY <1>0, <1>1, <1>9, <1>10, FinishStartKeeps, SameChannelReads DEF StartSettles, FailStart
<1>11. CASE PullSettles
      BY <1>0, <1>1, <1>9, <1>11, FinishPullKeeps, SameChannelReads DEF PullSettles, FailPull
<1>12. CASE UNCHANGED stream
  <2>1. SameReads(stream, stream')
        BY <1>12 DEF SameReads
  <2> QED BY <1>1, <2>1
<1> QED BY <1>2, <1>3, <1>4, <1>5, <1>6, <1>7, <1>8, <1>10, <1>11, <1>12
        DEF SourceCallsController, SourceSettles

\* Every step, the ones of the source in particular.
LEMMA ReadableStep ==
    ASSUME ReadableInvariant(stream), [Next]_stream
    PROVE  /\ ReadableInvariant(stream') /\ Onward(stream, stream')
           /\ SourceCallsController \/ SourceSettles =>
                  stream'.reader = stream.reader /\ stream'.readInSize = stream.readInSize
<1>1. ChannelInvariant(stream') /\ Sound(stream')
      BY ChannelStep, SoundStep DEF ReadableInvariant
<1>2. InTurn(stream') /\ Onward(stream, stream')
  <2>1. CASE ReaderRead
        BY <2>1, ReadInTurn DEF ReaderRead, ReadableInvariant
  <2>2. CASE \/ GetReader \/ ReleaseLock \/ StreamCancel
             \/ SourceCallsController \/ SourceSettles
             \/ UNCHANGED stream
        BY <2>2, OtherStep
  <2> QED BY <2>1, <2>2 DEF Next, ReaderCalls
<1>3. SourceCallsController \/ SourceSettles =>
          stream'.reader = stream.reader /\ stream'.readInSize = stream.readInSize
      BY SourceSound, OtherStep DEF ReadableInvariant, Becomes
<1> QED BY <1>1, <1>2, <1>3 DEF ReadableInvariant

\* Whatever the source, the reader and size() do, no assertion of the stream fails, and
\* where the keys agree its reads wait in the order they were made; they are served in
\* that order too, as long as none has begun to wait in size().
THEOREM ReadableInvariantHolds == SafeSpec => []ReadableInvariant(stream)
<1>1. Init => ReadableInvariant(stream)
      BY ReadableStart
<1>2. ReadableInvariant(stream) /\ [Next]_stream => ReadableInvariant(stream)'
      BY ReadableStep
<1> QED BY <1>1, <1>2, PTL DEF SafeSpec

-----------------------------------------------------------------------------
(* Where the channel is not looked at.                                        *)

\* The next read, whatever the reads that were made.
LEMMA NextReadMade ==
    ASSUME NEW s, CanRead(s)
    PROVE  NextRead(s) \in Reads /\ s.answers[NextRead(s)] = "none"
<1> DEFINE T == {i \in Reads : s.answers[i] = "none"}
           R == {p \in Nat \X Nat : p[1] < p[2]}
<1>1. T \subseteq Nat /\ T # {}
      BY DEF CanRead, Reads
<1>2. IsWellFoundedOn(R, Nat)
      BY NatLessThanWellFounded, Zenon DEF OpToRel
<1>3. PICK i \in T : \A j \in T : ~(<<j, i>> \in R)
  <2> HIDE DEF T, R
  <2> QED BY <1>1, <1>2, WFMin
<1>4. \A j \in T : ~(j < i)
      BY <1>1, <1>3
<1>5. \A j \in 1..(i - 1) : s.answers[j] # "none"
      BY <1>4, ReadableStreamAssumption DEF Reads
<1> QED BY <1>3, <1>5 DEF NextRead

LEMMA ReadType ==
    ASSUME NEW s \in Slots, NextRead(s) \in Reads
    PROVE  Read(s) \in Slots
<1> DEFINE i == NextRead(s)
<1>1. /\ s.queue \in Seq([value : Chunks, size : Nat])
      /\ s.answers \in [Reads -> AnswerSet] /\ s.readRequests \in Seq(Reads)
      BY SlotsFacts
<1>2. CASE s.state # "readable"
      BY <1>2, ReadEndedEffect
<1>3. CASE s.state = "readable" /\ s.queue = <<>>
      BY <1>3, ReadWaitsEffect
<1>4. CASE s.state = "readable" /\ s.queue # <<>>
  <2> DEFINE q == Tail(s.queue)
             n == [s.answers EXCEPT ![i] = Head(s.queue).value]
             a == [s EXCEPT !.queue = q]
             t == [a EXCEPT !.answers = n]
  <2>1. Read(s) = PullSteps(s, i)
        BY <1>4 DEF Read
  <2>2. PullSteps(s, i) = IF s.closeRequested /\ t.queue = <<>> THEN CloseStream(t)
                          ELSE CallPullIfNeeded(t)
    <3> HIDE DEF i
    <3> QED BY <1>1, <1>4 DEF PullSteps, Slots
  <2>3. q \in Seq([value : Chunks, size : Nat]) /\ Head(s.queue) \in [value : Chunks, size : Nat]
        BY <1>1, <1>4, HeadAndTail
  <2>4. Head(s.queue).value \in AnswerSet
        BY <2>3 DEF AnswerSet
  <2>5. n \in [Reads -> AnswerSet]
        BY <1>1, <2>4
  <2> HIDE DEF q, n
  <2>6. a \in Slots
        BY <2>3, SeenFields
  <2>7. t \in Slots
    <3> HIDE DEF a
    <3> QED BY <2>5, <2>6, SeenFields
  <2>8. t.state = "readable"
        BY <1>4 DEF Slots
  <2> HIDE DEF t
  <2>9. CloseStream(t) \in Slots /\ CallPullIfNeeded(t) \in Slots
        BY <2>7, <2>8, CloseStreamEffect, CallPullKeeps DEF Closed
  <2> QED BY <2>1, <2>2, <2>9
<1> QED BY <1>2, <1>3, <1>4

\* The operations keep the type, assertions that fail or not.
LEMMA OperationTypes ==
    ASSUME NEW s \in Slots
    PROVE  /\ AcquireReader(s) \in Slots /\ Cancel(s) \in Slots
           /\ ControllerError(s) \in Slots
           /\ s.state = "readable" => ControllerClose(s) \in Slots
           /\ \A chunk \in Chunks, size \in Nat : Enqueue(s, chunk, size) \in Slots
           /\ NextRead(s) \in Reads => Read(s) \in Slots
           /\ FinishStart(s) \in Slots /\ FinishPull(s) \in Slots
           /\ FailPull(s) \in Slots /\ Settled(s, "pull") \in Slots
<1>1. \A t \in Slots : ControllerError(t) \in Slots
      BY ControllerErrorEffect DEF Failed
<1>2. Cancel(s) \in Slots
  <2>1. CASE s.state = "readable"
        BY <2>1, CancelEffect DEF Cancelled
  <2>2. CASE s.state # "readable"
        BY <2>2 DEF Cancel
  <2> QED BY <2>1, <2>2
<1>3. s.state = "readable" => ControllerClose(s) \in Slots
      BY ControllerCloseEffect DEF Closed
<1>4. ASSUME NEW chunk \in Chunks, NEW size \in Nat
      PROVE  Enqueue(s, chunk, size) \in Slots
      BY EnqueueToRequestEffect, EnqueueSizedEffect DEF Enqueue, Fulfilled, Queued
<1>5. Settled(s, "pull") \in Slots /\ FailPull(s) \in Slots
      BY <1>1, SettledKeeps DEF FailPull
<1>6. AcquireReader(s) \in Slots /\ FinishStart(s) \in Slots /\ FinishPull(s) \in Slots
      BY AcquireKeeps, FinishStartKeeps, FinishPullKeeps
<1> QED BY <1>1, <1>2, <1>3, <1>4, <1>5, <1>6, ReadType
-----------------------------------------------------------------------------
(* The total size of the queue.  FoldLeft is defined by recursion; what is    *)
(* true of it is proved by looking at the least number for which it is not.   *)

\* A set of natural numbers that is not empty has a least element.
LEMMA LeastNumber ==
    ASSUME NEW T, T \subseteq Nat, T # {}
    PROVE  \E x \in T : \A y \in T : x <= y
<1> DEFINE R == {p \in Nat \X Nat : p[1] < p[2]}
<1>1. IsWellFoundedOn(R, Nat)
      BY NatLessThanWellFounded, Zenon DEF OpToRel
<1>2. PICK x \in T : \A y \in T : <<y, x>> \notin R
  <2> HIDE DEF R
  <2> QED BY <1>1, WFMin
<1>3. ASSUME NEW y \in T
      PROVE  x <= y
  <2>1. ~(y < x)
        BY <1>2
  <2> QED BY <2>1
<1> QED BY <1>3

\* The parts of a sequence.
LEMMA SequenceParts ==
    ASSUME NEW S, NEW x \in Seq(S)
    PROVE  /\ Len(x) \in Nat /\ DOMAIN x = 1..Len(x)
           /\ \A k \in 1..Len(x) : x[k] \in S
           /\ x # <<>> => /\ Len(x) > 0 /\ Head(x) = x[1] /\ Head(x) \in S
                          /\ Tail(x) \in Seq(S) /\ Len(Tail(x)) = Len(x) - 1
                          /\ \A k \in 1..(Len(x) - 1) : Tail(x)[k] = x[k + 1]
OBVIOUS

\* What FoldLeft computes with: the sizes of a queue added up, set by set.
Adds(queue, n, g) ==
    g = [S \in SUBSET (1..n) |->
            IF S = {} THEN 0 ELSE g[S \ {Max(S)}] + queue[Max(S)].size]

LEMMA LastOfRange ==
    ASSUME NEW n \in Nat, NEW S \in SUBSET (1..n), S # {}
    PROVE  /\ Max(S) \in S /\ \A y \in S : y <= Max(S)
<1> DEFINE T == {x \in 0..n : \A y \in S : y <= x}
<1>1. n \in T
      OBVIOUS
<1>2. PICK x \in T : \A y \in T : x <= y
  <2>1. T \subseteq Nat /\ T # {}
        BY <1>1
  <2> HIDE DEF T
  <2> QED BY <2>1, LeastNumber
<1>3. x \in S
  <2>1. SUFFICES ASSUME x \notin S
                 PROVE  FALSE
        OBVIOUS
  <2>2. x - 1 \in T
    <3>1. \A y \in S : y <= x /\ y # x /\ y \in 1..n
          BY <2>1
    <3>2. PICK y \in S : TRUE
          OBVIOUS
    <3> QED BY <3>1, <3>2
  <2> QED BY <2>2, <1>2
<1> QED BY <1>2, <1>3 DEF Max

LEMMA AddsExists ==
    ASSUME NEW queue, NEW n \in Nat
    PROVE  \E g : Adds(queue, n, g)
<1> DEFINE T == {k \in Nat : ~\E g : Adds(queue, k, g)}
<1>1. SUFFICES ASSUME T # {}
               PROVE  FALSE
      OBVIOUS
<1>2. PICK k \in T : \A y \in T : k <= y
  <2>1. T \subseteq Nat
        OBVIOUS
  <2> HIDE DEF T
  <2> QED BY <1>1, <2>1, LeastNumber
<1>3. k # 0
  <2> DEFINE g == [S \in SUBSET (1..0) |-> 0]
  <2>1. Adds(queue, 0, g)
    <3>1. 1..0 = {}
          OBVIOUS
    <3>2. \A S \in SUBSET (1..0) : S = {}
          BY <3>1
    <3> QED BY <3>2 DEF Adds
  <2> HIDE DEF g
  <2> QED BY <2>1
<1>4. PICK h : Adds(queue, k - 1, h)
  <2>1. k - 1 \in Nat /\ k - 1 \notin T
        BY <1>2, <1>3
  <2> QED BY <2>1
<1> DEFINE g == [S \in SUBSET (1..k) |->
                     IF k \in S THEN h[S \ {k}] + queue[k].size ELSE h[S]]
<1>5. Adds(queue, k, g)
  <2>1. ASSUME NEW S \in SUBSET (1..k)
        PROVE  g[S] = IF S = {} THEN 0 ELSE g[S \ {Max(S)}] + queue[Max(S)].size
    <3>1. CASE S = {}
      <4>1. g[S] = h[S] /\ S \in SUBSET (1..(k - 1))
            BY <3>1
      <4> HIDE DEF g
      <4> QED BY <1>4, <3>1, <4>1 DEF Adds
    <3>2. CASE k \in S
      <4>1. Max(S) = k
        <5>1. k \in Nat
              OBVIOUS
        <5>2. Max(S) \in S /\ \A y \in S : y <= Max(S)
              BY <5>1, <3>2, LastOfRange
        <5>3. Max(S) \in 1..k /\ k <= Max(S)
              BY <5>2, <3>2
        <5> QED BY <5>1, <5>3
      <4>2. S \ {k} \in SUBSET (1..k) /\ k \notin S \ {k}
            OBVIOUS
      <4>3. g[S \ {k}] = h[S \ {k}]
            BY <4>2
      <4> QED BY <3>2, <4>1, <4>3
    <3>3. CASE S # {} /\ k \notin S
      <4>1. S \in SUBSET (1..(k - 1)) /\ k - 1 \in Nat
            BY <1>2, <1>3, <3>3
      <4>2. Max(S) \in S
            BY <3>3, <4>1, LastOfRange
      <4>3. S \ {Max(S)} \in SUBSET (1..k) /\ k \notin S \ {Max(S)}
            BY <3>3
      <4>4. g[S] = h[S] /\ g[S \ {Max(S)}] = h[S \ {Max(S)}]
            BY <3>3, <4>3
      <4> HIDE DEF g
      <4>5. h[S] = h[S \ {Max(S)}] + queue[Max(S)].size
            BY <1>4, <3>3, <4>1 DEF Adds
      <4> QED BY <3>3, <4>4, <4>5
    <3> QED BY <3>1, <3>2, <3>3
  <2>2. g = [S \in SUBSET (1..k) |-> g[S]]
        OBVIOUS
  <2> HIDE DEF g
  <2>3. g = [S \in SUBSET (1..k) |->
                IF S = {} THEN 0 ELSE g[S \ {Max(S)}] + queue[Max(S)].size]
        BY <2>1, <2>2, Zenon
  <2> QED BY <2>3 DEF Adds
<1> HIDE DEF g
<1> QED BY <1>5, <1>2

\* The total as the last of the sums of the first sizes.
Sums(queue, p) ==
    /\ p \in [0..Len(queue) -> Nat]
    /\ p[0] = 0
    /\ \A k \in 1..Len(queue) : p[k] = p[k - 1] + queue[k].size

LEMMA TotalUnfolded ==
    ASSUME NEW s, DOMAIN s.queue = 1..Len(s.queue), Len(s.queue) \in Nat
    PROVE  \E g : Adds(s.queue, Len(s.queue), g) /\ QueueTotalSize(s) = g[1..Len(s.queue)]
<1> DEFINE n == Len(s.queue)
<1>1. QueueTotalSize(s) = (CHOOSE g : Adds(s.queue, n, g))[1..n]
      BY Zenon DEF QueueTotalSize, FoldLeft, MapThenFoldSet, Adds
<1>2. \E g : Adds(s.queue, n, g)
      BY AddsExists
<1>3. Adds(s.queue, n, CHOOSE g : Adds(s.queue, n, g))
      BY <1>2
<1> QED BY <1>1, <1>3

LEMMA TotalIsSum ==
    ASSUME NEW s, s.queue \in Seq([value : Chunks, size : Nat])
    PROVE  \E p : Sums(s.queue, p) /\ QueueTotalSize(s) = p[Len(s.queue)]
<1> DEFINE n == Len(s.queue)
<1>1. /\ n \in Nat /\ DOMAIN s.queue = 1..n
      /\ \A k \in 1..n : s.queue[k].size \in Nat
  <2>1. n \in Nat /\ DOMAIN s.queue = 1..n /\ \A k \in 1..n : s.queue[k] \in [value : Chunks, size : Nat]
        BY SequenceParts
  <2> QED BY <2>1
<1>2. PICK g : Adds(s.queue, n, g) /\ QueueTotalSize(s) = g[1..n]
      BY <1>1, TotalUnfolded
<1> DEFINE p == [k \in 0..n |-> g[1..k]]
<1>3. p[0] = 0
  <2>1. 1..0 = {} /\ {} \in SUBSET (1..n) /\ 0 \in 0..n
        BY <1>1
  <2>2. g[{}] = 0
        BY <1>2, <2>1 DEF Adds
  <2> QED BY <2>1, <2>2
<1>4. ASSUME NEW k \in 1..n
      PROVE  p[k] = p[k - 1] + s.queue[k].size
  <2>1. k \in Nat /\ 1..k \in SUBSET (1..k) /\ 1..k # {}
        BY <1>1
  <2>2. Max(1..k) \in 1..k /\ \A y \in 1..k : y <= Max(1..k)
        BY <2>1, LastOfRange
  <2>3. Max(1..k) = k
        BY <2>1, <2>2
  <2>4. (1..k) \ {k} = 1..(k - 1)
        BY <1>1
  <2>5. 1..k \in SUBSET (1..n)
        BY <1>1
  <2>6. g[1..k] = g[1..(k - 1)] + s.queue[k].size
        BY <1>2, <2>1, <2>3, <2>4, <2>5 DEF Adds
  <2>7. k \in 0..n /\ k - 1 \in 0..n
        BY <1>1
  <2> QED BY <2>6, <2>7
<1>5. ASSUME NEW k \in 0..n
      PROVE  p[k] \in Nat
  <2> DEFINE T == {j \in 0..n : p[j] \notin Nat}
  <2>1. SUFFICES ASSUME T # {}
                 PROVE  FALSE
        OBVIOUS
  <2>2. PICK j \in T : \A y \in T : j <= y
    <3>1. T \subseteq Nat
          BY <1>1
    <3> HIDE DEF T
    <3> QED BY <2>1, <3>1, LeastNumber
  <2> HIDE DEF p
  <2>3. j \in 1..n
        BY <2>2, <1>1, <1>3
  <2>4. p[j - 1] \in Nat
    <3>1. j - 1 \in 0..n /\ j - 1 \notin T
          BY <2>2, <2>3, <1>1
    <3> QED BY <3>1
  <2>5. p[j] = p[j - 1] + s.queue[j].size /\ s.queue[j].size \in Nat
        BY <1>1, <1>4, <2>3
  <2>6. p[j] \in Nat
        BY <2>4, <2>5
  <2> QED BY <2>2, <2>6
<1>6. p \in [0..n -> Nat]
      BY <1>5
<1>7. n \in 0..n
      BY <1>1
<1>8. p[n] = g[1..n]
      BY <1>7
<1> HIDE DEF p
<1>9. Sums(s.queue, p)
      BY <1>3, <1>4, <1>6 DEF Sums
<1> QED BY <1>2, <1>8, <1>9

\* Taking the first of what is held makes the total no greater.
LEMMA TotalOfTail ==
    ASSUME NEW s, NEW t, s.queue \in Seq([value : Chunks, size : Nat]), s.queue # <<>>,
           t.queue = Tail(s.queue)
    PROVE  QueueTotalSize(t) \in Nat /\ QueueTotalSize(s) \in Nat
           /\ QueueTotalSize(t) <= QueueTotalSize(s)
<1> DEFINE n == Len(s.queue)
<1>1. /\ n \in Nat /\ n > 0 /\ t.queue \in Seq([value : Chunks, size : Nat])
      /\ Len(t.queue) = n - 1
      /\ \A k \in 1..n : s.queue[k].size \in Nat
      /\ \A k \in 1..(n - 1) : t.queue[k] = s.queue[k + 1]
  <2> DEFINE pairs == [value : Chunks, size : Nat]
             queue == s.queue
  <2>1. \A pair \in pairs : pair.size \in Nat
        OBVIOUS
  <2>2. queue \in Seq(pairs) /\ queue # <<>>
        OBVIOUS
  <2> HIDE DEF pairs, queue
  <2>3. /\ Len(queue) \in Nat /\ Len(queue) > 0 /\ Tail(queue) \in Seq(pairs)
        /\ Len(Tail(queue)) = Len(queue) - 1
        /\ \A k \in 1..Len(queue) : queue[k] \in pairs
        /\ \A k \in 1..(Len(queue) - 1) : Tail(queue)[k] = queue[k + 1]
        BY <2>2, SequenceParts
  <2> QED BY <2>1, <2>3 DEF pairs, queue
<1>2. PICK p : Sums(s.queue, p) /\ QueueTotalSize(s) = p[n]
      BY TotalIsSum
<1>3. PICK r : Sums(t.queue, r) /\ QueueTotalSize(t) = r[n - 1]
      BY <1>1, TotalIsSum
<1> DEFINE T == {k \in 0..(n - 1) : ~(r[k] <= p[k + 1])}
<1>4. T = {}
  <2>1. SUFFICES ASSUME T # {}
                 PROVE  FALSE
        OBVIOUS
  <2>2. PICK j \in T : \A y \in T : j <= y
    <3>1. T \subseteq Nat
          BY <1>1
    <3> HIDE DEF T
    <3> QED BY <2>1, <3>1, LeastNumber
  <2>3. \A k \in 0..n : p[k] \in Nat
        BY <1>2 DEF Sums
  <2>4. \A k \in 0..(n - 1) : r[k] \in Nat
        BY <1>1, <1>3 DEF Sums
  <2>5. CASE j = 0
    <3>1. r[0] = 0 /\ p[1] \in Nat
          BY <1>1, <1>3, <2>3 DEF Sums
    <3> QED BY <2>2, <2>5, <3>1
  <2>6. CASE j # 0
    <3>1. j - 1 \in 0..(n - 1) /\ j \in 1..(n - 1) /\ j + 1 \in 1..n
          BY <1>1, <2>2, <2>6
    <3>2. r[j - 1] <= p[j]
      <4>1. j - 1 \notin T /\ (j - 1) + 1 = j
            BY <2>2, <3>1
      <4> QED BY <3>1, <4>1
    <3>3. r[j] = r[j - 1] + t.queue[j].size /\ p[j + 1] = p[j] + s.queue[j + 1].size
      <4>1. (j + 1) - 1 = j
            BY <3>1
      <4> QED BY <1>1, <1>2, <1>3, <3>1, <4>1 DEF Sums
    <3>4. t.queue[j] = s.queue[j + 1] /\ s.queue[j + 1].size \in Nat
          BY <1>1, <3>1
    <3>5. r[j - 1] \in Nat /\ p[j] \in Nat
          BY <2>3, <2>4, <3>1
    <3>6. r[j] <= p[j + 1]
      <4> DEFINE size == s.queue[j + 1].size
      <4>1. r[j] = r[j - 1] + size /\ p[j + 1] = p[j] + size /\ size \in Nat
            BY <3>3, <3>4
      <4> HIDE DEF size
      <4> QED BY <3>2, <3>5, <4>1
    <3> QED BY <2>2, <3>6
  <2> QED BY <2>5, <2>6
<1>5. r[n - 1] <= p[n]
  <2>1. n - 1 \in 0..(n - 1) /\ (n - 1) + 1 = n
        BY <1>1
  <2> QED BY <1>4, <2>1
<1>6. r[n - 1] \in Nat /\ p[n] \in Nat
  <2>1. n \in 0..n /\ n - 1 \in 0..(n - 1)
        BY <1>1
  <2> QED BY <1>1, <1>2, <1>3, <2>1 DEF Sums
<1> QED BY <1>1, <1>2, <1>3, <1>5, <1>6

-----------------------------------------------------------------------------
(* When pull() is called.                                                     *)

\* t is s after an operation that ended by asking for what is needed: pull() has been
\* called where it was needed and did not run, and will be again where it runs.
Asks(s, t) ==
    /\ t.sourceCalls = IF t.pulling /\ ~s.pulling THEN s.sourceCalls \cup {"pull"}
                       ELSE s.sourceCalls
    /\ s.pulling => t.pulling
    /\ t.pulling /\ ~s.pulling => ShouldCallPull(t)
    /\ ShouldCallPull(t) => t.pulling /\ (s.pulling => t.pullAgain)

\* Reads wait only while there is nothing to be read.
Waits(s) == s.readRequests # <<>> => s.queue = <<>>

\* What is needed depends on these.
LEMMA SameNeed ==
    ASSUME NEW s, NEW t, t.state = s.state, t.closeRequested = s.closeRequested,
           t.started = s.started, t.readRequests = s.readRequests, t.queue = s.queue
    PROVE  ShouldCallPull(t) <=> ShouldCallPull(s)
<1>1. QueueTotalSize(t) = QueueTotalSize(s)
      BY Zenon DEF QueueTotalSize
<1> QED BY <1>1 DEF ShouldCallPull, CanCloseOrEnqueue, HasRoom

LEMMA CallPullAsks ==
    ASSUME NEW s, NEW a \in Slots, a.pulling = s.pulling, a.sourceCalls = s.sourceCalls
    PROVE  LET t == CallPullIfNeeded(a)
           IN  /\ Asks(s, t) /\ (ShouldCallPull(t) <=> ShouldCallPull(a))
               /\ t.readRequests = a.readRequests /\ t.queue = a.queue
               /\ t.cancelled = a.cancelled /\ t.started = a.started /\ t.state = a.state
               /\ t.closeRequested = a.closeRequested
<1> DEFINE t == CallPullIfNeeded(a)
<1>1. CASE ~ShouldCallPull(a)
  <2>1. t = a
        BY <1>1 DEF CallPullIfNeeded
  <2> QED BY <1>1, <2>1 DEF Asks
<1>2. CASE ShouldCallPull(a) /\ a.pulling
  <2>1. t = [a EXCEPT !.pullAgain = TRUE]
        BY <1>2 DEF CallPullIfNeeded
  <2>2. /\ t.pullAgain /\ t.pulling = a.pulling /\ t.sourceCalls = a.sourceCalls
        /\ t.readRequests = a.readRequests /\ t.queue = a.queue
        /\ t.cancelled = a.cancelled /\ t.started = a.started /\ t.state = a.state
        /\ t.closeRequested = a.closeRequested
        BY <2>1 DEF Slots
  <2> HIDE DEF t
  <2>3. ShouldCallPull(t) <=> ShouldCallPull(a)
        BY <2>2, SameNeed
  <2>4. Asks(s, t)
        BY <1>2, <2>2, <2>3 DEF Asks
  <2> QED BY <2>2, <2>3, <2>4 DEF t
<1>3. CASE ShouldCallPull(a) /\ ~a.pulling
  <2> DEFINE b == Asserted(a, "no pull again", ~a.pullAgain)
  <2>1. /\ b.sourceCalls = a.sourceCalls /\ b \in Slots
        /\ b.readRequests = a.readRequests /\ b.queue = a.queue
        /\ b.cancelled = a.cancelled /\ b.started = a.started /\ b.state = a.state
        /\ b.closeRequested = a.closeRequested
    <3>1. b = a \/ b = [a EXCEPT !.failed = @ \cup {"no pull again"}]
          BY DEF Asserted
    <3>2. "no pull again" \in Assertions
          BY DEF Assertions
    <3>3. b \in Slots
          BY <3>1, <3>2, FailedKeeps
    <3> HIDE DEF b
    <3> QED BY <3>1, <3>3 DEF Slots
  <2> HIDE DEF b
  <2>2. t = [b EXCEPT !.pulling = TRUE, !.sourceCalls = @ \cup {"pull"}, !.owing = TRUE]
        BY <1>3 DEF CallPullIfNeeded, b
  <2>3. /\ t.pulling /\ t.sourceCalls = a.sourceCalls \cup {"pull"}
        /\ t.readRequests = a.readRequests /\ t.queue = a.queue
        /\ t.cancelled = a.cancelled /\ t.started = a.started /\ t.state = a.state
        /\ t.closeRequested = a.closeRequested
        BY <2>1, <2>2 DEF Slots
  <2> HIDE DEF t
  <2>4. ShouldCallPull(t) <=> ShouldCallPull(a)
        BY <2>3, SameNeed
  <2>5. Asks(s, t)
        BY <1>3, <2>3, <2>4 DEF Asks
  <2> QED BY <2>3, <2>4, <2>5 DEF t
<1>4. a.pulling \in BOOLEAN
      BY DEF Slots
<1> QED BY <1>1, <1>2, <1>3, <1>4

\* enqueue() asks, unless it throws.
LEMMA EnqueueAsks ==
    ASSUME NEW s \in Slots, NEW chunk \in Chunks, NEW size \in Nat, Waits(s)
    PROVE  LET t == Enqueue(s, chunk, size)
           IN  /\ EnqueueThrows(s) => t.sourceCalls = s.sourceCalls
               /\ ~EnqueueThrows(s) => Asks(s, t)
               /\ Waits(t) /\ t.cancelled = s.cancelled
<1> DEFINE t == Enqueue(s, chunk, size)
<1>1. CASE s.readRequests # <<>>
  <2> DEFINE f == FulfillReadRequest(s, chunk)
             a == [f EXCEPT !.owing = FALSE]
  <2>1. s.readRequests \in Seq(Reads) /\ s.answers \in [Reads -> AnswerSet]
        BY SlotsFacts
  <2>2. Head(s.readRequests) \in Reads /\ Tail(s.readRequests) \in Seq(Reads)
        BY <1>1, <2>1, HeadAndTail
  <2>3. f \in Slots /\ f.readRequests = Tail(s.readRequests)
        /\ f.pulling = s.pulling /\ f.sourceCalls = s.sourceCalls
        /\ f.queue = s.queue /\ f.cancelled = s.cancelled
    <3> DEFINE answers == [s.answers EXCEPT ![Head(s.readRequests)] =
                               IF s.keysMatch THEN chunk ELSE @]
               requests == Tail(s.readRequests)
    <3>1. answers \in [Reads -> AnswerSet]
          BY <2>1, <2>2 DEF AnswerSet
    <3>2. requests \in Seq(Reads)
          BY <2>2
    <3>3. f = [s EXCEPT !.readRequests = requests, !.answers = answers]
          BY DEF FulfillReadRequest, Slots
    <3> HIDE DEF answers, requests, f
    <3>4. f.readRequests = requests
          BY <3>3 DEF Slots
    <3> QED BY <3>1, <3>2, <3>3, <3>4 DEF Slots, AnswerSet, requests
  <2> HIDE DEF f
  <2>4. /\ a \in Slots /\ a.pulling = s.pulling /\ a.sourceCalls = s.sourceCalls
        /\ a.queue = s.queue /\ a.cancelled = s.cancelled
        BY <2>3 DEF Slots
  <2>5. t = IF EnqueueThrows(s) THEN a ELSE CallPullIfNeeded(a)
        BY <1>1 DEF Enqueue, EnqueueToRequest, f
  <2> HIDE DEF a, t
  <2>6. s.queue = <<>>
        BY <1>1 DEF Waits
  <2>7. /\ EnqueueThrows(s) => t.sourceCalls = s.sourceCalls
        /\ ~EnqueueThrows(s) => Asks(s, t)
        /\ Waits(t) /\ t.cancelled = s.cancelled
        BY <2>4, <2>5, <2>6, CallPullAsks DEF Waits
  <2> QED BY <2>7 DEF t
<1>2. CASE s.readRequests = <<>>
  <2> DEFINE queue == Append(s.queue, [value |-> chunk, size |-> size])
             a == [s EXCEPT !.queue = queue, !.owing = FALSE]
  <2>1. queue \in Seq([value : Chunks, size : Nat])
    <3>1. [value |-> chunk, size |-> size] \in [value : Chunks, size : Nat]
          OBVIOUS
    <3>2. s.queue \in Seq([value : Chunks, size : Nat])
          BY SlotsFacts
    <3> QED BY <3>1, <3>2
  <2> HIDE DEF queue
  <2>2. /\ a \in Slots /\ a.pulling = s.pulling /\ a.sourceCalls = s.sourceCalls
        /\ a.readRequests = s.readRequests /\ a.cancelled = s.cancelled
        BY <2>1 DEF Slots
  <2>3. t = CallPullIfNeeded(a)
        BY <1>2 DEF Enqueue, EnqueueSized, queue
  <2>4. ~EnqueueThrows(s)
        BY <1>2 DEF EnqueueThrows
  <2> HIDE DEF a, t
  <2>5. Asks(s, t) /\ Waits(t) /\ t.cancelled = s.cancelled
        BY <1>2, <2>2, <2>3, CallPullAsks DEF Waits
  <2> QED BY <2>4, <2>5 DEF t
<1> QED BY <1>1, <1>2

\* What the operations leave as it was: a stream that fails or is cancelled does so
\* by other operations, and one that takes no more chunks never does again.
Beside(s, t) ==
    /\ t.cancelled = s.cancelled
    /\ t.state = "errored" <=> s.state = "errored"
    /\ CanCloseOrEnqueue(t) => CanCloseOrEnqueue(s)
    /\ Waits(t)

\* Nothing has been asked for.
Silent(s, t) == t.sourceCalls = s.sourceCalls /\ t.pulling = s.pulling

\* All that matters here, except for the histories.
Alike(s, t) ==
    /\ t \in Slots
    /\ t.failed = s.failed /\ t.pullAgain = s.pullAgain /\ t.pulling = s.pulling
    /\ t.started = s.started /\ t.sourceCalls = s.sourceCalls /\ t.reader = s.reader
    /\ t.closed = s.closed /\ t.state = s.state /\ t.keysMatch = s.keysMatch
    /\ t.closeRequested = s.closeRequested /\ t.readRequests = s.readRequests
    /\ t.queue = s.queue /\ t.cancelled = s.cancelled

LEMMA HistoriesAlike ==
    ASSUME NEW s \in Slots
    PROVE  /\ \A chunk \in Chunks : Alike(s, [s EXCEPT !.offered = @ \cup {chunk}])
           /\ Alike(s, [s EXCEPT !.owing = FALSE, !.idle = FALSE])
<1>1. \A chunk \in Chunks : Alike(s, [s EXCEPT !.offered = @ \cup {chunk}])
      BY DEF Alike, Slots
<1>2. Alike(s, [s EXCEPT !.owing = FALSE, !.idle = FALSE])
      BY DEF Alike, Slots
<1> QED BY <1>1, <1>2

LEMMA AlikeKeeps ==
    ASSUME NEW s, NEW t, Alike(s, t)
    PROVE  /\ Sound(s) => Sound(t) /\ GoesOn(s, t)
           /\ Waits(s) => Beside(s, t)
           /\ Silent(s, t) /\ (ShouldCallPull(t) <=> ShouldCallPull(s))
           /\ EnqueueThrows(t) <=> EnqueueThrows(s)
<1>1. Sound(s) => GoesOn(s, t)
      BY OtherFields DEF Alike
<1>2. ShouldCallPull(t) <=> ShouldCallPull(s)
      BY SameNeed DEF Alike
<1>3. Waits(s) => Beside(s, t)
      BY DEF Alike, Beside, Waits, CanCloseOrEnqueue
<1>4. Silent(s, t)
      BY DEF Alike, Silent
<1>5. EnqueueThrows(t) <=> EnqueueThrows(s)
      BY DEF Alike, EnqueueThrows
<1> QED BY <1>1, <1>2, <1>3, <1>4, <1>5 DEF GoesOn, Becomes

\* Closing a stream calls nothing.
LEMMA CloseStreamSilent ==
    ASSUME NEW s \in Slots, s.state = "readable"
    PROVE  /\ Silent(s, CloseStream(s)) /\ ~CanCloseOrEnqueue(CloseStream(s))
           /\ Waits(CloseStream(s)) /\ CloseStream(s).cancelled = s.cancelled
           /\ CloseStream(s).state = "closed"
<1>1. CloseStream(s).sourceCalls = s.sourceCalls /\ CloseStream(s).pulling = s.pulling
      BY DEF CloseStream, ClosedPromiseResolve, Asserted, Slots
<1>2. Closed(s, CloseStream(s))
      BY CloseStreamEffect
<1> QED BY <1>1, <1>2 DEF Closed, Silent, CanCloseOrEnqueue, Waits

\* Nor does failing it; a read that waits stays where its key is missing.
LEMMA ErrorSilent ==
    ASSUME NEW s \in Slots, Waits(s)
    PROVE  LET t == ControllerError(s)
           IN  /\ Silent(s, t) /\ ~CanCloseOrEnqueue(t) /\ Waits(t)
               /\ t.cancelled = s.cancelled
               /\ s.state = "readable" => t.state = "errored"
               /\ s.state # "readable" => t = s
<1> DEFINE t == ControllerError(s)
<1>1. CASE s.state # "readable"
  <2>1. t = s
        BY <1>1 DEF ControllerError
  <2> QED BY <1>1, <2>1 DEF Silent, CanCloseOrEnqueue
<1>2. CASE s.state = "readable"
  <2>1. Failed(s, t)
        BY <1>2, ControllerErrorEffect
  <2>2. t.sourceCalls = s.sourceCalls /\ t.pulling = s.pulling
    <3> DEFINE e == [s EXCEPT !.queue = <<>>, !.owing = FALSE, !.state = "errored"]
               a == [e EXCEPT !.readRequests = <<>>, !.answers = WaitingAnswered(s, "rejected")]
    <3>1. e.sourceCalls = s.sourceCalls /\ e.pulling = s.pulling /\ DOMAIN e = DOMAIN s
          BY DEF Slots
    <3>2. t = IF s.readRequests # <<>> /\ ~s.keysMatch THEN e ELSE ClosedPromiseReject(a)
          BY <1>2 DEF ControllerError, ErrorStream, Asserted, WaitingAnswered, Slots
    <3>3. DOMAIN s = DOMAIN [s EXCEPT !.state = "errored"]
          OBVIOUS
    <3> HIDE DEF e, t, WaitingAnswered
    <3>4. a.sourceCalls = s.sourceCalls /\ a.pulling = s.pulling /\ DOMAIN a = DOMAIN s
          BY <3>1 DEF Slots
    <3> HIDE DEF a
    <3>5. \A x : ClosedPromiseReject(a).sourceCalls = a.sourceCalls
                 /\ ClosedPromiseReject(a).pulling = a.pulling
          BY <3>4 DEF ClosedPromiseReject, Asserted, Slots
    <3> QED BY <3>1, <3>2, <3>4, <3>5
  <2> HIDE DEF t
  <2>3. Waits(t)
        BY <2>1 DEF Failed, Waits
  <2>4. t.cancelled = s.cancelled /\ t.state = "errored"
        BY <2>1 DEF Failed
  <2>5. Silent(s, t) /\ ~CanCloseOrEnqueue(t)
        BY <2>2, <2>4 DEF Silent, CanCloseOrEnqueue
  <2> QED BY <1>2, <2>3, <2>4, <2>5 DEF t
<1> QED BY <1>1, <1>2

LEMMA CancelSilent ==
    ASSUME NEW s \in Slots, s.state = "readable"
    PROVE  LET t == Cancel(s)
           IN  /\ Silent(s, t) /\ ~CanCloseOrEnqueue(t) /\ Waits(t)
               /\ t.cancelled /\ t.state = "closed"
<1> DEFINE a == CloseStream(s)
           t == Cancel(s)
<1>1. t = [a EXCEPT !.queue = <<>>, !.cancelled = TRUE]
      BY DEF Cancel
<1>2. a \in Slots /\ Silent(s, a)
      BY CloseStreamEffect, CloseStreamSilent DEF Closed
<1>3. Cancelled(s, t)
      BY CancelEffect
<1> HIDE DEF a
<1>4. Silent(s, t)
      BY <1>1, <1>2 DEF Silent, Slots
<1> HIDE DEF t
<1>5. ~CanCloseOrEnqueue(t) /\ Waits(t) /\ t.cancelled /\ t.state = "closed"
      BY <1>3 DEF Cancelled, CanCloseOrEnqueue, Waits
<1> QED BY <1>4, <1>5 DEF t

LEMMA ControllerCloseSilent ==
    ASSUME NEW s \in Slots, s.state = "readable", Waits(s)
    PROVE  LET t == ControllerClose(s)
           IN  /\ Silent(s, t) /\ ~CanCloseOrEnqueue(t) /\ Waits(t)
               /\ t.cancelled = s.cancelled /\ t.state # "errored"
<1> DEFINE a == [s EXCEPT !.closeRequested = TRUE, !.owing = FALSE]
           t == ControllerClose(s)
<1>1. /\ a \in Slots /\ Silent(s, a) /\ a.closeRequested /\ a.state = "readable"
      /\ a.readRequests = s.readRequests /\ a.queue = s.queue /\ a.cancelled = s.cancelled
      BY DEF Slots, Silent
<1>2. t = IF s.queue = <<>> THEN CloseStream(a) ELSE a
      BY DEF ControllerClose
<1> HIDE DEF a, t
<1>3. CASE s.queue = <<>>
  <2>1. /\ Silent(a, t) /\ ~CanCloseOrEnqueue(t) /\ Waits(t) /\ t.cancelled = a.cancelled
        /\ t.state = "closed"
        BY <1>1, <1>2, <1>3, CloseStreamSilent
  <2>2. /\ Silent(s, t) /\ ~CanCloseOrEnqueue(t) /\ Waits(t)
        /\ t.cancelled = s.cancelled /\ t.state # "errored"
        BY <1>1, <2>1 DEF Silent
  <2> QED BY <2>2 DEF t
<1>4. CASE s.queue # <<>>
  <2>1. /\ Silent(s, t) /\ ~CanCloseOrEnqueue(t) /\ Waits(t)
        /\ t.cancelled = s.cancelled /\ t.state # "errored"
        BY <1>1, <1>2, <1>4 DEF CanCloseOrEnqueue, Waits
  <2> QED BY <2>1 DEF t
<1> QED BY <1>3, <1>4

\* A read asks, too, and where more was needed it still is: taking a chunk makes the
\* total no greater.
LEMMA ReadAsks ==
    ASSUME NEW s \in Slots, CanRead(s), Waits(s)
    PROVE  LET t == Read(s)
           IN  /\ Beside(s, t)
               /\ ~CanCloseOrEnqueue(s) => Silent(s, t)
               /\ CanCloseOrEnqueue(s) =>
                      Asks(s, t) /\ (ShouldCallPull(s) => ShouldCallPull(t))
<1> DEFINE i == NextRead(s)
           t == Read(s)
<1>1. /\ s.queue \in Seq([value : Chunks, size : Nat])
      /\ s.answers \in [Reads -> AnswerSet] /\ s.readRequests \in Seq(Reads)
      BY SlotsFacts
<1>2. i \in Reads
      BY NextReadMade
<1> HIDE DEF i
<1>3. CASE s.state # "readable"
  <2>1. t = [s EXCEPT !.answers[i] = "done"] \/ t = [s EXCEPT !.answers[i] = "rejected"]
        BY <1>3 DEF Read, Slots, i
  <2> HIDE DEF t
  <2>2. /\ t.state = s.state /\ t.cancelled = s.cancelled /\ Silent(s, t)
        /\ t.readRequests = s.readRequests /\ t.queue = s.queue
        BY <2>1 DEF Silent, Slots
  <2>3. ~CanCloseOrEnqueue(t) /\ ~CanCloseOrEnqueue(s) /\ Beside(s, t)
        BY <1>3, <2>2 DEF CanCloseOrEnqueue, Beside, Waits
  <2> QED BY <2>2, <2>3 DEF t
<1>4. CASE s.state = "readable" /\ s.queue = <<>>
  <2> DEFINE n == [s.answers EXCEPT ![i] = "pending"]
             r == Append(s.readRequests, i)
             h == s.readInSize \/ s.sizing # None
             b == [s EXCEPT !.readRequests = r, !.answers = n]
             a == [b EXCEPT !.readInSize = h]
  <2>1. n \in [Reads -> AnswerSet] /\ r \in Seq(Reads)
        BY <1>1, <1>2 DEF AnswerSet
  <2>2. t = CallPullIfNeeded(a)
        BY <1>4 DEF Read, PullSteps, Slots, i
  <2> HIDE DEF n, r
  <2>10. b \in Slots
        BY <2>1 DEF Slots, AnswerSet
  <2>11. h \in BOOLEAN
        BY SlotsFacts
  <2> HIDE DEF h
  <2>3. a \in Slots
    <3> HIDE DEF b
    <3> QED BY <2>10, <2>11, SeenFields
  <2>4. /\ a.pulling = s.pulling /\ a.sourceCalls = s.sourceCalls /\ a.queue = s.queue
        /\ a.cancelled = s.cancelled /\ a.started = s.started /\ a.state = s.state
        /\ a.closeRequested = s.closeRequested /\ a.readRequests = r
        BY DEF Slots
  <2>5. r # <<>>
        BY <1>1, <1>2 DEF r
  <2> HIDE DEF a, t
  <2>6. /\ Asks(s, t) /\ (ShouldCallPull(t) <=> ShouldCallPull(a))
        /\ t.readRequests = a.readRequests /\ t.queue = a.queue
        /\ t.cancelled = a.cancelled /\ t.started = a.started /\ t.state = a.state
        /\ t.closeRequested = a.closeRequested
        BY <2>2, <2>3, <2>4, CallPullAsks
  <2>7. Beside(s, t)
        BY <1>4, <2>4, <2>6 DEF Beside, Waits, CanCloseOrEnqueue
  <2>8. ShouldCallPull(s) => ShouldCallPull(t)
        BY <2>4, <2>5, <2>6 DEF ShouldCallPull, CanCloseOrEnqueue
  <2>9. ~CanCloseOrEnqueue(s) => Silent(s, t)
    <3>1. ~CanCloseOrEnqueue(s) => ~ShouldCallPull(t)
          BY <2>4, <2>6 DEF CanCloseOrEnqueue, ShouldCallPull
    <3>2. s.pulling \in BOOLEAN /\ t.pulling \in BOOLEAN
      <4>1. t \in Slots
            BY <2>2, <2>3, CallPullKeeps
      <4> QED BY <4>1 DEF Slots
    <3> QED BY <2>6, <3>1, <3>2 DEF Asks, Silent
  <2> QED BY <2>6, <2>7, <2>8, <2>9 DEF t
<1>5. CASE s.state = "readable" /\ s.queue # <<>>
  <2> DEFINE q == Tail(s.queue)
             n == [s.answers EXCEPT ![i] = Head(s.queue).value]
             b == [s EXCEPT !.queue = q]
             a == [b EXCEPT !.answers = n]
  <2>1. t = IF s.closeRequested /\ a.queue = <<>> THEN CloseStream(a)
            ELSE CallPullIfNeeded(a)
    <3>1. t = PullSteps(s, i)
          BY <1>5 DEF Read, i
    <3> HIDE DEF t
    <3> QED BY <1>1, <1>5, <3>1 DEF PullSteps, Slots
  <2>2. q \in Seq([value : Chunks, size : Nat]) /\ Head(s.queue) \in [value : Chunks, size : Nat]
        BY <1>1, <1>5, HeadAndTail
  <2>3. Head(s.queue).value \in AnswerSet
        BY <2>2 DEF AnswerSet
  <2>4. n \in [Reads -> AnswerSet]
        BY <1>1, <1>2, <2>3
  <2> HIDE DEF q, n
  <2>5. b \in Slots
        BY <2>2, SeenFields
  <2>6. a \in Slots
    <3> HIDE DEF b
    <3> QED BY <2>4, <2>5, SeenFields
  <2>7. /\ a.pulling = s.pulling /\ a.sourceCalls = s.sourceCalls /\ a.queue = q
        /\ a.cancelled = s.cancelled /\ a.started = s.started /\ a.state = s.state
        /\ a.closeRequested = s.closeRequested /\ a.readRequests = s.readRequests
        BY DEF Slots
  <2>8. s.readRequests = <<>>
        BY <1>5 DEF Waits
  <2> HIDE DEF a, b, t
  <2>9. CASE s.closeRequested /\ a.queue = <<>>
    <3>1. /\ Silent(a, t) /\ ~CanCloseOrEnqueue(t) /\ Waits(t) /\ t.cancelled = a.cancelled
          /\ t.state = "closed"
          BY <1>5, <2>1, <2>6, <2>7, <2>9, CloseStreamSilent
    <3>2. Beside(s, t) /\ Silent(s, t) /\ ~CanCloseOrEnqueue(s)
          BY <1>5, <2>7, <2>9, <3>1 DEF Beside, Silent, CanCloseOrEnqueue
    <3> QED BY <3>2 DEF t
  <2>10. CASE ~(s.closeRequested /\ a.queue = <<>>)
    <3>1. /\ Asks(s, t) /\ (ShouldCallPull(t) <=> ShouldCallPull(a))
          /\ t.readRequests = a.readRequests /\ t.queue = a.queue
          /\ t.cancelled = a.cancelled /\ t.started = a.started /\ t.state = a.state
          /\ t.closeRequested = a.closeRequested
          BY <2>1, <2>6, <2>7, <2>10, CallPullAsks
    <3>2. Beside(s, t)
          BY <2>7, <2>8, <3>1 DEF Beside, Waits, CanCloseOrEnqueue
    <3>3. ASSUME ShouldCallPull(s)
          PROVE  ShouldCallPull(t)
      <4>1. QueueTotalSize(s) < HighWaterMark
            BY <2>8, <3>3 DEF ShouldCallPull, HasRoom
      <4>2. /\ QueueTotalSize(a) \in Nat /\ QueueTotalSize(s) \in Nat
            /\ QueueTotalSize(a) <= QueueTotalSize(s)
            BY <1>1, <1>5, <2>7, TotalOfTail DEF q
      <4> DEFINE x == QueueTotalSize(a)
                 y == QueueTotalSize(s)
      <4>3. x \in Nat /\ y \in Nat /\ x <= y /\ y < HighWaterMark /\ HighWaterMark \in Nat
            BY <4>1, <4>2, ReadableStreamAssumption
      <4> HIDE DEF x, y
      <4>4. x < HighWaterMark
            BY <4>3
      <4>5. HasRoom(a)
            BY <4>4 DEF HasRoom, x
      <4>6. ShouldCallPull(a)
            BY <2>7, <3>3, <4>5 DEF ShouldCallPull, CanCloseOrEnqueue
      <4> QED BY <3>1, <4>6
    <3>4. ~CanCloseOrEnqueue(s) => Silent(s, t)
      <4>1. ~CanCloseOrEnqueue(s) => ~ShouldCallPull(t)
            BY <2>7, <3>1 DEF CanCloseOrEnqueue, ShouldCallPull
      <4>2. s.pulling \in BOOLEAN /\ t.pulling \in BOOLEAN
        <5>1. t \in Slots
              BY <2>1, <2>6, <2>10, CallPullKeeps
        <5> QED BY <5>1 DEF Slots
      <4> QED BY <3>1, <4>1, <4>2 DEF Asks, Silent
    <3> QED BY <3>1, <3>2, <3>3, <3>4 DEF t
  <2> QED BY <2>9, <2>10
<1> QED BY <1>3, <1>4, <1>5

\* What settles is no longer called; that is all, before the reaction to it.
LEMMA SettledFields ==
    ASSUME NEW s \in Slots, NEW call
    PROVE  LET t == Settled(s, call)
           IN  /\ t \in Slots
               /\ t.sourceCalls = s.sourceCalls \ {call}
               /\ t.pulling = s.pulling /\ t.pullAgain = s.pullAgain
               /\ t.state = s.state /\ t.closeRequested = s.closeRequested
               /\ t.started = s.started /\ t.readRequests = s.readRequests
               /\ t.queue = s.queue /\ t.cancelled = s.cancelled
               /\ t.failed = s.failed /\ t.keysMatch = s.keysMatch /\ t.reader = s.reader
               /\ ShouldCallPull(t) <=> ShouldCallPull(s)
               /\ CanCloseOrEnqueue(t) <=> CanCloseOrEnqueue(s)
<1> DEFINE t == Settled(s, call)
<1>1. t \in Slots
      BY SettledKeeps
<1>2. /\ t.sourceCalls = s.sourceCalls \ {call}
      /\ t.pulling = s.pulling /\ t.pullAgain = s.pullAgain
      /\ t.state = s.state /\ t.closeRequested = s.closeRequested
      /\ t.started = s.started /\ t.readRequests = s.readRequests
      /\ t.queue = s.queue /\ t.cancelled = s.cancelled
      /\ t.failed = s.failed /\ t.keysMatch = s.keysMatch /\ t.reader = s.reader
      BY DEF Settled, Slots
<1> HIDE DEF t
<1>3. ShouldCallPull(t) <=> ShouldCallPull(s)
      BY <1>2, SameNeed
<1>4. CanCloseOrEnqueue(t) <=> CanCloseOrEnqueue(s)
      BY <1>2 DEF CanCloseOrEnqueue
<1> QED BY <1>1, <1>2, <1>3, <1>4 DEF t

\* The first request for more comes when start() has settled.
LEMMA FinishStartAsks ==
    ASSUME NEW s, Sound(s), "start" \in s.sourceCalls, Waits(s)
    PROVE  LET t == FinishStart(s)
           IN  Asks(Settled(s, "start"), t) /\ Beside(s, t) /\ t.started
<1> DEFINE d == Settled(s, "start")
           a == [d EXCEPT !.started = TRUE]
           t == FinishStart(s)
<1>1. /\ d \in Slots /\ d.pulling = s.pulling /\ d.cancelled = s.cancelled
      /\ d.state = s.state /\ d.closeRequested = s.closeRequested
      /\ d.readRequests = s.readRequests /\ d.queue = s.queue
      BY SettledFields DEF Sound
<1>2. ~s.pulling /\ ~s.pullAgain
      BY DEF Sound
<1>3. t = CallPullIfNeeded(a)
      BY <1>2 DEF FinishStart, Asserted
<1> HIDE DEF d, t
<1>4. /\ a \in Slots /\ a.pulling = d.pulling /\ a.sourceCalls = d.sourceCalls
      /\ a.readRequests = d.readRequests /\ a.queue = d.queue
      /\ a.cancelled = d.cancelled /\ a.started /\ a.state = d.state
      /\ a.closeRequested = d.closeRequested
      BY <1>1 DEF Slots
<1> HIDE DEF a
<1>5. /\ Asks(d, t)
      /\ t.readRequests = a.readRequests /\ t.queue = a.queue
      /\ t.cancelled = a.cancelled /\ t.started = a.started /\ t.state = a.state
      /\ t.closeRequested = a.closeRequested
      BY <1>3, <1>4, CallPullAsks
<1>6. Beside(s, t)
      BY <1>1, <1>4, <1>5 DEF Beside, Waits, CanCloseOrEnqueue
<1> QED BY <1>4, <1>5, <1>6 DEF d, t

LEMMA FailStartSilent ==
    ASSUME NEW s, Sound(s), Waits(s)
    PROVE  LET t == FailStart(s)
           IN  /\ Silent(Settled(s, "start"), t) /\ ~CanCloseOrEnqueue(t) /\ Waits(t)
               /\ t.cancelled = s.cancelled
<1> DEFINE d == Settled(s, "start")
           t == FailStart(s)
<1>1. d \in Slots /\ d.cancelled = s.cancelled /\ Waits(d)
      BY SettledFields DEF Sound, Waits
<1>2. t = ControllerError(d)
      BY DEF FailStart
<1> HIDE DEF d, t
<1>3. Silent(d, t) /\ ~CanCloseOrEnqueue(t) /\ Waits(t) /\ t.cancelled = d.cancelled
      BY <1>1, <1>2, ErrorSilent
<1> QED BY <1>1, <1>3 DEF d, t

\* When a pull() has ended the next one is called if one was asked for meanwhile and
\* is still needed; otherwise none is under way.
LEMMA FinishPullAsks ==
    ASSUME NEW s, Sound(s), Waits(s)
    PROVE  LET d == Settled(s, "pull")
               t == FinishPull(s)
           IN  /\ t.sourceCalls = IF t.pulling THEN d.sourceCalls \cup {"pull"}
                                  ELSE d.sourceCalls
               /\ t.pulling <=> s.pullAgain /\ ShouldCallPull(s)
               /\ ShouldCallPull(t) <=> ShouldCallPull(s)
               /\ ~t.pullAgain /\ Beside(s, t)
<1> DEFINE d == Settled(s, "pull")
           t == FinishPull(s)
           idle == s.idle \/ (s.owing /\ s.state = "readable")
           a == [d EXCEPT !.pulling = FALSE, !.pullAgain = FALSE, !.idle = idle]
<1>1. /\ d \in Slots /\ d.cancelled = s.cancelled /\ d.started = s.started
      /\ d.state = s.state /\ d.closeRequested = s.closeRequested
      /\ d.readRequests = s.readRequests /\ d.queue = s.queue
      /\ ShouldCallPull(d) <=> ShouldCallPull(s)
      BY SettledFields DEF Sound
<1>2. t = IF s.pullAgain THEN CallPullIfNeeded(a) ELSE a
      BY DEF FinishPull, Settled, Sound, Slots
<1>3. idle \in BOOLEAN /\ s.pullAgain \in BOOLEAN
      BY DEF Sound, Slots
<1> HIDE DEF d, t, idle
<1>4. /\ a \in Slots /\ ~a.pulling /\ ~a.pullAgain /\ a.sourceCalls = d.sourceCalls
      /\ a.readRequests = d.readRequests /\ a.queue = d.queue
      /\ a.cancelled = d.cancelled /\ a.started = d.started /\ a.state = d.state
      /\ a.closeRequested = d.closeRequested
      BY <1>1, <1>3 DEF Slots
<1> HIDE DEF a
<1>5. ShouldCallPull(a) <=> ShouldCallPull(s)
      BY <1>1, <1>4, SameNeed
<1>6. Beside(s, a)
      BY <1>1, <1>4 DEF Beside, Waits, CanCloseOrEnqueue
<1>7. CASE ~(s.pullAgain /\ ShouldCallPull(s))
  <2>1. t = a
        BY <1>2, <1>5, <1>7 DEF CallPullIfNeeded
  <2> QED BY <1>4, <1>5, <1>6, <1>7, <2>1 DEF d, t
<1>8. CASE s.pullAgain /\ ShouldCallPull(s)
  <2>1. t = CallPullIfNeeded(a)
        BY <1>2, <1>8
  <2>2. t = [a EXCEPT !.pulling = TRUE, !.sourceCalls = @ \cup {"pull"}, !.owing = TRUE]
        BY <1>4, <1>5, <1>8, <2>1 DEF CallPullIfNeeded, Asserted
  <2>3. /\ t.pulling /\ ~t.pullAgain /\ t.sourceCalls = a.sourceCalls \cup {"pull"}
        /\ t.readRequests = a.readRequests /\ t.queue = a.queue
        /\ t.cancelled = a.cancelled /\ t.started = a.started /\ t.state = a.state
        /\ t.closeRequested = a.closeRequested
        BY <1>4, <2>2 DEF Slots
  <2>4. ShouldCallPull(t) <=> ShouldCallPull(a)
        BY <2>3, SameNeed
  <2>5. Beside(s, t)
        BY <1>6, <2>3 DEF Beside, Waits, CanCloseOrEnqueue
  <2> QED BY <1>4, <1>5, <1>8, <2>3, <2>4, <2>5 DEF d, t
<1> QED BY <1>7, <1>8

-----------------------------------------------------------------------------
(* What was chosen of a sequence.  As with the total, the least number for    *)
(* which something is not true of it gives the contradiction.                 *)

Picks(seq, T, n, g) ==
    g = [S \in SUBSET (1..n) |->
            IF S = {} THEN <<>>
            ELSE IF seq[Max(S)] \in T THEN Append(g[S \ {Max(S)}], seq[Max(S)])
                 ELSE g[S \ {Max(S)}]]

LEMMA PicksExists ==
    ASSUME NEW seq, NEW T, NEW n \in Nat
    PROVE  \E g : Picks(seq, T, n, g)
<1> DEFINE D == {k \in Nat : ~\E g : Picks(seq, T, k, g)}
<1>1. SUFFICES ASSUME D # {}
               PROVE  FALSE
      OBVIOUS
<1>2. PICK k \in D : \A y \in D : k <= y
  <2>1. D \subseteq Nat
        OBVIOUS
  <2> HIDE DEF D
  <2> QED BY <1>1, <2>1, LeastNumber
<1>3. k # 0
  <2> DEFINE g == [S \in SUBSET (1..0) |-> <<>>]
  <2>1. Picks(seq, T, 0, g)
    <3>1. 1..0 = {}
          OBVIOUS
    <3>2. \A S \in SUBSET (1..0) : S = {}
          BY <3>1
    <3> QED BY <3>2 DEF Picks
  <2> HIDE DEF g
  <2> QED BY <2>1
<1>4. PICK h : Picks(seq, T, k - 1, h)
  <2>1. k - 1 \in Nat /\ k - 1 \notin D
        BY <1>2, <1>3
  <2> QED BY <2>1
<1> DEFINE g == [S \in SUBSET (1..k) |->
                     IF k \in S
                     THEN IF seq[k] \in T THEN Append(h[S \ {k}], seq[k]) ELSE h[S \ {k}]
                     ELSE h[S]]
<1>5. Picks(seq, T, k, g)
  <2>1. ASSUME NEW S \in SUBSET (1..k)
        PROVE  g[S] = IF S = {} THEN <<>>
                      ELSE IF seq[Max(S)] \in T THEN Append(g[S \ {Max(S)}], seq[Max(S)])
                           ELSE g[S \ {Max(S)}]
    <3>1. CASE S = {}
      <4>1. g[S] = h[S] /\ S \in SUBSET (1..(k - 1))
            BY <3>1
      <4> HIDE DEF g
      <4> QED BY <1>4, <3>1, <4>1 DEF Picks
    <3>2. CASE k \in S
      <4>1. Max(S) = k
        <5>1. k \in Nat
              OBVIOUS
        <5>2. Max(S) \in S /\ \A y \in S : y <= Max(S)
              BY <5>1, <3>2, LastOfRange
        <5>3. Max(S) \in 1..k /\ k <= Max(S)
              BY <5>2, <3>2
        <5> QED BY <5>1, <5>3
      <4>2. S \ {k} \in SUBSET (1..k) /\ k \notin S \ {k}
            OBVIOUS
      <4>3. g[S \ {k}] = h[S \ {k}]
            BY <4>2
      <4>4. g[S] = IF seq[k] \in T THEN Append(h[S \ {k}], seq[k]) ELSE h[S \ {k}]
            BY <3>2
      <4> HIDE DEF g
      <4> QED BY <3>2, <4>1, <4>3, <4>4
    <3>3. CASE S # {} /\ k \notin S
      <4>1. S \in SUBSET (1..(k - 1)) /\ k - 1 \in Nat
            BY <1>2, <1>3, <3>3
      <4>2. Max(S) \in S
            BY <3>3, <4>1, LastOfRange
      <4>3. S \ {Max(S)} \in SUBSET (1..k) /\ k \notin S \ {Max(S)}
            BY <3>3
      <4>4. g[S] = h[S] /\ g[S \ {Max(S)}] = h[S \ {Max(S)}]
            BY <3>3, <4>3
      <4> HIDE DEF g
      <4>5. h[S] = IF seq[Max(S)] \in T THEN Append(h[S \ {Max(S)}], seq[Max(S)])
                   ELSE h[S \ {Max(S)}]
            BY <1>4, <3>3, <4>1 DEF Picks
      <4> QED BY <3>3, <4>4, <4>5
    <3> QED BY <3>1, <3>2, <3>3
  <2>2. g = [S \in SUBSET (1..k) |-> g[S]]
        OBVIOUS
  <2> HIDE DEF g
  <2>3. g = [S \in SUBSET (1..k) |->
                IF S = {} THEN <<>>
                ELSE IF seq[Max(S)] \in T THEN Append(g[S \ {Max(S)}], seq[Max(S)])
                     ELSE g[S \ {Max(S)}]]
        BY <2>1, <2>2, Zenon
  <2> QED BY <2>3 DEF Picks
<1> HIDE DEF g
<1> QED BY <1>5, <1>2

\* What was chosen as the last of what was chosen of the first places.
PickedSoFar(seq, T, n, p) ==
    /\ p[0] = <<>>
    /\ \A k \in 1..n :
          p[k] = IF seq[k] \in T THEN Append(p[k - 1], seq[k]) ELSE p[k - 1]

LEMMA ChosenUnfolded ==
    ASSUME NEW seq, NEW T, NEW n \in Nat, DOMAIN seq = 1..n
    PROVE  \E g : Picks(seq, T, n, g) /\ Chosen(seq, T) = g[1..n]
<1>1. Chosen(seq, T) = (CHOOSE g : Picks(seq, T, n, g))[1..n]
      BY Zenon DEF Chosen, FoldLeft, MapThenFoldSet, Picks
<1>2. \E g : Picks(seq, T, n, g)
      BY PicksExists
<1>3. Picks(seq, T, n, CHOOSE g : Picks(seq, T, n, g))
      BY <1>2
<1> QED BY <1>1, <1>3

LEMMA ChosenIsLast ==
    ASSUME NEW seq, NEW T, NEW n \in Nat, DOMAIN seq = 1..n
    PROVE  \E p : PickedSoFar(seq, T, n, p) /\ Chosen(seq, T) = p[n]
<1>1. PICK g : Picks(seq, T, n, g) /\ Chosen(seq, T) = g[1..n]
      BY ChosenUnfolded
<1> DEFINE p == [k \in 0..n |-> g[1..k]]
<1>2. p[0] = <<>>
  <2>1. 1..0 = {} /\ {} \in SUBSET (1..n) /\ 0 \in 0..n
        OBVIOUS
  <2>2. g[{}] = <<>>
        BY <1>1, <2>1 DEF Picks
  <2> QED BY <2>1, <2>2
<1>3. ASSUME NEW k \in 1..n
      PROVE  p[k] = IF seq[k] \in T THEN Append(p[k - 1], seq[k]) ELSE p[k - 1]
  <2>1. k \in Nat /\ 1..k \in SUBSET (1..k) /\ 1..k # {}
        OBVIOUS
  <2>2. Max(1..k) \in 1..k /\ \A y \in 1..k : y <= Max(1..k)
        BY <2>1, LastOfRange
  <2>3. Max(1..k) = k
        BY <2>1, <2>2
  <2>4. (1..k) \ {k} = 1..(k - 1)
        OBVIOUS
  <2>5. 1..k \in SUBSET (1..n)
        OBVIOUS
  <2>6. g[1..k] = IF seq[k] \in T THEN Append(g[1..(k - 1)], seq[k]) ELSE g[1..(k - 1)]
        BY <1>1, <2>1, <2>3, <2>4, <2>5 DEF Picks
  <2>7. k \in 0..n /\ k - 1 \in 0..n
        OBVIOUS
  <2> QED BY <2>6, <2>7
<1>4. p[n] = g[1..n]
      OBVIOUS
<1> HIDE DEF p
<1> QED BY <1>1, <1>2, <1>3, <1>4 DEF PickedSoFar

\* What is chosen of them is the same in the places up to l.
AgreeTo(seq, other, T, l) ==
    \A k \in 1..l : seq[k] = other[k] \/ (seq[k] \notin T /\ other[k] \notin T)

\* Nothing is, after l.
NoneAfter(seq, T, l, n) == \A k \in (l + 1)..n : seq[k] \notin T

\* The first places determine what is chosen of them.
LEMMA PickedAgree ==
    ASSUME NEW seq, NEW other, NEW T, NEW n \in Nat, NEW m \in Nat, NEW p, NEW q,
           PickedSoFar(seq, T, n, p), PickedSoFar(other, T, m, q),
           NEW l \in 0..n, l <= m,
           AgreeTo(seq, other, T, l)
    PROVE  p[l] = q[l]
<1> DEFINE D == {k \in 0..l : p[k] # q[k]}
<1>1. SUFFICES ASSUME D # {}
               PROVE  FALSE
      OBVIOUS
<1>2. PICK k \in D : \A y \in D : k <= y
  <2>1. D \subseteq Nat
        OBVIOUS
  <2> HIDE DEF D
  <2> QED BY <1>1, <2>1, LeastNumber
<1>3. k # 0
      BY DEF PickedSoFar
<1>4. k \in 1..l /\ k \in 1..n /\ k \in 1..m /\ k - 1 \in 0..l /\ k - 1 \notin D
      BY <1>2, <1>3
<1>5. p[k - 1] = q[k - 1]
      BY <1>4
<1>6. p[k] = IF seq[k] \in T THEN Append(p[k - 1], seq[k]) ELSE p[k - 1]
      BY <1>4 DEF PickedSoFar
<1>7. q[k] = IF other[k] \in T THEN Append(q[k - 1], other[k]) ELSE q[k - 1]
      BY <1>4 DEF PickedSoFar
<1>8. seq[k] = other[k] \/ (seq[k] \notin T /\ other[k] \notin T)
      BY <1>4 DEF AgreeTo
<1>9. p[k] = q[k]
      BY <1>5, <1>6, <1>7, <1>8
<1> QED BY <1>2, <1>9

\* From a place on nothing more is chosen.
LEMMA PickedRest ==
    ASSUME NEW seq, NEW T, NEW n \in Nat, NEW p, PickedSoFar(seq, T, n, p),
           NEW l \in 0..n, NoneAfter(seq, T, l, n)
    PROVE  p[n] = p[l]
<1> DEFINE D == {k \in l..n : p[k] # p[l]}
<1>1. SUFFICES ASSUME D # {}
               PROVE  FALSE
      OBVIOUS
<1>2. PICK k \in D : \A y \in D : k <= y
  <2>1. D \subseteq Nat
        OBVIOUS
  <2> HIDE DEF D
  <2> QED BY <1>1, <2>1, LeastNumber
<1>3. k # l
      OBVIOUS
<1>4. k \in (l + 1)..n /\ k \in 1..n /\ k - 1 \in l..n /\ k - 1 \notin D
      BY <1>2, <1>3
<1>5. p[k] = p[k - 1]
      BY <1>4 DEF PickedSoFar, NoneAfter
<1> QED BY <1>2, <1>4, <1>5

\* Two sequences in which the same is found up to a place, and nothing after it.
LEMMA ChosenSame ==
    ASSUME NEW seq, NEW other, NEW T, NEW n \in Nat, DOMAIN seq = 1..n,
           NEW m \in Nat, DOMAIN other = 1..m, NEW l \in 0..n, l <= m,
           AgreeTo(seq, other, T, l),
           NoneAfter(seq, T, l, n), NoneAfter(other, T, l, m)
    PROVE  Chosen(other, T) = Chosen(seq, T)
<1>1. PICK p : PickedSoFar(seq, T, n, p) /\ Chosen(seq, T) = p[n]
      BY ChosenIsLast
<1>2. PICK q : PickedSoFar(other, T, m, q) /\ Chosen(other, T) = q[m]
      BY ChosenIsLast
<1>3. p[l] = q[l]
      BY <1>1, <1>2, PickedAgree
<1>4. p[n] = p[l]
      BY <1>1, PickedRest
<1>5. q[m] = q[l]
  <2>1. l \in 0..m
        OBVIOUS
  <2> QED BY <2>1, <1>2, PickedRest
<1> QED BY <1>1, <1>2, <1>3, <1>4, <1>5

\* And two of which the second has one more.
LEMMA ChosenMore ==
    ASSUME NEW seq, NEW other, NEW T, NEW n \in Nat, DOMAIN seq = 1..n,
           NEW m \in Nat, DOMAIN other = 1..m, NEW i \in 1..m, i <= n + 1,
           AgreeTo(seq, other, T, i - 1), NoneAfter(seq, T, i - 1, n),
           other[i] \in T, NoneAfter(other, T, i, m)
    PROVE  Chosen(other, T) = Append(Chosen(seq, T), other[i])
<1>1. PICK p : PickedSoFar(seq, T, n, p) /\ Chosen(seq, T) = p[n]
      BY ChosenIsLast
<1>2. PICK q : PickedSoFar(other, T, m, q) /\ Chosen(other, T) = q[m]
      BY ChosenIsLast
<1>3. i - 1 \in 0..n /\ i - 1 <= m /\ i \in 0..m
      OBVIOUS
<1>4. p[i - 1] = q[i - 1]
  <2> DEFINE l == i - 1
  <2>1. l \in 0..n /\ l <= m /\ AgreeTo(seq, other, T, l)
        BY <1>3
  <2> HIDE DEF l
  <2>2. p[l] = q[l]
        BY <1>1, <1>2, <2>1, PickedAgree
  <2> QED BY <2>2 DEF l
<1>5. p[n] = p[i - 1]
  <2> DEFINE l == i - 1
  <2>1. l \in 0..n /\ NoneAfter(seq, T, l, n)
        BY <1>3
  <2> HIDE DEF l
  <2>2. p[n] = p[l]
        BY <2>1, <1>1, PickedRest
  <2> QED BY <2>2 DEF l
<1>6. q[m] = q[i]
      BY <1>2, <1>3, PickedRest
<1>7. q[i] = Append(q[i - 1], other[i])
      BY <1>2 DEF PickedSoFar
<1> QED BY <1>1, <1>2, <1>4, <1>5, <1>6, <1>7

OneMore(seq, other, T, n, m, i) ==
    /\ i \in 1..m /\ i <= n + 1
    /\ AgreeTo(seq, other, T, i - 1) /\ NoneAfter(seq, T, i - 1, n)
    /\ other[i] \in T /\ NoneAfter(other, T, i, m)

LEMMA ChosenOneMore ==
    ASSUME NEW seq, NEW other, NEW T, NEW n \in Nat, DOMAIN seq = 1..n,
           NEW m \in Nat, DOMAIN other = 1..m, NEW i, OneMore(seq, other, T, n, m, i)
    PROVE  Chosen(other, T) = Append(Chosen(seq, T), other[i])
BY ChosenMore DEF OneMore

LEMMA ChosenType ==
    ASSUME NEW seq, NEW T, NEW n \in Nat, DOMAIN seq = 1..n
    PROVE  Chosen(seq, T) \in Seq(T)
<1>1. PICK p : PickedSoFar(seq, T, n, p) /\ Chosen(seq, T) = p[n]
      BY ChosenIsLast
<1> DEFINE D == {k \in 0..n : p[k] \notin Seq(T)}
<1>2. SUFFICES ASSUME D # {}
               PROVE  FALSE
      BY <1>1
<1>3. PICK k \in D : \A y \in D : k <= y
  <2>1. D \subseteq Nat
        OBVIOUS
  <2> HIDE DEF D
  <2> QED BY <1>2, <2>1, LeastNumber
<1>4. k # 0
  <2>1. p[0] = <<>> /\ <<>> \in Seq(T)
        BY <1>1 DEF PickedSoFar
  <2> QED BY <2>1
<1>5. k \in 1..n /\ p[k - 1] \in Seq(T)
      BY <1>3, <1>4
<1>6. p[k] = IF seq[k] \in T THEN Append(p[k - 1], seq[k]) ELSE p[k - 1]
      BY <1>1, <1>5 DEF PickedSoFar
<1>7. p[k] \in Seq(T)
      BY <1>5, <1>6
<1> QED BY <1>3, <1>7

\* Where there is nothing to be chosen.
LEMMA NothingChosen ==
    ASSUME NEW seq, NEW T, NEW n \in Nat, DOMAIN seq = 1..n,
           \A k \in 1..n : seq[k] \notin T
    PROVE  Chosen(seq, T) = <<>>
<1>1. PICK p : PickedSoFar(seq, T, n, p) /\ Chosen(seq, T) = p[n]
      BY ChosenIsLast
<1> DEFINE l == 0
<1>2. l \in 0..n /\ NoneAfter(seq, T, l, n)
      BY DEF NoneAfter
<1> HIDE DEF l
<1>3. p[n] = p[l]
      BY <1>1, <1>2, PickedRest
<1> QED BY <1>1, <1>3 DEF PickedSoFar, l

-----------------------------------------------------------------------------
(* What a stream has delivered and holds, where the keys agree.               *)

Content(s) == Chosen(s.answers, Chunks) \o Values(s.queue)

\* No read has begun to wait in size(), chunks answer the first reads, and no read has
\* been told of an end that has not come.
InOrder(s) ==
    /\ s \in Slots /\ s.keysMatch /\ Waits(s) /\ InTurn(s) /\ ~s.readInSize
    /\ s.state = "readable" => ~s.cancelled
    /\ \E n \in 0..MaxReads : \A i \in Reads : s.answers[i] = "none" <=> i > n
    /\ \A i \in Reads : s.answers[i] = "done" => s.state = "closed"
    /\ \A i, j \in Reads : i < j /\ s.answers[j] \in Chunks => s.answers[i] \in Chunks

\* The histories that the channel looks at, made to say nothing.
Widened(s) == [s EXCEPT !.offered = Chunks, !.sizing = None]

LEMMA WidenedInvariant ==
    ASSUME NEW s, InOrder(s)
    PROVE  /\ ChannelInvariant(Widened(s)) /\ InTurn(Widened(s))
           /\ Widened(s).keysMatch = s.keysMatch /\ Widened(s).state = s.state
           /\ Widened(s).readRequests = s.readRequests /\ Widened(s).answers = s.answers
           /\ Widened(s).readInSize = s.readInSize
<1> DEFINE o == [s EXCEPT !.offered = Chunks]
           w == [o EXCEPT !.sizing = None]
<1>1. /\ s \in Slots /\ s.keysMatch /\ Waits(s) /\ InTurn(s) /\ ~s.readInSize
      /\ s.state = "readable" => ~s.cancelled
      /\ \E n \in 0..MaxReads : \A i \in Reads : s.answers[i] = "none" <=> i > n
      BY DEF InOrder
<1>2. o \in Slots /\ Chunks \in SUBSET Chunks /\ None \in Chunks \cup {None}
  <2>1. Chunks \in SUBSET Chunks /\ None \in Chunks \cup {None}
        OBVIOUS
  <2> QED BY <1>1, <2>1, SeenFields
<1>3. /\ o.keysMatch = s.keysMatch /\ o.state = s.state /\ o.cancelled = s.cancelled
      /\ o.readRequests = s.readRequests /\ o.answers = s.answers /\ o.queue = s.queue
      /\ o.offered = Chunks /\ o.readInSize = s.readInSize
      BY <1>1 DEF Slots
<1> HIDE DEF o
<1>4. w \in Slots
      BY <1>2, SeenFields
<1>5. /\ w.keysMatch = s.keysMatch /\ w.state = s.state /\ w.cancelled = s.cancelled
      /\ w.readRequests = s.readRequests /\ w.answers = s.answers /\ w.queue = s.queue
      /\ w.offered = Chunks /\ w.sizing = None /\ w.readInSize = s.readInSize
      BY <1>2, <1>3 DEF Slots
<1>6. w = Widened(s)
      BY DEF Widened, o
<1> HIDE DEF w
<1>7. /\ s.answers \in [Reads -> AnswerSet] /\ s.readRequests \in Seq(Reads)
      /\ s.queue \in Seq([value : Chunks, size : Nat])
      /\ None \notin Chunks /\ "none" # "pending"
      BY <1>1, SlotsFacts, ReadableStreamAssumption
<1>8. \A k \in DOMAIN s.readRequests : s.answers[s.readRequests[k]] # "none"
  <2> SUFFICES ASSUME NEW k \in DOMAIN s.readRequests
               PROVE  s.answers[s.readRequests[k]] # "none"
      OBVIOUS
  <2>1. s.readRequests[k] \in Reads
        BY <1>7
  <2>2. s.answers[s.readRequests[k]] = "pending"
        BY <1>1, <2>1 DEF InTurn
  <2> QED BY <2>2
<1>9. \A k \in DOMAIN s.queue : s.queue[k].value \in Chunks
  <2> SUFFICES ASSUME NEW k \in DOMAIN s.queue
               PROVE  s.queue[k].value \in Chunks
      OBVIOUS
  <2>1. s.queue[k] \in [value : Chunks, size : Nat]
        BY <1>7, SequenceParts
  <2> QED BY <2>1
<1>10. ChannelInvariant(w)
       BY <1>1, <1>4, <1>5, <1>7, <1>8, <1>9 DEF ChannelInvariant, Waits
<1>11. InTurn(w)
       BY <1>1, <1>5 DEF InTurn
<1> QED BY <1>5, <1>6, <1>10, <1>11

\* The reads are the places of the answers.
LEMMA AnswersPlaces ==
    ASSUME NEW s \in Slots
    PROVE  DOMAIN s.answers = 1..MaxReads /\ MaxReads \in Nat
BY SlotsFacts, ReadableStreamAssumption DEF Reads

\* Answers that are no chunks take no part in it.
LEMMA AnsweredSame ==
    ASSUME NEW s \in Slots, NEW t \in Slots,
           \A i \in Reads : s.answers[i] \in Chunks \/ t.answers[i] \in Chunks =>
               t.answers[i] = s.answers[i]
    PROVE  Chosen(t.answers, Chunks) = Chosen(s.answers, Chunks)
<1> DEFINE n == MaxReads
           l == MaxReads
<1>1. /\ n \in Nat /\ DOMAIN s.answers = 1..n /\ DOMAIN t.answers = 1..n
      /\ l \in 0..n /\ l <= n
      BY AnswersPlaces, ReadableStreamAssumption
<1>2. AgreeTo(s.answers, t.answers, Chunks, l)
      BY DEF AgreeTo, Reads
<1>3. NoneAfter(s.answers, Chunks, l, n) /\ NoneAfter(t.answers, Chunks, l, n)
      BY <1>1 DEF NoneAfter
<1> HIDE DEF n, l
<1> QED BY <1>1, <1>2, <1>3, ChosenSame

\* A chunk that answers the first read which has none.
LEMMA AnsweredMore ==
    ASSUME NEW s, InOrder(s), s.state = "readable", NEW t \in Slots,
           NEW h \in Reads, NEW chunk \in Chunks,
           t.answers = [s.answers EXCEPT ![h] = chunk],
           s.answers[h] \notin Chunks,
           \A i \in Reads : i < h => s.answers[i] \notin {"none", "pending"}
    PROVE  /\ Chosen(t.answers, Chunks) = Append(Chosen(s.answers, Chunks), chunk)
           /\ \A i \in Reads : t.answers[i] # "done"
           /\ \A i, j \in Reads : i < j /\ t.answers[j] \in Chunks => t.answers[i] \in Chunks
<1>1. /\ s \in Slots /\ s.keysMatch /\ InTurn(s)
      /\ \A i \in Reads : s.answers[i] = "done" => s.state = "closed"
      /\ \A i, j \in Reads : i < j /\ s.answers[j] \in Chunks => s.answers[i] \in Chunks
      BY DEF InOrder
<1>2. /\ s.answers \in [Reads -> AnswerSet] /\ "done" \notin Chunks
      BY <1>1, SlotsFacts, ReadableStreamAssumption
<1>3. \A i \in Reads : s.answers[i] # "done" /\ s.answers[i] # "rejected"
      BY <1>1 DEF InTurn
<1>4. \A i \in Reads : i < h => s.answers[i] \in Chunks
      BY <1>2, <1>3 DEF AnswerSet
<1>5. \A i \in Reads : i > h => s.answers[i] \notin Chunks
      BY <1>1
<1>6. \A i \in Reads : t.answers[i] = IF i = h THEN chunk ELSE s.answers[i]
      BY <1>2
<1> DEFINE n == MaxReads
<1>7. /\ n \in Nat /\ DOMAIN s.answers = 1..n /\ DOMAIN t.answers = 1..n
      /\ h \in 1..n /\ h <= n + 1
      BY <1>1, AnswersPlaces, ReadableStreamAssumption DEF Reads
<1>8. /\ AgreeTo(s.answers, t.answers, Chunks, h - 1)
      /\ NoneAfter(s.answers, Chunks, h - 1, n)
      /\ NoneAfter(t.answers, Chunks, h, n)
  <2>1. \A k \in 1..(h - 1) : k \in Reads /\ k # h
        BY <1>7 DEF Reads
  <2>2. \A k \in (h + 1)..n : k \in Reads /\ k > h
        BY <1>7 DEF Reads
  <2>3. \A k \in ((h - 1) + 1)..n : k \in Reads /\ (k = h \/ k > h)
        BY <1>7 DEF Reads
  <2>4. AgreeTo(s.answers, t.answers, Chunks, h - 1)
        BY <1>6, <2>1 DEF AgreeTo
  <2>5. NoneAfter(t.answers, Chunks, h, n)
        BY <1>5, <1>6, <2>2, <1>7 DEF NoneAfter
  <2>6. NoneAfter(s.answers, Chunks, h - 1, n)
        BY <1>5, <2>3 DEF NoneAfter
  <2> QED BY <2>4, <2>5, <2>6
<1>9. t.answers[h] = chunk
      BY <1>6
<1>10. Chosen(t.answers, Chunks) = Append(Chosen(s.answers, Chunks), t.answers[h])
  <2>1. OneMore(s.answers, t.answers, Chunks, n, n, h)
        BY <1>7, <1>8, <1>9 DEF OneMore
  <2>2. n \in Nat /\ DOMAIN s.answers = 1..n /\ DOMAIN t.answers = 1..n
        BY <1>7
  <2> DEFINE seq == s.answers
             other == t.answers
  <2>3. /\ n \in Nat /\ DOMAIN seq = 1..n /\ DOMAIN other = 1..n
        /\ OneMore(seq, other, Chunks, n, n, h)
        BY <2>1, <2>2
  <2> HIDE DEF n, seq, other
  <2>4. Chosen(other, Chunks) = Append(Chosen(seq, Chunks), other[h])
        BY ONLY <2>3, ChosenOneMore
  <2> QED BY <2>4 DEF seq, other
<1>11. \A i \in Reads : t.answers[i] # "done"
       BY <1>2, <1>3, <1>6
<1>12. \A i, j \in Reads : i < j /\ t.answers[j] \in Chunks => t.answers[i] \in Chunks
  <2> SUFFICES ASSUME NEW i \in Reads, NEW j \in Reads, i < j, t.answers[j] \in Chunks
               PROVE  t.answers[i] \in Chunks
      OBVIOUS
  <2>1. i \in Nat /\ j \in Nat /\ h \in Nat
        BY ReadableStreamAssumption DEF Reads
  <2>2. CASE j = h
        BY <1>4, <1>6, <2>2
  <2>3. CASE j # h /\ i = h
        BY <1>6, <2>3
  <2>4. CASE j # h /\ i # h
        BY <1>1, <1>6, <2>4
  <2> QED BY <2>2, <2>3, <2>4
<1> QED BY <1>9, <1>10, <1>11, <1>12

-----------------------------------------------------------------------------
(* What the operations do to it.                                              *)

Delivered(s) == Chosen(s.answers, Chunks)

\* The slots that the channel looks at, but for its histories, are the same.
SameContent(s, t) ==
    /\ t.keysMatch = s.keysMatch /\ t.state = s.state /\ t.cancelled = s.cancelled
    /\ t.readRequests = s.readRequests /\ t.answers = s.answers /\ t.queue = s.queue
    /\ t.readInSize = s.readInSize

LEMMA SameContentOrder ==
    ASSUME NEW s, InOrder(s), NEW t \in Slots, SameContent(s, t)
    PROVE  InOrder(t) /\ Content(t) = Content(s) /\ Delivered(t) = Delivered(s)
<1>1. /\ s.keysMatch /\ Waits(s) /\ InTurn(s) /\ ~s.readInSize
      /\ s.state = "readable" => ~s.cancelled
      /\ \E n \in 0..MaxReads : \A i \in Reads : s.answers[i] = "none" <=> i > n
      /\ \A i \in Reads : s.answers[i] = "done" => s.state = "closed"
      /\ \A i, j \in Reads : i < j /\ s.answers[j] \in Chunks => s.answers[i] \in Chunks
      BY DEF InOrder
<1>2. InTurn(t)
      BY <1>1, SameInTurn DEF SameContent
<1>3. Waits(t) /\ t.keysMatch /\ t.state = s.state /\ t.cancelled = s.cancelled
      /\ t.answers = s.answers /\ ~t.readInSize
      BY <1>1 DEF SameContent, Waits
<1>4. InOrder(t)
      BY <1>1, <1>2, <1>3 DEF InOrder
<1> QED BY <1>4 DEF SameContent, Content, Delivered

\* The values of a queue are chunks, and what was delivered is the first part of all.
LEMMA ContentFacts ==
    ASSUME NEW s, InOrder(s)
    PROVE  /\ Delivered(s) \in Seq(Chunks) /\ Values(s.queue) \in Seq(Chunks)
           /\ Content(s) = Delivered(s) \o Values(s.queue) /\ Content(s) \in Seq(Chunks)
           /\ s.queue = <<>> => Content(s) = Delivered(s)
<1>1. s \in Slots /\ s.queue \in Seq([value : Chunks, size : Nat])
      BY SlotsFacts DEF InOrder
<1>2. Delivered(s) \in Seq(Chunks)
  <2>1. \E n \in Nat : DOMAIN s.answers = 1..n
        BY <1>1, AnswersPlaces
  <2> QED BY <2>1, ChosenType DEF Delivered
<1>3. Values(s.queue) \in Seq(Chunks)
  <2>1. /\ Len(s.queue) \in Nat /\ DOMAIN s.queue = 1..Len(s.queue)
        /\ \A k \in 1..Len(s.queue) : s.queue[k] \in [value : Chunks, size : Nat]
        BY <1>1, SequenceParts
  <2> QED BY <2>1 DEF Values
<1>4. Content(s) = Delivered(s) \o Values(s.queue)
      BY DEF Content, Delivered
<1>5. ASSUME s.queue = <<>>
      PROVE  Values(s.queue) = <<>>
      BY <1>5 DEF Values
<1>6. ASSUME NEW x \in Seq(Chunks)
      PROVE  x \o <<>> = x
      OBVIOUS
<1> QED BY <1>2, <1>3, <1>4, <1>5, <1>6

\* The reads that wait take no part in it, however they are answered at the end.
LEMMA WaitingOrder ==
    ASSUME NEW s, InOrder(s), NEW t \in Slots, NEW answer \in {"done", "rejected"},
           t.answers = WaitingAnswered(s, answer)
    PROVE  /\ \A i \in Reads : t.answers[i] = IF Contains(s.readRequests, i) THEN answer
                                              ELSE s.answers[i]
           /\ \A i \in Reads : Contains(s.readRequests, i) => s.answers[i] = "pending"
           /\ \A i \in Reads : t.answers[i] = "none" <=> s.answers[i] = "none"
           /\ \A i \in Reads : t.answers[i] \in Chunks <=> s.answers[i] \in Chunks
           /\ \A i \in Reads : t.answers[i] \in Chunks => t.answers[i] = s.answers[i]
           /\ Delivered(t) = Delivered(s)
<1>1. s \in Slots /\ s.keysMatch /\ InTurn(s) /\ s.readRequests \in Seq(Reads)
      /\ answer \notin Chunks /\ "pending" \notin Chunks
      BY SlotsFacts, ReadableStreamAssumption DEF InOrder
<1>2. \A i \in Reads : Contains(s.readRequests, i) => s.answers[i] = "pending"
  <2> SUFFICES ASSUME NEW i \in Reads, Contains(s.readRequests, i)
               PROVE  s.answers[i] = "pending"
      OBVIOUS
  <2>1. \E k \in DOMAIN s.readRequests : s.readRequests[k] = i
        BY <1>1 DEF Contains
  <2> QED BY <1>1, <2>1 DEF InTurn
<1>3. \A i \in Reads : t.answers[i] = IF Contains(s.readRequests, i) THEN answer
                                      ELSE s.answers[i]
      BY DEF WaitingAnswered
<1>4. \A i \in Reads : t.answers[i] = "none" <=> s.answers[i] = "none"
      BY <1>2, <1>3
<1>5. \A i \in Reads : t.answers[i] \in Chunks <=> s.answers[i] \in Chunks
      BY <1>1, <1>2, <1>3
<1>6. \A i \in Reads : t.answers[i] \in Chunks => t.answers[i] = s.answers[i]
      BY <1>1, <1>2, <1>3
<1>7. Delivered(t) = Delivered(s)
  <2>1. \A i \in Reads : s.answers[i] \in Chunks \/ t.answers[i] \in Chunks =>
            t.answers[i] = s.answers[i]
        BY <1>5, <1>6
  <2> QED BY <1>1, <2>1, AnsweredSame DEF Delivered
<1> QED BY <1>2, <1>3, <1>4, <1>5, <1>6, <1>7

\* A stream ends.
LEMMA EndsOrder ==
    ASSUME NEW s, InOrder(s), s.state = "readable", NEW t,
           Closed(s, t) \/ Cancelled(s, t) \/ Failed(s, t)
    PROVE  InOrder(t) /\ Delivered(t) = Delivered(s) /\ t.state # "readable"
<1>1. /\ s.keysMatch /\ Waits(s) /\ InTurn(s) /\ ~s.readInSize
      /\ \E n \in 0..MaxReads : \A i \in Reads : s.answers[i] = "none" <=> i > n
      /\ \A i \in Reads : s.answers[i] = "done" => s.state = "closed"
      /\ \A i, j \in Reads : i < j /\ s.answers[j] \in Chunks => s.answers[i] \in Chunks
      BY DEF InOrder
<1>2. PICK answer \in {"done", "rejected"} :
          /\ t \in Slots /\ t.keysMatch = s.keysMatch /\ t.readRequests = <<>>
          /\ t.readInSize = s.readInSize
          /\ t.answers = WaitingAnswered(s, answer)
          /\ \/ answer = "done" /\ t.state = "closed"
             \/ answer = "rejected" /\ t.state = "errored"
  <2>1. CASE Closed(s, t) \/ Cancelled(s, t)
        BY <2>1 DEF Closed, Cancelled
  <2>2. CASE Failed(s, t)
    <3>1. t.answers = WaitingAnswered(s, "rejected") /\ t.readRequests = <<>>
          BY <1>1, <2>2 DEF Failed
    <3> QED BY <2>2, <3>1 DEF Failed
  <2> QED BY <2>1, <2>2
<1>3. /\ \A i \in Reads : t.answers[i] = IF Contains(s.readRequests, i) THEN answer
                                         ELSE s.answers[i]
      /\ \A i \in Reads : t.answers[i] = "none" <=> s.answers[i] = "none"
      /\ \A i \in Reads : t.answers[i] \in Chunks <=> s.answers[i] \in Chunks
      /\ Delivered(t) = Delivered(s)
      BY <1>2, WaitingOrder
<1>4. InTurn(t)
  <2> DEFINE w == Widened(s)
  <2>1. /\ ChannelInvariant(w) /\ InTurn(w) /\ w.keysMatch = s.keysMatch /\ w.state = s.state
        /\ w.readRequests = s.readRequests /\ w.answers = s.answers
        /\ w.readInSize = s.readInSize
        BY WidenedInvariant
  <2>2. WaitingAnswered(w, answer) = WaitingAnswered(s, answer)
        BY <2>1 DEF WaitingAnswered
  <2> HIDE DEF w
  <2>3. /\ t.keysMatch = w.keysMatch /\ t.readRequests = <<>> /\ w.state = "readable"
        /\ t.readInSize = w.readInSize
        /\ \/ t.answers = WaitingAnswered(w, "done") /\ t.state = "closed"
           \/ t.answers = WaitingAnswered(w, "rejected") /\ t.state = "errored"
        BY <1>2, <2>1, <2>2
  <2> QED BY <2>1, <2>3, EndsInTurn
<1>5. \A i \in Reads : t.answers[i] = "done" => t.state = "closed"
      BY <1>1, <1>2, <1>3
<1>6. \A i, j \in Reads : i < j /\ t.answers[j] \in Chunks => t.answers[i] \in Chunks
      BY <1>1, <1>3
<1>7. \E n \in 0..MaxReads : \A i \in Reads : t.answers[i] = "none" <=> i > n
      BY <1>1, <1>3
<1>8. Waits(t) /\ t.keysMatch /\ t.state # "readable" /\ ~t.readInSize
      BY <1>1, <1>2 DEF Waits
<1> QED BY <1>2, <1>3, <1>4, <1>5, <1>6, <1>7, <1>8 DEF InOrder

\* One more value at the end of a queue.
LEMMA ValuesOfAppend ==
    ASSUME NEW s, InOrder(s), NEW chunk \in Chunks, NEW size \in Nat
    PROVE  Values(Append(s.queue, [value |-> chunk, size |-> size])) =
               Append(Values(s.queue), chunk)
<1> DEFINE q == s.queue
           e == [value |-> chunk, size |-> size]
<1>1. q \in Seq([value : Chunks, size : Nat]) /\ e \in [value : Chunks, size : Nat]
      BY SlotsFacts DEF InOrder
<1>2. e.value = chunk
      OBVIOUS
<1>3. Len(q) \in Nat /\ DOMAIN q = 1..Len(q)
      BY <1>1
<1> HIDE DEF q, e
<1>4. /\ DOMAIN Append(q, e) = 1..(Len(q) + 1)
      /\ Append(q, e)[Len(q) + 1] = e /\ \A k \in 1..Len(q) : Append(q, e)[k] = q[k]
      BY <1>1
<1>5. Values(Append(q, e)) = [k \in 1..(Len(q) + 1) |-> IF k = Len(q) + 1 THEN chunk ELSE q[k].value]
      BY <1>2, <1>3, <1>4 DEF Values
<1>6. Values(q) \in Seq(Chunks) /\ Len(Values(q)) = Len(q)
      /\ \A k \in 1..Len(q) : Values(q)[k] = q[k].value
  <2>1. Values(q) \in Seq(Chunks)
        BY ContentFacts DEF q
  <2>2. Values(q) = [k \in 1..Len(q) |-> q[k].value]
        BY <1>3 DEF Values
  <2>3. DOMAIN Values(q) = 1..Len(q)
        BY <2>2
  <2> QED BY <1>3, <2>1, <2>2, <2>3
<1>7. Append(Values(q), chunk) = [k \in 1..(Len(q) + 1) |-> IF k = Len(q) + 1 THEN chunk ELSE q[k].value]
  <2> DEFINE v == Values(q)
             a == Append(v, chunk)
  <2>1. v \in Seq(Chunks) /\ Len(v) = Len(q) /\ \A k \in 1..Len(q) : v[k] = q[k].value
        BY <1>6
  <2> HIDE DEF v
  <2>2. /\ a \in Seq(Chunks) /\ DOMAIN a = 1..(Len(q) + 1) /\ a[Len(q) + 1] = chunk
        /\ \A k \in 1..Len(q) : a[k] = v[k]
        BY <2>1
  <2> HIDE DEF a
  <2>3. a = [k \in 1..(Len(q) + 1) |-> a[k]]
        BY <2>2
  <2>4. \A k \in 1..(Len(q) + 1) : a[k] = IF k = Len(q) + 1 THEN chunk ELSE q[k].value
        BY <1>3, <2>1, <2>2
  <2>5. a = [k \in 1..(Len(q) + 1) |-> IF k = Len(q) + 1 THEN chunk ELSE q[k].value]
        BY <2>3, <2>4, Zenon
  <2> QED BY <2>5 DEF a, v
<1> QED BY <1>5, <1>7 DEF q, e

LEMMA ConcatAppend ==
    ASSUME NEW T, NEW x \in Seq(T), NEW y \in Seq(T), NEW e \in T
    PROVE  x \o Append(y, e) = Append(x \o y, e)
OBVIOUS

\* A chunk is queued.
LEMMA QueuedOrder ==
    ASSUME NEW s, InOrder(s), s.readRequests = <<>>, NEW chunk \in Chunks, NEW t,
           Queued(s, t, chunk)
    PROVE  /\ InOrder(t) /\ Content(t) = Append(Content(s), chunk)
           /\ Delivered(t) = Delivered(s)
<1>1. /\ s.keysMatch /\ InTurn(s) /\ ~s.readInSize
      /\ s.state = "readable" => ~s.cancelled
      /\ \E n \in 0..MaxReads : \A i \in Reads : s.answers[i] = "none" <=> i > n
      /\ \A i \in Reads : s.answers[i] = "done" => s.state = "closed"
      /\ \A i, j \in Reads : i < j /\ s.answers[j] \in Chunks => s.answers[i] \in Chunks
      BY DEF InOrder
<1>2. /\ t \in Slots /\ t.keysMatch = s.keysMatch /\ t.state = s.state
      /\ t.cancelled = s.cancelled /\ t.readRequests = s.readRequests /\ t.answers = s.answers
      /\ t.readInSize = s.readInSize
      BY DEF Queued
<1>3. InTurn(t)
      BY <1>1, <1>2, SameInTurn
<1>4. InOrder(t)
      BY <1>1, <1>2, <1>3 DEF InOrder, Waits
<1>5. PICK size \in Nat : t.queue = Append(s.queue, [value |-> chunk, size |-> size])
      BY DEF Queued
<1>6. Values(t.queue) = Append(Values(s.queue), chunk)
      BY <1>5, ValuesOfAppend
<1>7. Delivered(t) = Delivered(s)
      BY <1>2 DEF Delivered
<1>8. /\ Delivered(s) \in Seq(Chunks) /\ Values(s.queue) \in Seq(Chunks)
      /\ Content(s) = Delivered(s) \o Values(s.queue)
      BY ContentFacts
<1>9. Content(t) = Delivered(t) \o Values(t.queue)
      BY <1>4, ContentFacts
<1> QED BY <1>4, <1>6, <1>7, <1>8, <1>9, ConcatAppend

\* A chunk answers the read that waits longest.
LEMMA FulfilledOrder ==
    ASSUME NEW s, InOrder(s), s.state = "readable", s.readRequests # <<>>,
           NEW chunk \in Chunks, NEW t, Fulfilled(s, t, chunk)
    PROVE  /\ InOrder(t) /\ Content(t) = Append(Content(s), chunk)
           /\ Delivered(t) = Append(Delivered(s), chunk)
<1> DEFINE h == Head(s.readRequests)
           w == Widened(s)
<1>1. /\ s \in Slots /\ s.keysMatch /\ Waits(s) /\ InTurn(s) /\ ~s.cancelled
      /\ ~s.readInSize
      /\ \A i \in Reads : s.answers[i] = "done" => s.state = "closed"
      BY DEF InOrder
<1>2. PICK n \in 0..MaxReads : \A i \in Reads : s.answers[i] = "none" <=> i > n
      BY DEF InOrder
<1>3. /\ s.answers \in [Reads -> AnswerSet] /\ s.readRequests \in Seq(Reads)
      /\ "pending" \notin Chunks /\ "none" \notin Chunks
      BY <1>1, SlotsFacts, ReadableStreamAssumption
<1>4. /\ t \in Slots /\ t.keysMatch = s.keysMatch /\ t.state = s.state
      /\ t.cancelled = s.cancelled /\ t.readRequests = Tail(s.readRequests)
      /\ t.answers = [s.answers EXCEPT ![h] = chunk] /\ t.queue = s.queue
      /\ t.readInSize = s.readInSize
      BY <1>1 DEF Fulfilled
<1>5. s.queue = <<>>
      BY <1>1 DEF Waits
<1>6. /\ h \in Reads /\ 1 \in DOMAIN s.readRequests /\ s.readRequests[1] = h
      /\ \A k \in DOMAIN s.readRequests : k \in Nat /\ k >= 1
      BY <1>3, SequenceParts
<1>7. s.answers[h] = "pending"
      BY <1>1, <1>6 DEF InTurn
<1>8. ASSUME NEW i \in Reads, i < h
      PROVE  s.answers[i] \notin {"none", "pending"}
  <2>1. i \in Nat /\ h \in Nat /\ n \in Nat
        BY <1>6, ReadableStreamAssumption DEF Reads
  <2>2. s.answers[i] # "none"
        BY <1>2, <1>6, <1>7, <1>8, <2>1
  <2>3. ASSUME s.answers[i] = "pending"
        PROVE  FALSE
    <3>1. PICK k \in DOMAIN s.readRequests : s.readRequests[k] = i
          BY <1>1, <2>3 DEF InTurn
    <3>2. CASE k = 1
          BY <1>6, <1>8, <2>1, <3>1, <3>2
    <3>3. CASE 1 < k
      <4>1. s.readRequests[1] < s.readRequests[k]
            BY <1>1, <1>6, <3>3 DEF InTurn
      <4> QED BY <1>6, <1>8, <2>1, <3>1, <4>1
    <3> QED BY <1>6, <3>2, <3>3
  <2> QED BY <2>2, <2>3
<1>9. InTurn(t)
  <2>1. /\ ChannelInvariant(w) /\ InTurn(w) /\ w.keysMatch = s.keysMatch /\ w.state = s.state
        /\ w.readRequests = s.readRequests /\ w.answers = s.answers
        /\ w.readInSize = s.readInSize
        BY WidenedInvariant
  <2> HIDE DEF w
  <2>2. /\ t.keysMatch = w.keysMatch /\ t.state = w.state /\ t.readInSize = w.readInSize
        /\ t.readRequests = Tail(w.readRequests)
        /\ t.answers = [w.answers EXCEPT ![Head(w.readRequests)] = chunk]
        BY <1>4, <2>1
  <2> QED BY <2>1, <2>2, ServedInTurn
<1> HIDE DEF h
<1>10. /\ Chosen(t.answers, Chunks) = Append(Chosen(s.answers, Chunks), chunk)
       /\ \A i \in Reads : t.answers[i] # "done"
       /\ \A i, j \in Reads : i < j /\ t.answers[j] \in Chunks => t.answers[i] \in Chunks
  <2>1. s.answers[h] \notin Chunks
        BY <1>3, <1>7
  <2> QED BY <1>4, <1>6, <1>8, <2>1, AnsweredMore
<1>11. \A i \in Reads : t.answers[i] = "none" <=> s.answers[i] = "none"
       BY <1>3, <1>4, <1>6, <1>7
<1>12. InOrder(t)
       BY <1>1, <1>2, <1>4, <1>5, <1>9, <1>10, <1>11 DEF InOrder, Waits
<1>13. Content(t) = Delivered(t) /\ Content(s) = Delivered(s)
       BY <1>4, <1>5, <1>12, ContentFacts
<1> QED BY <1>10, <1>12, <1>13 DEF Delivered

\* enqueue().
LEMMA EnqueueOrder ==
    ASSUME NEW s, InOrder(s), s.state = "readable", NEW chunk \in Chunks, NEW size \in Nat
    PROVE  /\ InOrder(Enqueue(s, chunk, size))
           /\ Content(Enqueue(s, chunk, size)) = Append(Content(s), chunk)
<1>1. s \in Slots
      BY DEF InOrder
<1>2. CASE s.readRequests # <<>>
  <2>1. Fulfilled(s, EnqueueToRequest(s, chunk), chunk)
        BY <1>1, <1>2, EnqueueToRequestEffect
  <2> QED BY <1>2, <2>1, FulfilledOrder DEF Enqueue
<1>3. CASE s.readRequests = <<>>
  <2>1. Queued(s, EnqueueSized(s, chunk, size), chunk)
        BY <1>1, EnqueueSizedEffect
  <2> QED BY <1>3, <2>1, QueuedOrder DEF Enqueue
<1> QED BY <1>2, <1>3

\* close(), error() and cancel().
LEMMA EndingOrder ==
    ASSUME NEW s, InOrder(s), s.state = "readable"
    PROVE  /\ LET t == ControllerClose(s)
              IN  /\ InOrder(t) /\ Content(t) = Content(s) /\ ~CanCloseOrEnqueue(t)
                  /\ t.state # "errored" /\ (t.state = "closed" => t.queue = <<>>)
           /\ LET t == ControllerError(s)
              IN  InOrder(t) /\ Delivered(t) = Delivered(s) /\ t.state = "errored"
           /\ LET t == Cancel(s)
              IN  InOrder(t) /\ Delivered(t) = Delivered(s) /\ t.state = "closed"
<1>1. s \in Slots /\ Waits(s)
      BY DEF InOrder
<1>4. LET t == ControllerClose(s)
      IN  /\ InOrder(t) /\ Content(t) = Content(s) /\ ~CanCloseOrEnqueue(t)
          /\ t.state # "errored" /\ (t.state = "closed" => t.queue = <<>>)
  <2> DEFINE t == ControllerClose(s)
  <2>0. ~CanCloseOrEnqueue(t)
        BY <1>1, ControllerCloseSilent
  <2>1. \/ s.queue = <<>> /\ Closed(s, t) /\ t.state = "closed" /\ t.queue = <<>>
        \/ t \in Slots /\ SameContent(s, t) /\ t.state = "readable"
    <3>1. CASE s.queue = <<>>
          BY <1>1, <3>1, ControllerCloseEffect DEF Closed
    <3>2. CASE s.queue # <<>>
          BY <1>1, <3>2, ControllerCloseEffect DEF SameChannel, SameContent
    <3> QED BY <3>1, <3>2
  <2> HIDE DEF t
  <2>2. CASE s.queue = <<>> /\ Closed(s, t) /\ t.state = "closed" /\ t.queue = <<>>
    <3>1. InOrder(t) /\ Delivered(t) = Delivered(s)
          BY <2>2, EndsOrder
    <3>2. Content(t) = Content(s)
          BY <2>2, <3>1, ContentFacts
    <3> QED BY <2>0, <2>2, <3>1, <3>2 DEF t
  <2>3. CASE t \in Slots /\ SameContent(s, t) /\ t.state = "readable"
        BY <2>0, <2>3, SameContentOrder DEF t
  <2> QED BY <2>1, <2>2, <2>3
<1>5. LET t == ControllerError(s)
      IN  InOrder(t) /\ Delivered(t) = Delivered(s) /\ t.state = "errored"
  <2>1. Failed(s, ControllerError(s))
        BY <1>1, ControllerErrorEffect
  <2> QED BY <2>1, EndsOrder DEF Failed
<1>6. LET t == Cancel(s)
      IN  InOrder(t) /\ Delivered(t) = Delivered(s) /\ t.state = "closed"
  <2>1. Cancelled(s, Cancel(s))
        BY <1>1, CancelEffect
  <2> QED BY <2>1, EndsOrder DEF Cancelled
<1> QED BY <1>4, <1>5, <1>6

\* A read is made, and answered or left to wait.
ReadAt(s, t, h, answer) ==
    /\ h \in Reads /\ \A i \in Reads : s.answers[i] = "none" <=> i > h - 1
    /\ t.answers = [s.answers EXCEPT ![h] = answer]

LEMMA ReadPlaces ==
    ASSUME NEW s, InOrder(s), NEW t \in Slots, NEW h, NEW answer, answer # "none",
           ReadAt(s, t, h, answer)
    PROVE  /\ s.answers[h] = "none"
           /\ \A i \in Reads : t.answers[i] = IF i = h THEN answer ELSE s.answers[i]
           /\ \A i \in Reads : i < h => s.answers[i] # "none"
           /\ \E n \in 0..MaxReads : \A i \in Reads : t.answers[i] = "none" <=> i > n
           /\ answer \notin Chunks =>
                  /\ Delivered(t) = Delivered(s)
                  /\ \A i, j \in Reads :
                         i < j /\ t.answers[j] \in Chunks => t.answers[i] \in Chunks
<1>1. /\ s \in Slots /\ s.answers \in [Reads -> AnswerSet] /\ "none" \notin Chunks
      /\ \A i, j \in Reads : i < j /\ s.answers[j] \in Chunks => s.answers[i] \in Chunks
      BY SlotsFacts, ReadableStreamAssumption DEF InOrder
<1>2. /\ h \in Reads /\ \A i \in Reads : s.answers[i] = "none" <=> i > h - 1
      /\ t.answers = [s.answers EXCEPT ![h] = answer]
      BY DEF ReadAt
<1>3. \A i \in Reads : i \in Nat /\ i >= 1 /\ i <= MaxReads
      BY ReadableStreamAssumption DEF Reads
<1>4. s.answers[h] = "none" /\ \A i \in Reads : i < h => s.answers[i] # "none"
      BY <1>2, <1>3
<1>5. \A i \in Reads : t.answers[i] = IF i = h THEN answer ELSE s.answers[i]
      BY <1>1, <1>2
<1>6. h \in 0..MaxReads /\ \A i \in Reads : t.answers[i] = "none" <=> i > h
      BY <1>2, <1>3, <1>5, ReadableStreamAssumption
<1>7. ASSUME answer \notin Chunks
      PROVE  /\ Delivered(t) = Delivered(s)
             /\ \A i, j \in Reads : i < j /\ t.answers[j] \in Chunks => t.answers[i] \in Chunks
  <2>1. \A i \in Reads : s.answers[i] \in Chunks \/ t.answers[i] \in Chunks =>
            t.answers[i] = s.answers[i]
        BY <1>1, <1>4, <1>5, <1>7
  <2>2. Delivered(t) = Delivered(s)
        BY <1>1, <2>1, AnsweredSame DEF Delivered
  <2>3. \A i, j \in Reads : i < j /\ t.answers[j] \in Chunks => t.answers[i] \in Chunks
        BY <1>1, <1>4, <1>5, <1>7
  <2> QED BY <2>2, <2>3
<1> QED BY <1>4, <1>5, <1>6, <1>7

\* Where a read is made.
LEMMA NextReadPlace ==
    ASSUME NEW s, InOrder(s), CanRead(s)
    PROVE  /\ NextRead(s) \in Reads
           /\ \A i \in Reads : s.answers[i] = "none" <=> i > NextRead(s) - 1
<1> DEFINE w == Widened(s)
<1>1. ChannelInvariant(w) /\ w.answers = s.answers
      BY WidenedInvariant
<1>2. w.reader = s.reader
      BY DEF Widened, InOrder, Slots
<1> HIDE DEF w
<1>3. CanRead(w) /\ NextRead(w) = NextRead(s)
      BY <1>1, <1>2 DEF CanRead, NextRead
<1> QED BY <1>1, <1>3, NextReadIsNext

\* It is made in turn.
LEMMA ReadTurn ==
    ASSUME NEW s, InOrder(s), NEW t \in Slots, NEW h, NEW answer, answer # "none",
           ReadAt(s, t, h, answer), t.keysMatch = s.keysMatch, ~t.readInSize,
           \/ /\ answer = "pending" /\ s.state = "readable" /\ t.state = s.state
              /\ t.readRequests = Append(s.readRequests, h)
           \/ /\ Served(answer) /\ answer \notin {"pending", "rejected"}
              /\ s.state # "errored" /\ s.readRequests = <<>> /\ t.readRequests = <<>>
           \/ /\ answer = "rejected" /\ s.state = "errored" /\ t.state = s.state
              /\ t.readRequests = s.readRequests
    PROVE  InTurn(t)
<1> DEFINE w == Widened(s)
<1>1. /\ ChannelInvariant(w) /\ InTurn(w) /\ w.keysMatch = s.keysMatch /\ w.state = s.state
      /\ w.readRequests = s.readRequests /\ w.answers = s.answers
      /\ w.readInSize = s.readInSize /\ ~s.readInSize
      BY WidenedInvariant DEF InOrder
<1>2. /\ h \in Reads /\ s.answers[h] = "none"
      /\ \A i \in Reads : i < h => s.answers[i] # "none"
  <2>1. h \in Reads
        BY DEF ReadAt
  <2> QED BY <2>1, ReadPlaces
<1> HIDE DEF w
<1>3. /\ h \in Reads /\ w.answers[h] = "none"
      /\ \A i \in Reads : i < h => w.answers[i] # "none"
      BY <1>1, <1>2
<1>4. /\ t.answers = [w.answers EXCEPT ![h] = answer] /\ t.keysMatch = w.keysMatch
      /\ w.readInSize => t.readInSize
      BY <1>1 DEF ReadAt
<1>5. \/ /\ answer = "pending" /\ w.state = "readable" /\ t.state = w.state
         /\ t.readRequests = Append(w.readRequests, h)
      \/ /\ Served(answer) /\ answer \notin {"pending", "rejected"}
         /\ w.state # "errored" /\ w.readRequests = <<>> /\ t.readRequests = <<>>
      \/ /\ answer = "rejected" /\ w.state = "errored" /\ t.state = w.state
         /\ t.readRequests = w.readRequests
      BY <1>1
<1> QED BY ONLY <1>1, <1>3, <1>4, <1>5, MadeInTurn

\* A read of a stream that has ended.
LEMMA ReadEndedOrder ==
    ASSUME NEW s, InOrder(s), CanRead(s), s.state # "readable"
    PROVE  LET t == Read(s)
           IN  /\ InOrder(t) /\ Delivered(t) = Delivered(s)
               /\ t.state = s.state /\ t.queue = s.queue
<1> DEFINE t == Read(s)
           h == NextRead(s)
           answer == IF s.state = "errored" THEN "rejected" ELSE "done"
<1>1. /\ s \in Slots /\ s.keysMatch /\ InTurn(s) /\ Waits(s) /\ ~s.readInSize
      /\ s.state \in {"readable", "closed", "errored"}
      /\ \A i \in Reads : s.answers[i] = "done" => s.state = "closed"
      BY SlotsFacts DEF InOrder
<1>2. h \in Reads /\ \A i \in Reads : s.answers[i] = "none" <=> i > h - 1
      BY NextReadPlace
<1>3. /\ t \in Slots /\ Answers(s, t, h, answer) /\ t.state = s.state
      /\ t.readRequests = s.readRequests /\ t.queue = s.queue
      /\ t.readInSize = s.readInSize
      BY <1>1, <1>2, ReadEndedEffect
<1>4. answer \in {"rejected", "done"} /\ (answer = "rejected" <=> s.state = "errored")
      /\ answer \notin Chunks /\ answer # "none" /\ answer # "pending"
      BY ReadableStreamAssumption
<1> HIDE DEF t, h, answer
<1>5. ReadAt(s, t, h, answer) /\ t.keysMatch = s.keysMatch
      BY <1>2, <1>3 DEF ReadAt, Answers
<1>6. s.readRequests = <<>>
      BY <1>1 DEF InTurn
<1>7. InTurn(t)
  <2>1. CASE s.state = "errored"
        BY <1>1, <1>3, <1>4, <1>5, <2>1, ReadTurn
  <2>2. CASE s.state # "errored"
    <3>1. Served(answer) /\ answer \notin {"pending", "rejected"}
          BY <1>4, <2>2 DEF Served
    <3> QED BY <1>1, <1>3, <1>4, <1>5, <1>6, <2>2, <3>1, ReadTurn
  <2> QED BY <2>1, <2>2
<1>8. /\ \A i \in Reads : t.answers[i] = IF i = h THEN answer ELSE s.answers[i]
      /\ \E n \in 0..MaxReads : \A i \in Reads : t.answers[i] = "none" <=> i > n
      /\ Delivered(t) = Delivered(s)
      /\ \A i, j \in Reads : i < j /\ t.answers[j] \in Chunks => t.answers[i] \in Chunks
      BY <1>3, <1>4, <1>5, ReadPlaces
<1>9. \A i \in Reads : t.answers[i] = "done" => t.state = "closed"
      BY <1>1, <1>3, <1>4, <1>8
<1>10. InOrder(t)
       BY <1>1, <1>3, <1>5, <1>7, <1>8, <1>9 DEF InOrder, Waits
<1> QED BY <1>3, <1>8, <1>10 DEF t

\* A read that waits.
LEMMA ReadWaitsOrder ==
    ASSUME NEW s, InOrder(s), s.sizing = None, CanRead(s), s.state = "readable", s.queue = <<>>
    PROVE  LET t == Read(s)
           IN  InOrder(t) /\ Content(t) = Content(s) /\ t.state = "readable"
<1> DEFINE t == Read(s)
           h == NextRead(s)
           answer == "pending"
<1>1. /\ s \in Slots /\ s.keysMatch /\ ~s.cancelled /\ ~s.readInSize
      /\ \A i \in Reads : s.answers[i] = "done" => s.state = "closed"
      BY DEF InOrder
<1>2. h \in Reads /\ \A i \in Reads : s.answers[i] = "none" <=> i > h - 1
      BY NextReadPlace
<1>3. /\ t \in Slots /\ Answers(s, t, h, answer) /\ t.state = s.state
      /\ t.readRequests = Append(s.readRequests, h) /\ t.queue = s.queue
      /\ ~t.readInSize
      BY <1>1, <1>2, ReadWaitsEffect
<1>4. answer = "pending" /\ answer \notin Chunks /\ answer # "none" /\ answer # "done"
      BY ReadableStreamAssumption
<1> HIDE DEF t, h, answer
<1>5. ReadAt(s, t, h, answer) /\ t.keysMatch = s.keysMatch /\ t.cancelled = s.cancelled
      BY <1>2, <1>3 DEF ReadAt, Answers
<1>6. InTurn(t)
      BY <1>3, <1>4, <1>5, ReadTurn
<1>7. /\ \A i \in Reads : t.answers[i] = IF i = h THEN answer ELSE s.answers[i]
      /\ \E n \in 0..MaxReads : \A i \in Reads : t.answers[i] = "none" <=> i > n
      /\ Delivered(t) = Delivered(s)
      /\ \A i, j \in Reads : i < j /\ t.answers[j] \in Chunks => t.answers[i] \in Chunks
      BY <1>3, <1>4, <1>5, ReadPlaces
<1>8. \A i \in Reads : t.answers[i] = "done" => t.state = "closed"
      BY <1>1, <1>3, <1>4, <1>7
<1>9. InOrder(t)
      BY <1>1, <1>3, <1>5, <1>6, <1>7, <1>8 DEF InOrder, Waits
<1>10. Content(t) = Content(s)
       BY <1>3, <1>7, <1>9, ContentFacts
<1> QED BY <1>3, <1>9, <1>10 DEF t

\* The parts of a concatenation.
LEMMA ConcatParts ==
    ASSUME NEW T, NEW x \in Seq(T), NEW y \in Seq(T)
    PROVE  /\ x \o y \in Seq(T) /\ Len(x \o y) = Len(x) + Len(y)
           /\ \A k \in 1..Len(x) : (x \o y)[k] = x[k]
           /\ \A k \in 1..Len(y) : (x \o y)[Len(x) + k] = y[k]
OBVIOUS

\* A queue and what is delivered from it.
LEMMA TakenContent ==
    ASSUME NEW x \in Seq(Chunks), NEW queue \in Seq([value : Chunks, size : Nat]), queue # <<>>
    PROVE  Append(x, Head(queue).value) \o Values(Tail(queue)) = x \o Values(queue)
<1> DEFINE n == Len(queue)
           v == Values(queue)
           w == Values(Tail(queue))
<1>1. /\ n \in Nat /\ n > 0 /\ DOMAIN queue = 1..n
      /\ \A k \in 1..n : queue[k] \in [value : Chunks, size : Nat]
      /\ Head(queue) = queue[1]
      /\ Tail(queue) \in Seq([value : Chunks, size : Nat]) /\ Len(Tail(queue)) = n - 1
      /\ \A k \in 1..(n - 1) : Tail(queue)[k] = queue[k + 1]
      BY SequenceParts
<1>2. v \in Seq(Chunks) /\ Len(v) = n /\ \A k \in 1..n : v[k] = queue[k].value
  <2>1. v = [k \in 1..n |-> queue[k].value]
        BY <1>1 DEF Values
  <2>2. \A k \in 1..n : queue[k].value \in Chunks
        BY <1>1
  <2> HIDE DEF n, v
  <2> QED BY <1>1, <2>1, <2>2
<1>3. w \in Seq(Chunks) /\ Len(w) = n - 1 /\ \A k \in 1..(n - 1) : w[k] = queue[k + 1].value
  <2>1. DOMAIN Tail(queue) = 1..(n - 1)
        BY <1>1
  <2>2. w = [k \in 1..(n - 1) |-> Tail(queue)[k].value]
        BY <2>1 DEF Values
  <2>3. \A k \in 1..(n - 1) : Tail(queue)[k].value \in Chunks /\ k + 1 \in 1..n
        BY <1>1
  <2> HIDE DEF n, w
  <2> QED BY <1>1, <2>2, <2>3
<1>4. Head(queue).value = v[1] /\ v[1] \in Chunks
      BY <1>1, <1>2
<1>5. \A k \in 1..(n - 1) : w[k] = v[k + 1]
      BY <1>1, <1>2, <1>3
<1> HIDE DEF n, v, w
<1>6. Append(x, v[1]) \o w = x \o v
  <2> DEFINE l == Len(x)
             y == Append(x, v[1])
             a == y \o w
             b == x \o v
  <2>1. /\ l \in Nat /\ y \in Seq(Chunks) /\ Len(y) = l + 1 /\ y[l + 1] = v[1]
        /\ \A k \in 1..l : y[k] = x[k]
        BY <1>4
  <2> HIDE DEF y
  <2>2. /\ a \in Seq(Chunks) /\ Len(a) = Len(y) + Len(w)
        /\ \A k \in 1..Len(y) : a[k] = y[k]
        /\ \A k \in 1..Len(w) : a[Len(y) + k] = w[k]
    <3>1. y \in Seq(Chunks) /\ w \in Seq(Chunks)
          BY <1>3, <2>1
    <3> QED BY ONLY <3>1, ConcatParts
  <2>3. /\ b \in Seq(Chunks) /\ Len(b) = Len(x) + Len(v)
        /\ \A k \in 1..Len(x) : b[k] = x[k]
        /\ \A k \in 1..Len(v) : b[Len(x) + k] = v[k]
    <3>1. x \in Seq(Chunks) /\ v \in Seq(Chunks)
          BY <1>2
    <3> QED BY ONLY <3>1, ConcatParts
  <2> HIDE DEF a, b, l
  <2>4. Len(a) = l + n /\ Len(b) = l + n
        BY <1>1, <1>2, <1>3, <2>1, <2>2, <2>3 DEF l
  <2>5. \A k \in 1..(l + n) : a[k] = b[k]
    <3> SUFFICES ASSUME NEW k \in 1..(l + n)
                 PROVE  a[k] = b[k]
        OBVIOUS
    <3>1. CASE k <= l
          BY <2>1, <2>2, <2>3, <3>1 DEF l
    <3>2. CASE k = l + 1
      <4>1. a[k] = v[1]
            BY <2>1, <2>2, <3>2
      <4>2. b[k] = v[1]
            BY <1>1, <1>2, <2>3, <3>2 DEF l
      <4> QED BY <4>1, <4>2
    <3>3. CASE k > l + 1
      <4> DEFINE h == k - (l + 1)
      <4>1. h \in 1..(n - 1) /\ k = l + 1 + h /\ h + 1 \in 1..n /\ k = l + (h + 1)
            BY <1>1, <2>1, <3>3
      <4> HIDE DEF h
      <4>2. a[k] = w[h]
            BY <1>3, <2>1, <2>2, <4>1
      <4>3. b[k] = v[h + 1]
            BY <1>2, <2>3, <4>1 DEF l
      <4> QED BY <1>5, <4>1, <4>2, <4>3
    <3>4. k \in Nat
          BY <1>1, <2>1
    <3> QED BY <2>1, <3>1, <3>2, <3>3, <3>4
  <2>6. a = b
        BY <1>1, <2>1, <2>2, <2>3, <2>4, <2>5
  <2> QED BY <2>6 DEF a, b, y
<1> QED BY <1>4, <1>6 DEF v, w

\* A read that takes a chunk from the queue.
LEMMA ReadTakesOrder ==
    ASSUME NEW s, InOrder(s), CanRead(s), s.state = "readable", s.queue # <<>>
    PROVE  LET t == Read(s)
           IN  /\ InOrder(t) /\ Content(t) = Content(s)
               /\ t.state = "readable" \/ (t.state = "closed" /\ t.queue = <<>>)
<1> DEFINE t == Read(s)
           h == NextRead(s)
           answer == Head(s.queue).value
<1>1. /\ s \in Slots /\ s.keysMatch /\ ~s.cancelled /\ s.readRequests = <<>>
      /\ ~s.readInSize
      /\ s.queue \in Seq([value : Chunks, size : Nat])
      /\ \A i \in Reads : s.answers[i] = "pending" =>
             \E k \in DOMAIN s.readRequests : s.readRequests[k] = i
      BY SlotsFacts DEF InOrder, Waits, InTurn
<1>2. h \in Reads /\ \A i \in Reads : s.answers[i] = "none" <=> i > h - 1
      BY NextReadPlace
<1>3. /\ t \in Slots /\ Answers(s, t, h, answer)
      /\ t.state = "readable" \/ (t.state = "closed" /\ Tail(s.queue) = <<>>)
      /\ t.readRequests = <<>> /\ t.queue = Tail(s.queue) /\ ~t.readInSize
      BY <1>1, <1>2, ReadTakesEffect
<1>4. answer \in Chunks
  <2>1. Head(s.queue) \in [value : Chunks, size : Nat]
        BY <1>1, HeadAndTail
  <2> QED BY <2>1
<1> HIDE DEF t, h, answer
<1>5. answer \notin {"none", "pending", "rejected", "done"} /\ Served(answer)
      BY <1>4, ReadableStreamAssumption DEF Served
<1>6. ReadAt(s, t, h, answer) /\ t.keysMatch = s.keysMatch /\ t.cancelled = s.cancelled
      BY <1>2, <1>3 DEF ReadAt, Answers
<1>7. InTurn(t)
      BY <1>1, <1>3, <1>5, <1>6, ReadTurn
<1>8. /\ s.answers[h] = "none"
      /\ \A i \in Reads : i < h => s.answers[i] # "none"
      /\ \E n \in 0..MaxReads : \A i \in Reads : t.answers[i] = "none" <=> i > n
      BY <1>3, <1>5, <1>6, ReadPlaces
<1>9. \A i \in Reads : i < h => s.answers[i] \notin {"none", "pending"}
  <2>1. DOMAIN s.readRequests = {}
        BY <1>1
  <2> QED BY <1>1, <1>8, <2>1
<1>10. s.answers[h] \notin Chunks
       BY <1>8, ReadableStreamAssumption
<1>11. /\ Chosen(t.answers, Chunks) = Append(Chosen(s.answers, Chunks), answer)
       /\ \A i \in Reads : t.answers[i] # "done"
       /\ \A i, j \in Reads : i < j /\ t.answers[j] \in Chunks => t.answers[i] \in Chunks
       BY <1>2, <1>3, <1>4, <1>6, <1>9, <1>10, AnsweredMore DEF ReadAt
<1>12. InOrder(t)
       BY <1>1, <1>3, <1>6, <1>7, <1>8, <1>11 DEF InOrder, Waits
<1>13. Content(t) = Content(s)
  <2>1. Chosen(s.answers, Chunks) \in Seq(Chunks)
        BY ContentFacts DEF Delivered
  <2>2. Append(Chosen(s.answers, Chunks), answer) \o Values(Tail(s.queue))
            = Chosen(s.answers, Chunks) \o Values(s.queue)
        BY <1>1, <2>1, TakenContent DEF answer
  <2> QED BY <1>3, <1>11, <2>2 DEF Content
<1> QED BY <1>3, <1>12, <1>13 DEF t

\* A read outside size(), whatever the stream.
LEMMA ReadOrder ==
    ASSUME NEW s, InOrder(s), s.sizing = None, CanRead(s)
    PROVE  LET t == Read(s)
           IN  /\ InOrder(t)
               /\ s.state # "readable" =>
                      Delivered(t) = Delivered(s) /\ t.state = s.state /\ t.queue = s.queue
               /\ s.state = "readable" =>
                      /\ Content(t) = Content(s)
                      /\ t.state = "readable" \/ (t.state = "closed" /\ t.queue = <<>>)
BY ReadEndedOrder, ReadWaitsOrder, ReadTakesOrder

\* Where no size is being asked for, only enqueue() of the source makes it asked for.
LEMMA UnsizedStays ==
    ASSUME NEW s, InOrder(s), s.sizing = None
    PROVE  /\ CanRead(s) => Read(s).sizing = None
           /\ \A chunk \in Chunks, size \in Nat : Enqueue(s, chunk, size).sizing = None
           /\ ControllerError(s).sizing = None
           /\ s.state = "readable" => ControllerClose(s).sizing = None /\ Cancel(s).sizing = None
<1>1. s \in Slots /\ Waits(s) /\ s.state \in {"readable", "closed", "errored"}
      BY SlotsFacts DEF InOrder
<1>2. ASSUME CanRead(s)
      PROVE  Read(s).sizing = None
  <2>1. NextRead(s) \in Reads
        BY <1>2, NextReadPlace
  <2>2. CASE s.state # "readable"
        BY <1>1, <2>1, <2>2, ReadEndedEffect DEF Answers
  <2>3. CASE s.state = "readable" /\ s.queue = <<>>
        BY <1>1, <2>1, <2>3, ReadWaitsEffect DEF Answers
  <2>4. CASE s.state = "readable" /\ s.queue # <<>>
    <3>1. s.readRequests = <<>>
          BY <1>1, <2>4 DEF Waits
    <3> QED BY <1>1, <2>1, <2>4, <3>1, ReadTakesEffect DEF Answers
  <2> QED BY <2>2, <2>3, <2>4
<1>3. ASSUME NEW chunk \in Chunks, NEW size \in Nat
      PROVE  Enqueue(s, chunk, size).sizing = None
  <2>1. CASE s.readRequests # <<>>
        BY <1>1, <2>1, EnqueueToRequestEffect DEF Enqueue, Fulfilled
  <2>2. CASE s.readRequests = <<>>
        BY <1>1, <2>2, EnqueueSizedEffect DEF Enqueue, Queued
  <2> QED BY <2>1, <2>2
<1>4. ControllerError(s).sizing = None
      BY <1>1, ControllerErrorEffect DEF Failed
<1>5. ASSUME s.state = "readable"
      PROVE  ControllerClose(s).sizing = None /\ Cancel(s).sizing = None
      BY <1>1, <1>5, ControllerCloseEffect, CancelEffect DEF Closed, SameChannel, Cancelled
<1> QED BY <1>2, <1>3, <1>4, <1>5

\* What a step of the source leaves of the answers.
OrderKept(s, t) ==
    /\ InOrder(t) /\ t.cancelled = s.cancelled
    /\ s.state = "closed" => t.state = "closed"
    /\ \A i \in Reads : s.answers[i] # "pending" => t.answers[i] = s.answers[i]
    /\ \A i \in Reads : s.answers[i] = "pending" => t.answers[i] # "none"

LEMMA EffectOrder ==
    ASSUME NEW s, InOrder(s), NEW t \in Slots,
           \/ SameReads(s, t) /\ Waits(t) /\ t.cancelled = s.cancelled
           \/ s.state = "readable" /\ (Closed(s, t) \/ Failed(s, t))
           \/ /\ s.state = "readable" /\ s.readRequests # <<>>
              /\ \E chunk \in Chunks : Fulfilled(s, t, chunk)
    PROVE  OrderKept(s, t)
<1>1. /\ s \in Slots /\ s.keysMatch /\ InTurn(s) /\ (s.state = "readable" => ~s.cancelled)
      /\ ~s.readInSize
      /\ \E n \in 0..MaxReads : \A i \in Reads : s.answers[i] = "none" <=> i > n
      /\ \A i \in Reads : s.answers[i] = "done" => s.state = "closed"
      /\ \A i, j \in Reads : i < j /\ s.answers[j] \in Chunks => s.answers[i] \in Chunks
      BY DEF InOrder
<1>2. s.answers \in [Reads -> AnswerSet] /\ "none" \notin Chunks
      BY <1>1, SlotsFacts, ReadableStreamAssumption
<1>3. CASE SameReads(s, t) /\ Waits(t) /\ t.cancelled = s.cancelled
  <2>1. /\ t.keysMatch = s.keysMatch /\ t.state = s.state
        /\ t.readRequests = s.readRequests /\ t.answers = s.answers
        /\ t.readInSize = s.readInSize
        BY <1>3 DEF SameReads
  <2>2. InTurn(t)
        BY <1>1, <2>1, SameInTurn
  <2>3. InOrder(t)
        BY <1>1, <1>3, <2>1, <2>2 DEF InOrder
  <2> QED BY <1>3, <2>1, <2>3 DEF OrderKept
<1>4. CASE s.state = "readable" /\ (Closed(s, t) \/ Failed(s, t))
  <2>1. InOrder(t)
        BY <1>4, EndsOrder
  <2>2. PICK answer \in {"done", "rejected"} : t.answers = WaitingAnswered(s, answer)
        BY <1>1, <1>4 DEF Closed, Failed
  <2>3. /\ \A i \in Reads : t.answers[i] = IF Contains(s.readRequests, i) THEN answer
                                           ELSE s.answers[i]
        /\ \A i \in Reads : Contains(s.readRequests, i) => s.answers[i] = "pending"
        /\ \A i \in Reads : t.answers[i] = "none" <=> s.answers[i] = "none"
        BY <2>2, WaitingOrder
  <2>4. t.cancelled = s.cancelled
        BY <1>4 DEF Closed, Failed
  <2> QED BY <1>4, <2>1, <2>3, <2>4 DEF OrderKept
<1>5. CASE /\ s.state = "readable" /\ s.readRequests # <<>>
           /\ \E chunk \in Chunks : Fulfilled(s, t, chunk)
  <2>1. PICK chunk \in Chunks : Fulfilled(s, t, chunk)
        BY <1>5
  <2>2. InOrder(t)
        BY <1>5, <2>1, FulfilledOrder
  <2> DEFINE h == Head(s.readRequests)
  <2>3. t.answers = [s.answers EXCEPT ![h] = chunk] /\ t.cancelled = s.cancelled
        BY <1>1, <2>1 DEF Fulfilled
  <2>4. h \in Reads /\ 1 \in DOMAIN s.readRequests /\ s.readRequests[1] = h
    <3>1. s.readRequests \in Seq(Reads)
          BY <1>1, SlotsFacts
    <3> QED BY <1>5, <3>1, SequenceParts
  <2> HIDE DEF h
  <2>5. s.answers[h] = "pending"
        BY <1>1, <2>4 DEF InTurn
  <2>6. \A i \in Reads : t.answers[i] = IF i = h THEN chunk ELSE s.answers[i]
        BY <1>2, <2>3
  <2>7. /\ \A i \in Reads : s.answers[i] # "pending" => t.answers[i] = s.answers[i]
        /\ \A i \in Reads : s.answers[i] = "pending" => t.answers[i] # "none"
        BY <1>2, <2>5, <2>6
  <2> QED BY <1>5, <2>2, <2>3, <2>7 DEF OrderKept
<1> QED BY <1>3, <1>4, <1>5

\* error(), after a slot that the order does not depend on has been changed.
LEMMA ErrorOrder ==
    ASSUME NEW s, InOrder(s), NEW a \in Slots, SameContent(s, a)
    PROVE  OrderKept(s, ControllerError(a))
<1>1. InOrder(a)
      BY SameContentOrder
<1>2. Waits(a)
      BY <1>1 DEF InOrder
<1>3. OrderKept(a, ControllerError(a))
  <2>1. CASE a.state = "readable"
    <3>1. Failed(a, ControllerError(a))
          BY <2>1, ControllerErrorEffect
    <3>2. ControllerError(a) \in Slots
          BY <3>1 DEF Failed
    <3> QED BY <1>1, <2>1, <3>1, <3>2, EffectOrder
  <2>2. CASE a.state # "readable"
    <3>1. ControllerError(a) = a
          BY <2>2, ControllerErrorEffect
    <3>2. SameReads(a, a)
          BY DEF SameReads
    <3> QED BY <1>1, <1>2, <3>1, <3>2, EffectOrder
  <2> QED BY <2>1, <2>2
<1> QED BY <1>3 DEF OrderKept, SameContent

\* What the source does, and what its promises do.
LEMMA SourceOrder ==
    ASSUME InOrder(stream), ReadableInvariant(stream), SourceCallsController \/ SourceSettles
    PROVE  OrderKept(stream, stream')
<1>0. /\ ChannelInvariant(stream) /\ InTurn(stream) /\ stream \in Slots
      /\ stream.sizing \in Chunks \cup {None} /\ stream.offered \in SUBSET Chunks
      /\ Waits(stream) /\ stream.keysMatch /\ ~stream.readInSize
      BY InvariantFacts DEF ReadableInvariant, InOrder
<1>1. ASSUME SameChannel(stream, stream'), stream' \in Slots
      PROVE  OrderKept(stream, stream')
  <2>1. SameReads(stream, stream') /\ Waits(stream') /\ stream'.cancelled = stream.cancelled
        BY <1>0, <1>1 DEF SameChannel, SameReads, Waits
  <2> QED BY <1>1, <2>1, EffectOrder
<1>2. CASE SourceCloses
  <2>1. stream.state = "readable" /\ stream' = ControllerClose(stream)
        BY <1>2 DEF SourceCloses, CanCloseOrEnqueue
  <2>2. CASE stream.queue = <<>>
    <3>1. Closed(stream, stream')
          BY <1>0, <2>1, <2>2, ControllerCloseEffect
    <3>2. stream' \in Slots
          BY <3>1 DEF Closed
    <3> QED BY <2>1, <3>1, <3>2, EffectOrder
  <2>3. CASE stream.queue # <<>>
        BY <1>0, <1>1, <2>1, <2>3, ControllerCloseEffect
  <2> QED BY <2>2, <2>3
<1>3. CASE SourceErrors
  <2>1. SameContent(stream, stream)
        BY DEF SameContent
  <2> QED BY <1>0, <1>3, <2>1, ErrorOrder DEF SourceErrors
<1>4. CASE SourceEnqueues
  <2> DEFINE chunk == CHOOSE c \in Chunks : c \notin stream.offered
             offered == [stream EXCEPT !.offered = @ \cup {chunk}]
             sized == [offered EXCEPT !.sizing = chunk]
  <2>1. stream.state = "readable" /\ stream.offered # Chunks
        BY <1>4 DEF SourceEnqueues, CanCloseOrEnqueue
  <2>2. chunk \in Chunks
    <3>1. \E c \in Chunks : c \notin stream.offered
          BY <1>0, <2>1
    <3> QED BY <3>1
  <2>3. \/ stream.readRequests # <<>> /\ stream' = EnqueueToRequest(offered, chunk)
        \/ stream' = sized
        BY <1>4 DEF SourceEnqueues
  <2> HIDE DEF chunk
  <2>4. /\ SameContent(stream, offered) /\ SameContent(offered, sized)
        BY <1>0 DEF SameContent, Slots
  <2>5. offered \in Slots
    <3>1. stream.offered \cup {chunk} \in SUBSET Chunks
          BY <1>0, <2>2
    <3> QED BY <1>0, <3>1, SeenFields
  <2> HIDE DEF offered
  <2>6. CASE stream.readRequests # <<>> /\ stream' = EnqueueToRequest(offered, chunk)
    <3>1. offered.readRequests # <<>> /\ offered.state = "readable"
          BY <2>1, <2>4, <2>6 DEF SameContent
    <3>2. Fulfilled(offered, stream', chunk)
          BY <2>2, <2>5, <2>6, <3>1, EnqueueToRequestEffect
    <3>3. InOrder(offered) /\ stream' \in Slots
          BY <2>4, <2>5, <3>2, SameContentOrder DEF Fulfilled
    <3>4. OrderKept(offered, stream')
          BY <2>2, <3>1, <3>2, <3>3, EffectOrder
    <3> QED BY <2>4, <3>4 DEF OrderKept, SameContent
  <2>7. CASE stream' = sized
    <3>1. sized \in Slots
          BY <2>2, <2>5, SeenFields
    <3> HIDE DEF sized
    <3>2. SameReads(stream, stream') /\ Waits(stream') /\ stream'.cancelled = stream.cancelled
          BY <1>0, <2>4, <2>7 DEF SameReads, SameContent, Waits
    <3> QED BY <2>7, <3>1, <3>2, EffectOrder
  <2> QED BY <2>3, <2>6, <2>7
<1>5. CASE SizeReturns
  <2> DEFINE returned == [stream EXCEPT !.sizing = None]
  <2>1. stream.sizing # None
        /\ \/ \E size \in Sizes : stream' = EnqueueSized(returned, stream.sizing, size)
           \/ stream' = ControllerError(returned)
        BY <1>5 DEF SizeReturns
  <2>2. stream.sizing \in Chunks
        BY <1>0, <2>1
  <2>3. SameContent(stream, returned) /\ returned \in Slots
    <3>1. returned \in Slots
          BY <1>0, SeenFields
    <3>2. SameContent(stream, returned)
          BY <1>0 DEF SameContent, Slots
    <3> QED BY <3>1, <3>2
  <2> HIDE DEF returned
  <2>4. stream.readRequests = <<>>
    <3>1. stream.state = "readable" => stream.readRequests = <<>>
          BY <1>0, <2>1 DEF ChannelInvariant
    <3>2. stream.state # "readable" => stream.readRequests = <<>>
          BY <1>0 DEF InTurn
    <3> QED BY <3>1, <3>2
  <2>5. ASSUME NEW size \in Sizes, stream' = EnqueueSized(returned, stream.sizing, size)
        PROVE  OrderKept(stream, stream')
    <3>1. size \in Nat
          BY ReadableStreamAssumption
    <3>2. Queued(returned, stream', stream.sizing)
          BY <2>2, <2>3, <2>5, <3>1, EnqueueSizedEffect
    <3>3. /\ SameReads(stream, stream') /\ Waits(stream') /\ stream'.cancelled = stream.cancelled
          /\ stream' \in Slots
          BY <2>3, <2>4, <3>2 DEF Queued, SameContent, SameReads, Waits
    <3> QED BY <3>3, EffectOrder
  <2> QED BY <2>1, <2>3, <2>5, ErrorOrder
<1>6. ASSUME NEW call, stream' = ControllerError(Settled(stream, call))
      PROVE  OrderKept(stream, stream')
  <2>1. Settled(stream, call) \in Slots /\ SameContent(stream, Settled(stream, call))
        BY <1>0, SettledKeeps DEF SameChannel, SameContent
  <2> QED BY <1>6, <2>1, ErrorOrder
<1>7. CASE StartSettles
      BY <1>0, <1>1, <1>6, <1>7, FinishStartKeeps DEF StartSettles, FailStart
<1>8. CASE PullSettles
      BY <1>0, <1>1, <1>6, <1>8, FinishPullKeeps DEF PullSettles, FailPull
<1> QED BY <1>2, <1>3, <1>4, <1>5, <1>7, <1>8 DEF SourceCallsController, SourceSettles

=============================================================================
